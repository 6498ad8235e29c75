SPECIFICATION Spec
CONSTANTS
  Chunks = {1, 2, 3}
  Sizes = {1, 3}
  DefaultCap = 2
  TrimCap = 3
  TrimKeep = 1
  MaxDepth = 2
  MaxObjects = 2
  MaxLists = 2
  MaxMarks = 1
  None = None
INVARIANTS
  ChunksLinkedOnce
  NoAlias
  ListsFreedOnce
  PoolBounded
