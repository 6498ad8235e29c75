SPECIFICATION Spec
CONSTANTS
  Socks = {s1, s2}
  Fds = {4}
  Traffics <- SerialAndPipelined
  MaxReqs <- TwoEach
  QuietReuse = TRUE
  None = None
INVARIANTS
  TableAgrees
  Listened
  ClosedOnlyWhenAsked
  NeverHangs
  IdleOwesNothing
  Isolation
  InOrder
  TxExclusive
SYMMETRY Symmetry
