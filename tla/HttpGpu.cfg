SPECIFICATION FairSpec
CONSTANTS
  Socks = {s1, s2}
  Fds = {4, 5}
  Traffics <- PipelinedGpu
  MaxReqs <- TwoOfTheFirst
  QuietReuse = TRUE
  None = None
INVARIANTS
  HeldInReady
  NoDuplicates
PROPERTIES
  EveryRequestAnswered
