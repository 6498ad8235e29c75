SPECIFICATION Spec
CONSTANTS
  Socks = {s1}
  Fds = {4}
  Traffics <- PipelinedSimple
  MaxReqs <- TwoEach
  QuietReuse = TRUE
  None = None
INVARIANTS
  InOrder
