SPECIFICATION Spec
CONSTANTS
  Socks = {s1, s2}
  Fds = {4}
  Traffics <- OneGpuEach
  MaxReqs <- OneEach
  QuietReuse = FALSE
  None = None
INVARIANTS
  Isolation
