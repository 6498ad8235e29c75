SPECIFICATION Spec
CONSTANTS
  Reqs = {r1, r2, r3}
  Hidden = {}
  Faults = {"job", "context"}
  NoReq = NoReq
SYMMETRY Symmetry
INVARIANTS
  TimerCovers
  PollBudget
  NothingStranded
  ReadyHasWaker
  AnswerMatchesKernel
  OthersWait
PROPERTIES
  ReleasedOnce
  ImplementsService
