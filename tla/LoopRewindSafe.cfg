SPECIFICATION Spec
CONSTANTS
  Programs <- FollowedAndReturning
  OuterVars = {"o"}
  MaxTrips = 2
INVARIANTS
  NoDangling
  Reclaimed
  ReturnedLives
