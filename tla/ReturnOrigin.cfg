SPECIFICATION Spec
CONSTANTS
  Programs <- ReturnsEarlier
  OuterVars = {"o"}
  MaxTrips = 2
INVARIANTS
  ReturnedLives
