SPECIFICATION Spec
CONSTANTS
  Programs <- Unpacked
  OuterVars = {"o"}
  MaxTrips = 2
INVARIANTS
  NoDangling
