SPECIFICATION FairSpec
CONSTANTS
  Reqs = {r1, r2}
  Hidden = {}
  Faults = {"job"}
  NoReq = NoReq
PROPERTIES
  EveryRequestReleased
  ImplementsFairService
