SPECIFICATION Spec
CONSTANTS
  Reqs = {r1, r2}
  Hidden = {r2}
  Faults = {}
  NoReq = NoReq
INVARIANT OthersWait
