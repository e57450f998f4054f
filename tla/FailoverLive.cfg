SPECIFICATION FairSpec
CONSTANTS
  r1 = r1
  r2 = r2
  NoRequest = NoRequest
  Requests = {r1, r2}
  Confs <- OnFirst
  MayStall = TRUE
PROPERTIES
  TrialEnds
