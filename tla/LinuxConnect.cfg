SPECIFICATION FairSpec
CONSTANTS
  p1 = p1
  p2 = p2
  c1 = c1
  Peers = {p1, p2}
  Centrals = {p1}
  Leftover = {p1}
  Calls = {c1}
  Permits = 1
  MaxSession = 2
  Disturbances = 1
INVARIANT StaleCallsMeetNoLink
INVARIANT HandlesKeepToTheirLink
PROPERTY RefusalsEnd
PROPERTY LossIsReported
CHECK_DEADLOCK FALSE
