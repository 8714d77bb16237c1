SPECIFICATION Spec
CONSTANTS
  s1 = s1
  s2 = s2
  d1 = d1
  d2 = d2
  NoOne = NoOne
  Scans = {s1, s2}
  Dials = {d1, d2}
  Disturbances = 4
SYMMETRY Names
INVARIANT StopIsOwed
PROPERTY StopMeetsNoScan
CHECK_DEADLOCK FALSE
