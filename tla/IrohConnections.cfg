SPECIFICATION Spec
CONSTANTS
  a1 = a1
  a2 = a2
  k1 = k1
  k2 = k2
  Addrs = {a1}
  Conns = {k1, k2}
  MaxLinks = 2
  QueueDepth = 1
SYMMETRY Names
INVARIANT ReleaseIsComing
CHECK_DEADLOCK FALSE
