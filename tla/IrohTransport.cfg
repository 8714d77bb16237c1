SPECIFICATION Spec
CONSTANTS
  a1 = a1
  a2 = a2
  k1 = k1
  k2 = k2
  Addrs = {a1, a2}
  Conns = {k1}
  MaxLinks = 2
  QueueDepth = 2
SYMMETRY Names
INVARIANT NewestOwns
PROPERTY CloseGoesOut
CHECK_DEADLOCK FALSE
