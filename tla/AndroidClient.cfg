SPECIFICATION Spec
CONSTANTS
  c1 = c1
  c2 = c2
  w1 = w1
  w2 = w2
  w3 = w3
  Calls = {c1, c2}
  Writes = {w1, w2}
  Retries = 1
  RadioLosses = 1
SYMMETRY Names
INVARIANT WaiterIsAnswered
INVARIANT NobodyLockedOut
PROPERTY CompletionIsItsOwn
CHECK_DEADLOCK FALSE
