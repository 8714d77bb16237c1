SPECIFICATION FairSpec
CONSTANTS
  p1 = p1
  Peers = {p1}
  AcceptQueueDepth = 1
  EventCapacity = 3
  ServesAgain = TRUE
  Arrivals = 2
  Disruptions = 3
PROPERTY SlotComesFree
CHECK_DEADLOCK FALSE
