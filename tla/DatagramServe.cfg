SPECIFICATION Spec
CONSTANTS
  p1 = p1
  p2 = p2
  Peers = {p1, p2}
  AcceptQueueDepth = 1
  EventCapacity = 3
  ServesAgain = FALSE
  Arrivals = 2
  Disruptions = 3
SYMMETRY Centrals
INVARIANT OneSender
INVARIANT OnlyTheSlotSends
INVARIANT SlotHasOwner
INVARIANT LossIsAhead
INVARIANT GapIsReported
INVARIANT LoopOutlivesChannels
PROPERTY SlotLeftForCause
CHECK_DEADLOCK FALSE
