SPECIFICATION Spec
CONSTANTS
  Peers = {1, 2}
  Role = "DialOnly"
  LocalId = 5
  PeerId <- MCPeerId
  MaxLinks = 1
  Backoff <- MCBackoff
  GiveUpAfter = 2
  AcceptorDeadline = 2
  ServeRetryDelay = 1
  Elapsed = {0}
  SessionsRepeat = FALSE
  EventsMayLag = TRUE
  Disruptions = 5
  DialWindow = 2
  DisconnectWindow = 1
  DrainWindow = 1
INVARIANT LinksMatchMachines
INVARIANT StatusAgreesWithEvents
INVARIANT RadioAnswerAgrees
 
INVARIANT NoIdleSlot
INVARIANT IInv
 
 
CHECK_DEADLOCK FALSE
