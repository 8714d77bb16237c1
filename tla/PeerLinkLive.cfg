SPECIFICATION FairSpec
CONSTANTS
  Peers = {1, 2}
  Role = "Symmetric"
  LocalId = 5
  PeerId <- MCPeerId
  MaxLinks = 1
  Backoff <- MCBackoff
  GiveUpAfter = 3
  AcceptorDeadline = 2
  ServeRetryDelay = 1
  Elapsed = {0}
  SessionsRepeat = FALSE
  EventsMayLag = FALSE
  Disruptions = 3
  DialWindow = 2
  DisconnectWindow = 1
  DrainWindow = 1
INVARIANT CapRespected
PROPERTY PeersSettle
PROPERTY ServerComesBack
PROPERTY RadioAnswerConverges
CHECK_DEADLOCK FALSE
