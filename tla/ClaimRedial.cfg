SPECIFICATION Spec
CONSTANTS
  Peers = {1}
  Role = "DialOnly"
  LocalId = 5
  PeerId <- MCPeerId
  MaxLinks = 1
  Backoff <- MCBackoff
  GiveUpAfter = 3
  AcceptorDeadline = 2
  ServeRetryDelay = 1
  Elapsed = {0}
  SessionsRepeat = FALSE
  EventsMayLag = FALSE
  Disruptions = 3
  DialWindow = 2
  DisconnectWindow = 1
  DrainWindow = 1
PROPERTY ADropIsRedialled
CHECK_DEADLOCK FALSE
