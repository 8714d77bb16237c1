SPECIFICATION FairSpec
CONSTANTS
    Handles = {h1, h2}
    NoHandle = NoHandle
    Sizes <- MCSizes
    Budget = 2
    MaxFragments = 2
    Ceiling = 5
    MaxMessageLen = 4
    MaxConcurrent = 1
    Timeout = 1
    QueueDepth = 1
    IdSpace = 4
    MaxMessages = 2
    WireCap = 2
    MaxFaults = 1
INVARIANTS
    DeliveredWasSent
    InOrder
    NoSilentLoss
PROPERTIES
    GapIsTold
    DatagramServiceSpec
CHECK_DEADLOCK FALSE
