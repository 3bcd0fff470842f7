SPECIFICATION FairSpec
CONSTANTS
    NumRequests = 2
    MaxBody = 1
    HighWater = 0
    Lengths = {}
    Sizes = {0}
    HeadRequests = {}
    ExpectRequests = {}
    LimitConcurrency = 2
    WebSockets = FALSE
    ListenForDisconnect = FALSE
    BadHeaders = FALSE
    SlowPeer = FALSE
PROPERTIES
    QueuedIsServed
    DrainCloses
CHECK_DEADLOCK FALSE
