SPECIFICATION Spec
CONSTANTS
    NumRequests = 2
    MaxBody = 0
    HighWater = 0
    Lengths = {0, 2}
    Sizes = {0, 1, 2}
    HeadRequests = {2}
    ExpectRequests = {}
    LimitConcurrency = 1
    WebSockets = FALSE
    ListenForDisconnect = FALSE
    BadHeaders = TRUE
    SlowPeer = TRUE
INVARIANTS
    FramingExact
    NoLostDrain
CHECK_DEADLOCK FALSE
