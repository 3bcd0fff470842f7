SPECIFICATION Spec
CONSTANTS
    NumRequests = 2
    MaxBody = 2
    HighWater = 1
    Lengths = {}
    Sizes = {0}
    HeadRequests = {}
    ExpectRequests = {1}
    LimitConcurrency = 2
    WebSockets = FALSE
    ListenForDisconnect = TRUE
    BadHeaders = FALSE
    SlowPeer = FALSE
INVARIANTS
    NoLostWakeup
    PauseHasOwner
    BodyDelivery
CHECK_DEADLOCK FALSE
