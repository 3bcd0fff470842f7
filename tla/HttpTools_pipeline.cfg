SPECIFICATION Spec
CONSTANTS
    NumRequests = 3
    MaxBody = 0
    HighWater = 0
    Lengths = {}
    Sizes = {0}
    HeadRequests = {}
    ExpectRequests = {}
    LimitConcurrency = 2
    WebSockets = TRUE
    ListenForDisconnect = FALSE
    BadHeaders = FALSE
    SlowPeer = FALSE
INVARIANTS
    ResponsesInOrder
    KeepAliveOnlyWhenIdle
    CountedOnce
    DrainWillClose
PROPERTIES
    StartsInTurn
    ImplementsConnection
CHECK_DEADLOCK FALSE
