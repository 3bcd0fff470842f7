SPECIFICATION Spec
CONSTANTS
    NumRequests = 2
    MaxBody = 1
    HighWater = 0
    LimitConcurrency = 2
    WebSockets = TRUE
INVARIANTS
    HandOver
    ReadingIsOwned
    TimerInPauses
    DrainWillClose
    NoLostWakeup
    StreamsEndOnce
PROPERTIES
    KeepsContract
CHECK_DEADLOCK FALSE
