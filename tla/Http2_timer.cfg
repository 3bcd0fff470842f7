SPECIFICATION Spec
CONSTANTS
    NumRequests = 2
    MaxBody = 1
    LimitConcurrency = 2
INVARIANTS
    TimerBetweenRequests
CHECK_DEADLOCK FALSE
