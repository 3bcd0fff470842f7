SPECIFICATION Spec
CONSTANTS
    MaxMessages = 2
    Impls = {"sansio", "wsproto"}
INVARIANTS
    DisconnectIsLast
    NoLostWakeup
    KeepaliveRuns
PROPERTIES
    ClosingEnds
CHECK_DEADLOCK FALSE
