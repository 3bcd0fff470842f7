SPECIFICATION Spec
CONSTANTS
    MaxMessages = 2
    Impls = {"sansio", "wsproto"}
INVARIANTS
    ShutdownCloses
CHECK_DEADLOCK FALSE
