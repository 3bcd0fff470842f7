SPECIFICATION FairSpec
CONSTANTS
    Workers = 1
    MaxWorkers = 2
    MaxSignals = 2
    MaxPending = 2
INVARIANTS
    PoolOwnsWorkers
    RetiredIsReplaced
PROPERTIES
    FailedIsNotRestarted
    StopsWhenItShould
    HungIsKilled
CHECK_DEADLOCK FALSE
