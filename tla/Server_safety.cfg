SPECIFICATION Spec
CONSTANTS
    c1 = c1
    c2 = c2
    Conns = {c1, c2}
    NumRequests = 1
    MaxSignals = 2
    Configs <- SafetyConfigs
    Modes = {"on", "auto", "off"}
INVARIANTS
    RequestsWithinLifespan
    StartedIsShutDown
    QuietWhenWaited
    ToldWillClose
    LifespanVerdicts
SYMMETRY Symmetric
CHECK_DEADLOCK FALSE
