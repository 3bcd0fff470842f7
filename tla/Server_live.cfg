SPECIFICATION LiveSpec
CONSTANTS
    c1 = c1
    Conns = {c1}
    NumRequests = 2
    MaxSignals = 2
    Configs <- LiveConfigs
    Modes = {"on", "off"}
PROPERTIES
    ConnectionsKeepContract
    ShutdownIsBounded
    GracefulShutdownEnds
    GoneAppReleases
CHECK_DEADLOCK FALSE
