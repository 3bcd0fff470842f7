SPECIFICATION Spec
CONSTANTS
    MaxParts = 1
    MaxMessages = 3
INVARIANTS
    WsgiInv
PROPERTIES
    Delivered
CHECK_DEADLOCK FALSE
