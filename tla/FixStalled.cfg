SPECIFICATION StallingSpec
CONSTANTS
    o1 = o1
    o2 = o2
    Orders <- OneOrder
    Quantity <- OneLot
    SendBuf = 1
    MaxBeats = 0
PROPERTY ContextAbortsWrite
CHECK_DEADLOCK FALSE
