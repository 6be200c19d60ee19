SPECIFICATION Spec
CONSTANTS
    net1 = net1
    net2 = net2
    Threads <- TwoThreads
    NoThread = NoThread
    SlotCount = 1
    MaxConn = 2
    MaxQueue = 1
    MaxPerTick = 1
    Latched = TRUE
INVARIANTS
    OneThreadPerState
CHECK_DEADLOCK FALSE
