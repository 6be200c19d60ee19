SPECIFICATION FairSpec
CONSTANTS
    net1 = net1
    net2 = net2
    Threads <- OneThread
    NoThread = NoThread
    SlotCount = 1
    MaxConn = 1
    MaxQueue = 1
    MaxPerTick = 1
    Latched = FALSE
PROPERTIES
    EveryClientTaken
CHECK_DEADLOCK FALSE
