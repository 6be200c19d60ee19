SPECIFICATION FairSpec
CONSTANTS
    net1 = net1
    net2 = net2
    Threads <- OneThread
    NoThread = NoThread
    SlotCount = 1
    MaxConn = 2
    MaxQueue = 1
    MaxPerTick = 1
    Latched = TRUE
INVARIANTS
    NoCrossTalk
    ClientWhileWorking
    InUseIsOwned
PROPERTIES
    EveryClientTaken
    EveryCloseFinishes
    EveryByteRead
CHECK_DEADLOCK FALSE
