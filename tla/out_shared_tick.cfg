SPECIFICATION FairSpec
CONSTANTS
    Setups <- JustTwoThreads
    OtherThreads = TRUE
    MaxPackets = 2
    MaxQueueSize = 0
    MaxPerTick = 1
INVARIANTS TypeOK
PROPERTY EverySent
CHECK_DEADLOCK FALSE
