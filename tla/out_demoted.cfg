SPECIFICATION Spec
CONSTANTS
    Setups <- JustOneThread
    OtherThreads = FALSE
    MaxPackets = 2
    MaxQueueSize = 1
    MaxPerTick = 1
INVARIANTS TypeOK LastWords
CHECK_DEADLOCK FALSE
