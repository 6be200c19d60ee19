SPECIFICATION Spec
CONSTANTS
    Setups <- JustTwoThreads
    OtherThreads = FALSE
    MaxPackets = 2
    MaxQueueSize = 0
    MaxPerTick = 1
INVARIANTS TypeOK LastWords
CHECK_DEADLOCK FALSE
