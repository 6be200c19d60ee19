SPECIFICATION FairSpec
CONSTANTS
    MaxThreads = 2
    MaxHangs = 2
    Builds <- LoopOnWindows
INVARIANT TypeOK
PROPERTY EveryExitFinishes
CHECK_DEADLOCK FALSE
