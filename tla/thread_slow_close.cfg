SPECIFICATION Spec
CONSTANTS
    MaxThreads = 1
    MaxHangs = 1
    Builds <- LoopOnUnix
INVARIANTS TypeOK ClosedOnReturn
CHECK_DEADLOCK FALSE
