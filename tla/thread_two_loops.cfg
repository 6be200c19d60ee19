SPECIFICATION Spec
CONSTANTS
    MaxThreads = 2
    MaxHangs = 1
    Builds <- LoopOnUnix
INVARIANTS TypeOK OneTicker
CHECK_DEADLOCK FALSE
