SPECIFICATION Spec
CONSTANTS
    MaxThreads = 1
    MaxHangs = 0
    Builds <- PingOnUnix
INVARIANTS TypeOK PopFinds
CHECK_DEADLOCK FALSE
