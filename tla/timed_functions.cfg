SPECIFICATION TimedFairSpec
CONSTANTS
    TicksPerSec = 2
    Uids = {u1}
    Funcs = {f, g}
    Seconds = {0, 2}
    MaxAsks = 3
    MaxFaults = 2
INVARIANTS
    OnTime
    StoppedStays
PROPERTIES
    EveryCalled
CHECK_DEADLOCK FALSE
