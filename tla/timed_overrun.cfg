SPECIFICATION TimedSpec
CONSTANTS
    TicksPerSec = 2
    Uids = {u1}
    Funcs = {f, g}
    Seconds = {0, 2}
    MaxAsks = 2
    MaxFaults = 1
INVARIANT
    StaysInList
CHECK_DEADLOCK FALSE
