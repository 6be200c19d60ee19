SPECIFICATION FairSpec
CONSTANTS
    Radix = 8
    BackupLevels = 2
    FirstCounts = {1, 2}
    MaxSaves = 5
    MaxFailures = 0
INVARIANT
    TypeOK
PROPERTY
    EveryLoadEnds
CHECK_DEADLOCK FALSE
