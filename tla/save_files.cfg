SPECIFICATION FairSpec
CONSTANTS
    Radix = 3
    BackupLevels = 2
    FirstCounts = {2}
    MaxSaves = 5
    MaxFailures = 1
INVARIANT
    NewestKept
PROPERTIES
    SyncedAfterStages
    LoadsNewest
    LoadEnds
CHECK_DEADLOCK FALSE
