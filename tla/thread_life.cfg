SPECIFICATION FairSpec
CONSTANTS
    MaxThreads = 2
    MaxHangs = 1
    Builds <- AllThree
INVARIANTS OneTickerOnWindows ClosedOnWindows NeverForcedElsewhere
PROPERTIES HangsEndOnWindows ExitsElsewhere
CHECK_DEADLOCK FALSE
