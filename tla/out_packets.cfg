SPECIFICATION FairSpec
CONSTANTS
    Setups <- BothWays
    OtherThreads = FALSE
    MaxPackets = 3
    MaxQueueSize = 0
    MaxPerTick = 1
INVARIANTS TransactionsWhole NoOvertaking LastWordsOfOneThread
PROPERTY EverySent
CHECK_DEADLOCK FALSE
