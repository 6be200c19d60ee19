SPECIFICATION FairSpec
CONSTANTS
    MaxQueries = 4
    MaxLinks = 3
    CanLose = TRUE
INVARIANTS AnswersInOrder OneLink PopsEmptyOnlyAtExit
PROPERTY EveryQueryAnswered
CHECK_DEADLOCK FALSE
