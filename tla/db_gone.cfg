SPECIFICATION Spec
CONSTANTS
    MaxQueries = 1
    MaxLinks = 1
    CanLose = TRUE
INVARIANT QueriesOpenLink
CHECK_DEADLOCK FALSE
