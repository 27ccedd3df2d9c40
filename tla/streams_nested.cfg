SPECIFICATION FairSpec
CONSTANTS
    Node = {n1}
    MaxRecords = 1
    Concurrent = TRUE
    MayNest = TRUE
PROPERTY
    StreamReturns
CHECK_DEADLOCK FALSE
