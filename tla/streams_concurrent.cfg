SPECIFICATION FairSpec
CONSTANTS
    Node = {n1, n2, n3}
    MaxRecords = 2
    Concurrent = TRUE
    MayNest = FALSE
INVARIANTS
    Inv
    OneThreadInPhp
    ErrorsAreReported
    OkIsComplete
PROPERTY
    StreamReturns
