SPECIFICATION Spec
CONSTANTS
    Node = {n1, n2, n3}
    MaxRecords = 2
    Concurrent = FALSE
    MayNest = TRUE
INVARIANTS
    Inv
    OneThreadInPhp
    FalseHaltsStream
    HaltInv
CHECK_DEADLOCK FALSE
