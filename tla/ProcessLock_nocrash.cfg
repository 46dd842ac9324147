SPECIFICATION Spec
CONSTANTS
    Proc = {p1, p2, p3}
    NoId = NoId
    Retries = 1
    MaxDepth = 1
    Sorted = FALSE
    MaxCalls = 2
    MaxCrashes = 0
SYMMETRY Symmetry
INVARIANTS
    ExclusiveWithoutCrash
    HolderRecorded
    CleanAtRest
PROPERTY AtomicUntilCrash
CHECK_DEADLOCK FALSE
