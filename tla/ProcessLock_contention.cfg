SPECIFICATION FairSpec
CONSTANTS
    Proc = {p1, p2, p3}
    NoId = NoId
    Retries = 0
    MaxDepth = 2
    Sorted = FALSE
    MaxCalls = 1
    MaxCrashes = 2
INVARIANTS
    TypeOK
    ExclusiveWithoutCrash
    HolderRecorded
    CleanAtRest
PROPERTIES
    AtomicUntilCrash
    CallsReturn
CHECK_DEADLOCK FALSE
