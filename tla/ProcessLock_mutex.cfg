SPECIFICATION Spec
CONSTANTS
    Proc = {p1, p2, p3}
    NoId = NoId
    Retries = 1
    MaxDepth = 2
    Sorted = TRUE
    MaxCalls = 1
    MaxCrashes = 1
INVARIANT MutualExclusion
CHECK_DEADLOCK FALSE
