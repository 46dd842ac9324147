SPECIFICATION FairSpec
CONSTANTS
    Proc = {p1, p2, p3}
    NoId = NoId
    Retries = 1
    MaxDepth = 2
    Sorted = TRUE
    MaxCalls = 1
    MaxCrashes = 2
PROPERTY DeadReclaimerNeverBlocks
CHECK_DEADLOCK FALSE
