CONSTANTS
    h1 = h1
    h2 = h2
    w1 = w1
    b1 = b1
    Handles = {h1, h2}
    Native = h1
    Wakes = {w1}
    NoWake = NoWake
    Bundles = {b1}
    MaxJobs = 2
    MaxAttempts = 2
    MaxRev = 2
SPECIFICATION FairSpec
CHECK_DEADLOCK FALSE
PROPERTY JobsEnd
