CONSTANTS
    h1 = h1
    h2 = h2
    w1 = w1
    w2 = w2
    b1 = b1
    Handles = {h1, h2}
    Native = h1
    Wakes = {w1, w2}
    NoWake = NoWake
    Bundles = {b1}
    MaxJobs = 2
    MaxAttempts = 1
    MaxRev = 2
SPECIFICATION Spec
SYMMETRY Symmetry
CHECK_DEADLOCK FALSE
INVARIANT TypeOK
INVARIANT OneDraft
INVARIANT Backed
INVARIANT LockedByOwner
