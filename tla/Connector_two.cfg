SPECIFICATION Spec
CONSTANTS
    User = {u1, u2}
    Agent = {a1, a2}
    None = None
    Hydrated = {}
    Loud = {a1}
    MaxTries = 1
    MaxSends = 2
    MaxClear = 1
    MaxCancel = 1
    MaxFault = 3
    MaxAsk = 1
    MaxWait = 1
    MaxEvents = 3
SYMMETRY Symmetry
INVARIANTS
    TypeOK
    OneTurn
    Tended
    NoResultLost
PROPERTIES
    Fenced
CHECK_DEADLOCK FALSE
