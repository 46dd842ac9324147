SPECIFICATION FairSpec
CONSTANTS
    User = {u1, u2}
    Agent = {a1}
    None = None
    Hydrated = {u1}
    Loud = {}
    MaxTries = 1
    MaxSends = 2
    MaxClear = 1
    MaxCancel = 1
    MaxFault = 4
    MaxAsk = 1
    MaxWait = 1
    MaxEvents = 4
INVARIANTS
    TypeOK
    OneTurn
    Tended
    NoResultLost
PROPERTIES
    Fenced
    ComesToRest
CHECK_DEADLOCK FALSE
