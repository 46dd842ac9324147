SPECIFICATION Spec
CONSTANTS
    User = {u1, u2}
    Agent = {a1}
    None = None
    Hydrated = {u1}
    Loud = {}
    MaxTries = 1
    MaxSends = 2
    MaxClear = 0
    MaxCancel = 0
    MaxFault = 0
    MaxAsk = 0
    MaxWait = 1
    MaxEvents = 1
PROPERTY ResultOnce
CHECK_DEADLOCK FALSE
