SPECIFICATION Spec
CONSTANTS
    User = {u1, u2}
    Agent = {a1}
    None = None
    Hydrated = {u1}
    Loud = {a1}
    MaxTries = 1
    MaxSends = 2
    MaxClear = 0
    MaxCancel = 1
    MaxFault = 0
    MaxAsk = 0
    MaxWait = 0
    MaxEvents = 1
PROPERTY QueuedIsServed
CHECK_DEADLOCK FALSE
