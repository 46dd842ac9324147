SPECIFICATION FairSpec
CONSTANTS
    Process = {p1, p2}
    None = None
    RecoverySamples = 1
    MaxEvents = 3
INVARIANTS
    TypeOK
    OneWriter
    NeverAsleep
PROPERTIES
    DemandMet
CHECK_DEADLOCK FALSE
