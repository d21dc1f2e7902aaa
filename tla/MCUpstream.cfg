SPECIFICATION FairSpec
CONSTANTS
    None = None
    Leg = {l1, l2}
    Repair = {r1, r2}
    MinBackoff = 1
    MaxBackoff = 2
    MaxProbation = 1
    Timeout = 1
    MaxBuilds = 2
    MaxClock = 1
CHECK_DEADLOCK FALSE
INVARIANTS
    ConnectingHasBuilder
    NoLostWakeup
    RetriesOnAnotherConnection
    FailuresCounted
PROPERTIES
    EveryLegEnds
