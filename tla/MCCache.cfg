SPECIFICATION Spec
CONSTANTS
    Key = {k1, k2, k3, k4}
    Message <- MCMessage
    Capacity = 3
    MaxBytes = 4
    ServeStale = 1
    StaleTtl = 1
    MaxClock = 2
    MaxLag = 1
SYMMETRY Symmetry
INVARIANTS
    SlotsWhole
PROPERTIES
    FreshWithinLifetime
    RefinesLru
