SPECIFICATION HoldsSpec
CONSTANTS
    Key = {k1, k2, k3}
    FirstHold = 2
    MaxHold = 7
    MaxKeys = 2
    MaxClock = 20
    MaxLag = 3
SYMMETRY Symmetry
INVARIANTS
    KeysBounded
PROPERTIES
    DropsTheOldest
    LateFailureCostsItsAge
