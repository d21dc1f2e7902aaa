SPECIFICATION FairSpec
CONSTANTS
    Server = {s1, s2}
    Call = {c1, c2}
    Budget = 7
    Timeout = 2
    BackoffStart = 1
    BackoffMax = 3
CHECK_DEADLOCK FALSE
INVARIANTS
    StartsWithinBudget
    FailsOnlyTogether
PROPERTIES
    LegsAndStartupEnd
