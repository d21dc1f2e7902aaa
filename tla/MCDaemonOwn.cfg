SPECIFICATION Spec
CONSTANTS
    Config <- TwoConfigs
    Started <- First
    Broken = Broken
    Lists = {l1}
    Caller = {a, b}
    Every = 2
    Retry = 1
    FreshSecs = 0
    DbMayFail = TRUE
    MaxClock = 1
    MaxEdits = 1
    None = None
CHECK_DEADLOCK FALSE
INVARIANTS
    ReloadReportsItsOwn
