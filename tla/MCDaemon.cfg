SPECIFICATION FairSpec
CONSTANTS
    Config <- TwoConfigs
    Started <- First
    Broken = Broken
    Lists = {l1}
    Caller = {a}
    Every = 2
    Retry = 1
    FreshSecs = 0
    DbMayFail = FALSE
    MaxClock = 1
    MaxEdits = 1
    None = None
CHECK_DEADLOCK FALSE
INVARIANTS
    ReportTellsPolicy
    FailureRetriedSoon
PROPERTIES
    AcceptedReloadConcludes
    StatusCatchesUp
