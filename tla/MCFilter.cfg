SPECIFICATION Spec
CONSTANTS
    MaxName = 9
    MaxLabel = 6
    SinkIp <- MCSinkIp
    OtherIp <- MCOtherIp
    LocalName <- MCLocalName
    List <- MCList
    QueryName <- MCQueryName
    MaxLists = 2
    MaxSpan = 10
    None = None
CHECK_DEADLOCK FALSE
INVARIANTS
    VerdictAgrees
    ReportsItsRule
    EachLineAccounted
