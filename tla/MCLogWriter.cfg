SPECIFICATION FairSpec
CONSTANTS
    u1 = u1
    t1 = t1
    Ours <- Answers
    Query = {u1, t1}
    Tcp = {t1}
    Conn = {c1, c2}
    MaxConns = 1
    MaxCompares = 1
    Capacity = 2
    BatchSize = 2
    DbMayFail = TRUE
    Flush = Flush
CHECK_DEADLOCK FALSE
INVARIANTS
    LogAccounted
    ShutdownSettles
PROPERTIES
    WaitsEnd
