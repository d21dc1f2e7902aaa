SPECIFICATION FairSpec
CONSTANTS
    site = site
    tracker = tracker
    search = search
    safe = safe
    home = home
    stranger = stranger
    None = None
    Query = {q1, q2}
    Key <- MCKey
    Request <- MCRequest
    Policy <- MCPolicy
    Message <- MCMessage
    MaxInFlight = 2
    ShadowOn = TRUE
    MaxClock = 1
    Capacity = 1
    MaxBytes = 2
    ServeStale = 1
    StaleTtl = 1
    FirstHold = 1
    MaxHold = 2
    MaxKeys = 1
CHECK_DEADLOCK FALSE
INVARIANTS
    SnapshotDecides
PROPERTIES
    EveryQueryAnswered
