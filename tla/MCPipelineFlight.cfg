SPECIFICATION Spec
CONSTANTS
    site = site
    home = home
    None = None
    Query = {q1, q2, q3}
    Key <- MCKey
    Request <- MCRequest
    Policy <- MCPolicy
    Message <- MCMessage
    MaxInFlight = 2
    ShadowOn = FALSE
    MaxClock = 3
    Capacity = 1
    MaxBytes = 2
    ServeStale = 2
    StaleTtl = 1
    FirstHold = 1
    MaxHold = 2
    MaxKeys = 1
CHECK_DEADLOCK FALSE
SYMMETRY Symmetry
INVARIANTS
    AdmissionBound
    SingleFlight
    SharedOutcome
    ServedInTime
