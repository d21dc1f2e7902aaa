SPECIFICATION StoreFairSpec
CONSTANTS
    MaxVersion = 3
    MaxCrashes = 2
    DiskMayFail = TRUE
    Absent = Absent
INVARIANTS
    StoredCopyConfirmed
    NeverOlder
PROPERTIES
    LastContentArrives
