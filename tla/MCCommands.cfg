SPECIFICATION FairSpec
CONSTANTS
    p1 = p1
    p2 = p2
    Proc = {p1, p2}
    Row = {"old", "r1", "r2"}
    Expired = {"old"}
    Nobody = Nobody
    Databases <- OldDatabases
    MaxFaults = 2
    NoVersion = NoVersion
    Text <- Strings
    None = None
    Unreadable = Unreadable
    Lower <- Words
    Numeral <- Numbers
    U64 = 65536
    Scenario <- Scenarios
    LocalFiles <- OwnFiles
CHECK_DEADLOCK FALSE
INVARIANTS
    OpenedIsCurrent
    MigratesOrSays
    ServesWhatIsConfigured
    ConfigHasItsRules
PROPERTIES
    RowsKept
    OpensInTheEnd
    RowsOfTheListener
