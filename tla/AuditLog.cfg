SPECIFICATION LogFairSpec
CONSTANTS
    Entries = {e1, e2, e3}
    MaxRecent = 1
    MaxRead = 4
    MaxFiles = 2
    MaxFaults = 2
INVARIANTS
    RecordsSound
    CursorExact
PROPERTY
    Followed
CHECK_DEADLOCK FALSE
