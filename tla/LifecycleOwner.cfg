SPECIFICATION Spec
CONSTANTS
    Commands = {"start", "restore", "store"}
    RestoreOnStop = {TRUE, FALSE}
    InitiallyThere = {TRUE, FALSE}
    MaxFaults = 1
    MaxEdits = 2
    MaxMoves = 1
    MaxWrites = 1
    MaxCaptures = 1
INVARIANTS
    RecoverableCopy
    NeverRefused
PROPERTIES
    BlockedIsFrozen
    CustodyKept
CHECK_DEADLOCK FALSE
