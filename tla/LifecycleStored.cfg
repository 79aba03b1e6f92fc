SPECIFICATION FairSpec
CONSTANTS
    Commands = {"start", "store"}
    RestoreOnStop = {FALSE}
    InitiallyThere = {TRUE}
    MaxFaults = 1
    MaxEdits = 0
    MaxMoves = 0
    MaxWrites = 0
    MaxCaptures = 1
PROPERTY StoredStaysOffline
CHECK_DEADLOCK FALSE
