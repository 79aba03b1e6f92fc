SPECIFICATION Spec
CONSTANTS
    Commands = {"start", "store"}
    RestoreOnStop = {FALSE}
    InitiallyThere = {TRUE}
    MaxFaults = 1
    MaxEdits = 0
    MaxMoves = 0
    MaxWrites = 0
    MaxCaptures = 1
INVARIANT OnlyMismatchesBlock
CHECK_DEADLOCK FALSE
