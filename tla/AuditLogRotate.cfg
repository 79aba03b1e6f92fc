SPECIFICATION LogSpec
CONSTANTS
    Entries = {e1, e2, e3}
    MaxRecent = 1
    MaxRead = 4
    MaxFiles = 3
    MaxFaults = 2
PROPERTY RotationLosesNothing
CHECK_DEADLOCK FALSE
