SPECIFICATION Spec
CONSTANTS
    Paths = {p1, p2, p3}
    RestoreOnStop = {TRUE, FALSE}
    MaxRuns = 2
    MaxFaults = 3
    NoPath = NoPath
SYMMETRY Symmetry
INVARIANTS
    Accounted
    OthersUndone
    OkMeansDone
CHECK_DEADLOCK FALSE
