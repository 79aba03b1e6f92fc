SPECIFICATION Spec
CONSTANTS
    Jobs = {j1, j2}
    Paths = {p1}
    Objects = {o1, o2}
    Data = {d1, d2}
    MaxCache = 1
    MaxChanges = 2
SYMMETRY Symmetry
INVARIANTS
    HashesSound
    CapturedTogether
CHECK_DEADLOCK FALSE
