SPECIFICATION Spec
CONSTANTS
    Daemons = {d1, d2}
    Clients = {c1, c2}
    Users = {c2}
    Pids = {1, 2}
    MaxStart = 3
    MaxFailed = 1
    Pidfds = {TRUE, FALSE}
    Hidden = {TRUE, FALSE}
    NoFile = NoFile
SYMMETRY Symmetry
INVARIANTS
    SignalsPinned
    StoppedIsGone
    RecordSound
