SPECIFICATION Spec
CONSTANTS
    Daemons = {d1, d2}
    Clients = {c1}
    Users = {}
    Pids = {1, 2}
    MaxStart = 4
    MaxFailed = 1
    Pidfds = {TRUE}
    Hidden = {FALSE}
    NoFile = NoFile
INVARIANT StopUnmounts
