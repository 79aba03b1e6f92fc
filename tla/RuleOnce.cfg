SPECIFICATION Spec
CONSTANTS
    Daemons = {d1}
    Clients = {c1, c2}
    NoOne = NoOne
    Actions = {"allow", "deny"}
    MaxRules = 2
    MaxCrashes = 1
INVARIANT MutatesOnce
CHECK_DEADLOCK FALSE
