SPECIFICATION Spec
CONSTANTS
    Daemons = {d1, d2}
    Clients = {c1}
    NoOne = NoOne
    Actions = {"allow", "deny"}
    MaxRules = 2
    MaxCrashes = 0
INVARIANT EndpointReachable
CHECK_DEADLOCK FALSE
