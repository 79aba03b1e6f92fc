SPECIFICATION Spec
CONSTANTS
    Daemons = {d1, d2}
    Clients = {c1}
    NoOne = NoOne
    Actions = {"allow", "deny"}
    MaxRules = 3
    MaxCrashes = 1
SYMMETRY Symmetry
INVARIANTS
    RulesAgree
    LeaseFollowsPolicy
    SocketStands
PROPERTY
    IdsAreStable
CHECK_DEADLOCK FALSE
