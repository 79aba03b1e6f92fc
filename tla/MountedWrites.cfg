SPECIFICATION FairSpec
CONSTANTS
    Clients = {c1, c2}
    MaxContent = 2
    MaxCalls = 2
    MaxMounts = 2
    MaxFaults = 2
INVARIANTS
    NoLostUpdate
    NoDirtyRead
    ReadYourWrites
PROPERTIES
    FencedIsFinal
    NoSpuriousFailure
    Progress
CHECK_DEADLOCK FALSE
