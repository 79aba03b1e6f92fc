SPECIFICATION FairSpec
CONSTANTS
    Commands = {"start", "restore", "store"}
    RestoreOnStop = {TRUE, FALSE}
    InitiallyThere = {TRUE, FALSE}
    MaxFaults = 2
    MaxEdits = 0
    MaxMoves = 0
    MaxWrites = 1
    MaxCaptures = 2
INVARIANTS
    RecoverableCopy
    PhaseLayout
    NeverRefused
    MountIsRecorded
    CleanHandover
    NoSpuriousBlock
PROPERTIES
    CredentialKept
    ReplayCompletes
CHECK_DEADLOCK FALSE
