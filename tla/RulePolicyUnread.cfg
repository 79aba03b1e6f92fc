SPECIFICATION Spec
CONSTANTS
    a1 = a1
    a2 = a2
    p1 = p1
    py = py
    bin = bin
    x = x
    v1 = v1
    v2 = v2
    Opens = {a1, a2}
    Procs = {p1}
    Images = {py, bin}
    Interpreters = {py}
    Scripts = {x}
    Versions = {v1, v2}
    Declared <- MCDeclared
    Entries <- MCEntries
    Edits <- MCEdits
    Calls = {"rdonly", "rdwr", "wrtrunc", "truncate"}
    Default = "deny"
    MaxCalls = 1
    MaxCommands = 1
    MaxChanges = 1
SYMMETRY Symmetry
INVARIANT FailuresWeakenNothing
CHECK_DEADLOCK FALSE
