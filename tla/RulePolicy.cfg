SPECIFICATION Spec
CONSTANTS
    a1 = a1
    a2 = a2
    p1 = p1
    py = py
    bin = bin
    x = x
    v1 = v1
    v2 = v2
    Opens = {a1, a2}
    Procs = {p1}
    Images = {py, bin}
    Interpreters = {py}
    Scripts = {x}
    Versions = {v1, v2}
    Declared = {}
    Entries <- MCEntries
    Edits <- MCEdits
    Calls = {"rdonly", "rdwr", "wrtrunc", "truncate"}
    Default = "deny"
    MaxCalls = 2
    MaxCommands = 1
    MaxChanges = 1
SYMMETRY Symmetry
INVARIANTS
    Authorised
    DenyThroughout
    AskingSound
CHECK_DEADLOCK FALSE
