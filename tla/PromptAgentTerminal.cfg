SPECIFICATION Spec
CONSTANTS
    Requests = {r1, r2, r3}
    Choices = {allow, deny}
    Backends = {"terminal"}
    Timeout = 2
    Grace = 2
    Backstop = 1
    MaxPrompts = 2
    Window = 3
    MaxDeaths = 1
    MaxAhead = 1
INVARIANT LinesReachTheirQuestion
CHECK_DEADLOCK FALSE
