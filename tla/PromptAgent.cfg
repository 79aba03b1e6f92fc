SPECIFICATION FairSpec
CONSTANTS
    Requests = {r1, r2, r3}
    Choices = {allow}
    Backends = {"gui", "terminal", "log_only"}
    Timeout = 1
    Grace = 2
    Backstop = 1
    MaxPrompts = 2
    Window = 2
    MaxDeaths = 1
    MaxAhead = 1
INVARIANT
    DialogsSound
PROPERTIES
    RateExact
    GraceSuffices
    QuestionsEnd
CHECK_DEADLOCK FALSE
