SPECIFICATION PageSpec
CONSTANTS
    Windows = {w1}
    MaxEdits = 3
    SlowSaves = FALSE
    None = None
    Capacity = 3
    QueueCap = 2
    ReplayChunk = 2
    Unset = Unset
    MaxTotal = 6
    MaxRef = 2
    RemountEarly = FALSE
    LateReport = 2
    InterruptSkew = 2
    NotifyGrace = 1
    BellGrace = 1
    Subagents = {sub}
    Handlers = {h1, h2}
    MaxTime = 3
    MaxEvents = 2
    MaxDelay = 1
    CodexLogAfter = 1
INVARIANTS
    PartsTypeOK
PROPERTIES
    NothingLost
    TypedIsSettled
    ViewFollows
    RowComesRight
