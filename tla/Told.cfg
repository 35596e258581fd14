SPECIFICATION PartsSpec
CONSTANTS
    v1 = v1
    v2 = v2
    v3 = v3
    c1 = c1
    c2 = c2
    Viewers = {v1, v2}
    Clients = {c1, c2}
    ClientOf <- TwoStrangers
    Sizes = {"small", "large"}
    None = None
    QueueCap = 3
    MayDrop = FALSE
    TakeAfterDrop = FALSE
    Late = {}
    Pages = {p1}
    Poller = poller
    Flushers = {f1}
    Announcers = {a1}
    Events = {e1}
    MaxWorld = 2
    Says <- SaysNew
    Overlap = FALSE
    Unsaid = Unsaid
    Streams = {s1, s2}
    NoStream = NoStream
    MaxTruth = 2
    MaxFailures = 1
    Letters = {a}
    MaxKeys = 5
    Edge = 3
    Prompt = TRUE
    Resets = FALSE
    LateSwitch = FALSE
    Ignored = 1
INVARIANTS
    PartsTypeOK
    ToldTheTruth
    ViewsFresh
PROPERTIES
    GraceHonoured
    PagesTold
    EchoHonest
CHECK_DEADLOCK FALSE
