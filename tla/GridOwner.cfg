SPECIFICATION PartsSpec
CONSTANTS
    v1 = v1
    v2 = v2
    v3 = v3
    c1 = c1
    c2 = c2
    Viewers = {v1, v2, v3}
    Clients = {c1, c2}
    ClientOf <- DuplicateTab
    Sizes = {"small"}
    None = None
    QueueCap = 1
    MayDrop = TRUE
    TakeAfterDrop = FALSE
    Late = {v1}
    Posters = {po1, po2}
    Outsiders = {cli}
    Readers = {poll1}
    RowsTTL = 1
    QueryTime = 1
    MaxVersions = 2
    MaxPageTime = 2
VIEW PartsView
INVARIANTS
    PartsTypeOK
    OwnerAccounted
    PageDataKept
