SPECIFICATION PartsSpec
CONSTANTS
    Attachers = {a1, a2, a3}
    Detachers = {d1, d2}
    None = None
    SlowPump = FALSE
    ObeysTerm = TRUE
    Paths = {1, 2}
    Requests = {r1}
    Zones = {z1, z2}
    Setters = {s1}
    Nobody = Nobody
    MaxWrites = 3
    MaxFailures = 1
    Abandons = FALSE
    Unnoticed = FALSE
    Callers = {c1, c2}
    TTL = 1
    CacheIdle = 1
    WarmTTL = 2
    WarmIdle = 2
    ReadTime = 1
    MaxClock = 4
    MaxTree = 1
    MaxReads = 3
    Raisers = {g1, g2}
    Changers = {h1}
    MaxEvents = 3
    MaxQueue = 1
    MaxWorkers = 2
    MaxChanges = 2
SYMMETRY Alike
INVARIANTS
    PartsTypeOK
    ClientsOwned
    UsageExact
    ReadsShared
    EventsKept
PROPERTIES
    DetachObeyed
