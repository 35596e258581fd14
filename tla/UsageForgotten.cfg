SPECIFICATION UsageSpec
CONSTANTS
    Paths = {1, 2}
    Requests = {r1}
    Zones = {z1, z2}
    Setters = {s1}
    Nobody = Nobody
    MaxWrites = 1
    MaxFailures = 0
    Abandons = FALSE
    Unnoticed = TRUE
INVARIANTS
    NumbersKept
CHECK_DEADLOCK FALSE
