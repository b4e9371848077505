SPECIFICATION FairSpec
CONSTANTS
    u1 = u1
    u2 = u2
    Requests <- BackendFailsOnce
    Uris = {u1, u2}
    Vals = {v1, v2}
    None = None
    MaxWrites = 0
CHECK_DEADLOCK FALSE
INVARIANTS NoPanic
