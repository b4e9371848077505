SPECIFICATION FairSpec
CONSTANTS
    u1 = u1
    u2 = u2
    Requests <- Served
    Uris = {u1, u2}
    Vals = {v1, v2}
    None = None
    MaxWrites = 2
CHECK_DEADLOCK FALSE
INVARIANTS CacheIsSent SyncComplete
PROPERTIES Delivered HeartbeatHeard RunReturns
