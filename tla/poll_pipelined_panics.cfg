SPECIFICATION Spec
CONSTANTS
    s1 = s1
    s2 = s2
    Streams = {s1}
    Addrs = {a1}
    AddrOf <- MCAddrOf
    NoStream = NoStream
    Paths = {p1}
    Run = Run
    Queries <- NonDbPoll
    MaxUpdates = 0
    MaxPolls = 3
    Pipelined = TRUE
INVARIANT NoPanic
CHECK_DEADLOCK FALSE
