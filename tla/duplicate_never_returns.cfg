SPECIFICATION FairSpec
CONSTANTS
    s1 = s1
    s2 = s2
    Streams = {s1, s2}
    Addrs = {a1}
    AddrOf <- MCAddrOf
    NoStream = NoStream
    Paths = {p1}
    Run = Run
    Queries <- DbStream
    MaxUpdates = 0
    MaxPolls = 0
    Pipelined = FALSE
PROPERTY RunReturns
CHECK_DEADLOCK FALSE
