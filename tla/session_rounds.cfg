SPECIFICATION Spec
CONSTANTS
    s1 = s1
    s2 = s2
    Streams = {s1, s2}
    Addrs = {a1}
    AddrOf <- MCAddrOf
    NoStream = NoStream
    Paths = {p1, p2}
    Run = Run
    Queries <- WithRival
    MaxUpdates = 1
    MaxPolls = 2
    Pipelined = TRUE
INVARIANT ClosedOnce
INVARIANT RegistryLive
PROPERTY AnswersInRounds
CHECK_DEADLOCK FALSE
