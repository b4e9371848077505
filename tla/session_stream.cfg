SPECIFICATION FairSpec
CONSTANTS
    s1 = s1
    s2 = s2
    Streams = {s1}
    Addrs = {a1}
    AddrOf <- MCAddrOf
    NoStream = NoStream
    Paths = {p1, p2}
    Run = Run
    Queries <- Waited
    MaxUpdates = 1
    MaxPolls = 2
    Pipelined = FALSE
INVARIANT SyncComplete
INVARIANT PathInOrder
INVARIANT NoPanic
INVARIANT ChildrenExited
PROPERTY RunReturns
PROPERTY SyncOrEnd
PROPERTY RoundAnswered
CHECK_DEADLOCK FALSE
