SPECIFICATION FairSpec
CONSTANTS
    c1 = c1  c2 = c2  a1 = a1
    Calls = {c1, c2}
    NoCall = NoCall
    Addrs = {a1}
    AddrOf <- OneAddr
    SetLate = FALSE
    MaxSent = 2
INVARIANT CompleteAtEOF
PROPERTIES StoresInOrder CallsEnd
CHECK_DEADLOCK FALSE
