SPECIFICATION Spec
CONSTANTS
    p1 = p1  p2 = p2  a1 = a1  a2 = a2  n1 = n1  n2 = n2  o1 = o1  o2 = o2  o3 = o3
    r1 = r1  r2 = r2
    Ports = {p1, p2}
    Alias <- Aliases
    Home <- TwoHomes
    Oids = {o1, o2, o3}
    None = None
    PortOid <- FirstPortOid
    QueOid <- FirstQueOid
    Default = Default
    Includes <- Asics
    Requests = {r1}
    Paths <- QueuePath
    Boot <- SomeBoots
    Reuse = FALSE
    MaxRequests = 2
    MaxChanges = 1
INVARIANT NoPanic
CHECK_DEADLOCK FALSE
