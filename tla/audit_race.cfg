SPECIFICATION Spec
CONSTANTS
    c1 = c1  c2 = c2  u1 = u1  u2 = u2  p1 = p1  p2 = p2
    Calls = {c1, c2}
    Users = {u1, u2}
    NoUser = NoUser
    RoleSets <- Admins
    Paths = {p1, p2}
    Absent = Absent
    Loads <- Sets
    JwtValidInt = 1
    JwtRefreshInt = 0
    MaxCalls = 3
    DialFails = TRUE
INVARIANT AuditSafe
CHECK_DEADLOCK FALSE
