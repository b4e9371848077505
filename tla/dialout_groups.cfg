SPECIFICATION Spec
CONSTANTS
    n1 = n1
    g1 = g1
    g2 = g2
    d1 = d1
    d2 = d2
    Names = {n1}
    Groups = {g1}
    Global = Global
    Dests = {d1, d2}
    NoGroup = NoGroup
    GroupRows <- TwoGroupRows
    SubRows <- TwoTypeRows
    FirstDb <- WithPeriodic
    Written = {n1, g1, Global}
    MaxChanges = 2
    MaxFlaps = 0
    MaxInst = 3
    Paced = FALSE
INVARIANT UsersAccurate
INVARIANT ConfigApplied
CHECK_DEADLOCK FALSE
