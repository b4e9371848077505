SPECIFICATION FairSpec
CONSTANTS
    n1 = n1
    g1 = g1
    g2 = g2
    d1 = d1
    d2 = d2
    Names = {n1}
    Groups = {g1}
    Global = Global
    Dests = {d1, d2}
    NoGroup = NoGroup
    GroupRows <- TwoGroupRows
    SubRows <- StreamRows
    FirstDb <- WithStream
    Written = {g1}
    MaxChanges = 1
    MaxFlaps = 1
    MaxInst = 3
    Paced = TRUE
PROPERTY Reconnects
CHECK_DEADLOCK FALSE
