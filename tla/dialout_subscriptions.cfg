SPECIFICATION FairSpec
CONSTANTS
    n1 = n1
    g1 = g1
    g2 = g2
    d1 = d1
    d2 = d2
    Names = {n1}
    Groups = {g1}
    Global = Global
    Dests = {d1, d2}
    NoGroup = NoGroup
    GroupRows <- OneGroupRows
    SubRows <- AllSubRows
    FirstDb <- GroupsFirst
    Written = {n1}
    MaxChanges = 2
    MaxFlaps = 2
    MaxInst = 3
    Paced = FALSE
INVARIANT OnePublisher
INVARIANT ClosedOnce
PROPERTY CancelledEnds
PROPERTY Reconnects
CHECK_DEADLOCK FALSE
