SPECIFICATION FairSpec
CONSTANTS
    c1 = c1
    c2 = c2
    Cells = {c1, c2}
    Vals = {v1, v2}
    None = None
    Blank = Blank
    Subs <- FieldSubs
    MaxWrites = 3
CHECK_DEADLOCK FALSE
INVARIANTS SavedIsSent
PROPERTIES OnlyChanges Delivered ReturnsSynced
