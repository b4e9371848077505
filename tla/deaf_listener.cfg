SPECIFICATION FairSpec
CONSTANTS
    r1 = r1
    r2 = r2
    Rows = {r1, r2}
    Vals = {v1, v2}
    f1 = f1
    f2 = f2
    v1 = v1
    v2 = v2
    Fields = {f1, f2}
    Contents <- RowContents
    Tables <- RowTables
    Table = Table
    None = None
    Subs <- OneNamed
    MaxWrites <- Writes
    MaxLost <- NamedLost
CHECK_DEADLOCK FALSE
PROPERTIES Delivered
