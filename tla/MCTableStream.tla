---------------------------- MODULE MCTableStream ----------------------------
(***************************************************************************)
(* Instances of TableStream for TLC.                                       *)
(***************************************************************************)
EXTENDS TableStream

CONSTANTS r1, r2, f1, f2, v1, v2

\* A row with one field and with both
RowWith(a, b) == [f \in {f1, f2} |-> IF f = f1 THEN a ELSE b]

RowContents == {RowWith(None, None), RowWith(v1, None), RowWith(v2, None), RowWith(v1, v1)}

\* One row with one field, or two with both
RowTables ==
    {[r \in {r1, r2} |-> IF r = r1 THEN p[1] ELSE p[2]] :
        p \in {<<RowWith(v1, None), RowWith(None, None)>>,
               <<RowWith(v1, v1), RowWith(v1, v1)>>}}

TableSub(shape, rs, sampled) ==
    [shape |-> shape, rows |-> rs, sampled |-> sampled, updateOnly |-> TRUE]

\* The keys of a virtual path, on change and sampled, and a path with one key
KeySubs == {TableSub("named", {r1, r2}, FALSE), TableSub("named", {r1, r2}, TRUE),
            TableSub("key", {r1}, FALSE)}

\* A whole table, on change
WholeTable == {TableSub("table", {r1, r2}, FALSE)}

OneNamed == {TableSub("named", {r1}, FALSE)}

AllSubs == KeySubs \cup WholeTable

Writes == [key |-> 3, named |-> 2, table |-> 2]

\* Connections lost: by the listener of a whole table, by a named one, none
TableLost == [key |-> 0, named |-> 0, table |-> 1]
NamedLost == [key |-> 0, named |-> 1, table |-> 0]
NoneLost == [key |-> 0, named |-> 0, table |-> 0]
=============================================================================
