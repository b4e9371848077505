------------------------------ MODULE MCDialOut ------------------------------
(***************************************************************************)
(* Instances of DialOut for TLC: the rows that are written and the table   *)
(* at the start.                                                           *)
(***************************************************************************)
EXTENDS DialOut

CONSTANTS n1, g1, g2, d1, d2

Sub(g, t, ok) == [NoRow EXCEPT !.grp = g, !.type = t, !.dcok = ok]
Grp(ds) == [NoRow EXCEPT !.addrs = ds]

\* One group with two destinations, or with the second one only
OneGroupRows == {Grp(<<d1, d2>>)}
TwoGroupRows == {Grp(<<d1, d2>>), Grp(<<d2>>)}

\* Subscriptions of every report type, without a group, with a bad path
AllSubRows == {Sub(g1, "periodic", TRUE), Sub(g1, "stream", TRUE),
               Sub(g1, "other", TRUE), Sub(g1, "stream", FALSE),
               Sub(NoGroup, "stream", TRUE)}
GoodSubRows == {Sub(g1, "periodic", TRUE), Sub(g1, "stream", TRUE)}
TwoTypeRows == {Sub(g1, "periodic", TRUE), Sub(g1, "other", TRUE)}
PeriodicRows == {Sub(g1, "periodic", TRUE)}
StreamRows == {Sub(g1, "stream", TRUE)}
MovingRows == {Sub(g1, "periodic", TRUE), Sub(g2, "periodic", TRUE)}

\* Tables at the start: the groups only, or the group and its user
Start(r) == [k \in RowKeys |-> IF k \in Groups THEN Grp(<<d1, d2>>) ELSE r]
GroupsFirst == Start(NoRow)
WithStream == Start(Sub(g1, "stream", TRUE))
WithPeriodic == Start(Sub(g1, "periodic", TRUE))
=============================================================================
