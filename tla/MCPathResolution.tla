------------------------- MODULE MCPathResolution -------------------------
EXTENDS PathResolution
CONSTANTS p1, p2, a1, a2, n1, n2, o1, o2, o3, r1, r2

Aliases == (p1 :> a1) @@ (p2 :> a2)
TwoHomes == (p1 :> n1) @@ (p2 :> n2)
FirstPortOid == (p1 :> o1) @@ (p2 :> o1)
FirstQueOid == (p1 :> o2) @@ (p2 :> o2)

P(elems) == [elems |-> elems, ns |-> Default, use |-> "get"]

AnyPath ==
    {P(<<"COUNTERS", k>> \o t) : k \in {"Ethernet*", a1},
                                 t \in {<<>>, <<"pkts">>, <<"Queues">>, <<"Pfcwd">>}}
    \cup {P(<<"COUNTERS", p2, "Queues">>), P(<<"COUNTERS", "x", "y", "z">>),
          [P(<<"COUNTERS", o1>>) EXCEPT !.ns = n1], [P(<<"COUNTERS", o1, "pkts">>) EXCEPT !.ns = n1],
          [P(<<"COUNTERS", "Ethernet*">>) EXCEPT !.ns = n2],
          [P(<<"COUNTERS", p1>>) EXCEPT !.ns = None],
          P(<<"OTHERS", "proc", "stat">>), P(<<"OTHERS", "proc">>)}

AllPorts == {P(<<"COUNTERS", "Ethernet*">>)}
AnyThenAll == [r \in Requests |-> IF r = r1 THEN AnyPath ELSE AllPorts]
PortOrAll == [r \in Requests |-> {P(<<"COUNTERS", "Ethernet*">>), P(<<"COUNTERS", a1>>)}]
QueuePath == [r \in Requests |-> {[P(<<"COUNTERS", p2, "Queues">>) EXCEPT !.use = "onchange"]}]
Qos(q) == [ns \in Range(Includes) \cup {Default} |-> IF ns = n1 THEN q ELSE "on"]
SomeBoots == {[up |-> {p1, p2}, pfc |-> {p1, p2}, qos |-> Qos("on")],
              [up |-> {p1}, pfc |-> {}, qos |-> Qos("unset")]}
Asics == <<Default, n1, n2>>
NoHost == <<n1, n2>>
=============================================================================
