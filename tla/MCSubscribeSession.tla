------------------------- MODULE MCSubscribeSession -------------------------
(***************************************************************************)
(* Instances of SubscribeSession for TLC.  All calls come from one address *)
(* (streams multiplexed on one connection have the same peer address).     *)
(***************************************************************************)
EXTENDS SubscribeSession

CONSTANTS s1, s2

MCAddrOf == [s \in Streams |-> CHOOSE a \in Addrs : TRUE]

Query(m, k) == [mode |-> m, kind |-> k]

Transl(m) == {Query(m, "transl"), Query(m, "updates")}

Each(Q) == [s \in Streams |-> Q]

DbStream == Each({Query("STREAM", "db")})
DbPoll == Each({Query("POLL", "db")})
DbOnce == Each({Query("ONCE", "db")})
NonDbStream == Each({Query("STREAM", "nondb")})
NonDbPoll == Each({Query("POLL", "nondb")})

\* The clients whose goroutines Run waits for
Waited == Each({Query("STREAM", "db"), Query("POLL", "nondb")} \cup Transl("POLL")
               \cup Transl("ONCE"))

\* The other clients, and a second call that is refused or does not get as far
\* as a query
WithRival == [s \in Streams |->
    IF s # s1 THEN {}
    ELSE {Query("STREAM", "nondb"), Query("POLL", "db"), Query("POLL", "updates"),
          Query("ONCE", "db")}]
=============================================================================
