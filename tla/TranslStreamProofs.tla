------------------------- MODULE TranslStreamProofs -------------------------
(***************************************************************************)
(* Proofs for TranslStream, for any number of subscriptions, paths and     *)
(* values, and with every failure: the value cache of a sampled path holds *)
(* what was sent last, and a sync_response follows the first value of      *)
(* every path.                                                             *)
(***************************************************************************)
EXTENDS TranslStream, FiniteSetTheorems, TLAPS

-----------------------------------------------------------------------------
(* The inductive invariant *)

\* How StreamRun has come to where it is, and what TranslSubscribe is by then.
Phases ==
    /\ next \in Nat \ {0}
    /\ pc = "added" => next \in DOMAIN Subs
    /\ pc \in {"sub", "added"} => tpc = "off"
    /\ pc \in {"sync", "select", "tick"} => next \notin DOMAIN Subs
    /\ tpc \in {"off", "start"} => ~syncDone /\ resp = <<>>

\* Translib reports values of the ON_CHANGE paths only.
Reported ==
    \A x \in DOMAIN resp : resp[x].kind = "data" =>
        resp[x].uri \in OnChangeUris /\ resp[x].val \in Vals

\* The queue takes first values, and the client has asked for them.
Wanted == ~disposed /\ ~req.updatesOnly

\* StreamRun has sent the first values of the sampled paths it has passed.
SampledSent ==
    Wanted => \A n \in DOMAIN Subs :
        Subs[n].mode = "SAMPLE" /\ (n < next \/ (n = next /\ pc = "added")) =>
            sent[Subs[n].uri] # None

\* Before the response that is marked as the last first value, and with it,
\* come the first values of all ON_CHANGE paths.
ReportedSent ==
    Wanted =>
        /\ syncDone => \A u \in OnChangeUris : sent[u] # None
        /\ \A k \in DOMAIN resp : resp[k].complete =>
              \A u \in OnChangeUris :
                  \/ sent[u] # None
                  \/ \E x \in 1..k : resp[x].kind = "data" /\ resp[x].uri = u

\* synced is signalled at the marked response only.
SignalledLate ==
    pc \in {"sync", "select", "tick"} /\ OnChangeUris # {} /\ ~synced => syncDone

IInv ==
    /\ TypeOK
    /\ Phases
    /\ Reported
    /\ CacheIsSent
    /\ SampledSent
    /\ ReportedSent
    /\ SignalledLate
    /\ SyncComplete

-----------------------------------------------------------------------------
(* The request *)

\* What the request says does not change while it is served.
LEMMA ReqSame ==
    ASSUME UNCHANGED req
    PROVE  /\ Subs' = Subs /\ SubUris' = SubUris /\ OnChangeUris' = OnChangeUris
           /\ Entries' = Entries
BY DEF Subs, SubUris, OnChangeUris, Entries

\* Subscriptions have paths of their own, sampled or ON_CHANGE.
LEMMA ReqFacts ==
    ASSUME req \in Requests
    PROVE  /\ Subs \in Seq(Sub)
           /\ req.updatesOnly \in BOOLEAN
           /\ SubUris \subseteq Uris
           /\ OnChangeUris \subseteq SubUris
           /\ \A n \in DOMAIN Subs :
                 /\ Subs[n] \in Sub
                 /\ Subs[n].uri \in SubUris
                 /\ Subs[n].mode = "SAMPLE" => Subs[n].uri \notin OnChangeUris
           /\ \A u \in SubUris : u \in OnChangeUris \/
                 \E n \in DOMAIN Subs : Subs[n].mode = "SAMPLE" /\ Subs[n].uri = u
<1>1. req \in Request
  BY TranslAssumption
<1>2. Subs \in Seq(Sub) /\ req.updatesOnly \in BOOLEAN
  BY <1>1 DEF Request, Subs
<1>3. \A n \in DOMAIN Subs : Subs[n] \in Sub
  BY <1>2
<1>4. \A m, n \in DOMAIN Subs : Subs[m].uri = Subs[n].uri => m = n
  BY TranslAssumption DEF Subs
<1>5. \A n \in DOMAIN Subs : Subs[n].uri \in Uris /\ Subs[n].mode \in {"SAMPLE", "ON_CHANGE"}
  BY <1>3 DEF Sub
<1>6. OnChangeUris \subseteq SubUris /\ SubUris \subseteq Uris
  BY <1>5 DEF OnChangeUris, SubUris
<1>7. \A n \in DOMAIN Subs : Subs[n].mode = "SAMPLE" => Subs[n].uri \notin OnChangeUris
  BY <1>4 DEF OnChangeUris
<1>8. \A u \in SubUris : u \in OnChangeUris \/
          \E n \in DOMAIN Subs : Subs[n].mode = "SAMPLE" /\ Subs[n].uri = u
  BY <1>5 DEF OnChangeUris, SubUris
<1>9. \A n \in DOMAIN Subs : Subs[n].uri \in SubUris
  BY DEF SubUris
<1>. QED  BY <1>2, <1>3, <1>6, <1>7, <1>8, <1>9

\* There are finitely many ON_CHANGE paths, and a list of as many, none of
\* them twice, holds all of them.
LEMMA AllListed ==
    ASSUME req \in Requests,
           NEW f \in [1..Cardinality(OnChangeUris) -> OnChangeUris],
           \A x, y \in DOMAIN f : f[x] = f[y] => x = y
    PROVE  /\ Cardinality(OnChangeUris) \in Nat
           /\ OnChangeUris # {} => Cardinality(OnChangeUris) > 0
           /\ \A u \in OnChangeUris : \E x \in DOMAIN f : f[x] = u
<1> DEFINE N == {m \in DOMAIN Subs : Subs[m].mode = "ON_CHANGE"}
           g == [m \in N |-> Subs[m].uri]
           n == Cardinality(OnChangeUris)
<1>1. IsFiniteSet(N)
  <2>1. Subs \in Seq(Sub)
    BY ReqFacts
  <2>2. IsFiniteSet(1..Len(Subs)) /\ N \in SUBSET (1..Len(Subs))
    BY <2>1, FS_Interval
  <2>. QED  BY <2>2, FS_Subset
<1>2. IsFiniteSet(OnChangeUris)
  <2>1. g \in Surjection(N, OnChangeUris)
    BY DEF Surjection, OnChangeUris
  <2>. QED  BY <1>1, <2>1, FS_Surjection
<1>3. n \in Nat /\ (n = 0 <=> OnChangeUris = {})
  BY <1>2, FS_CardinalityType, FS_EmptySet
<1>4. f \in Injection(1..n, OnChangeUris)
  BY DEF Injection, IsInjective
<1>5. Cardinality(1..n) = n
  BY <1>3, FS_Interval
<1>6. f \in Surjection(1..n, OnChangeUris)
  BY <1>2, <1>4, <1>5, FS_Injection
<1>. QED  BY <1>3, <1>6 DEF Surjection

-----------------------------------------------------------------------------
(* Types *)

Response == [kind : {"data", "terminated"}, uri : Uris \cup {None},
             val : Vals \cup {None}, complete : BOOLEAN]

\* The Put of a value keeps the types of what it writes.
LEMMA PutTypes ==
    ASSUME TypeOK, NEW u \in Uris, NEW v \in Vals, PutVal(u, v)
    PROVE  sent' \in [Uris -> Vals \cup {None}] /\ puts' \in [Uris -> {0, 1}]
BY DEF TypeOK, PutVal, outVars

\* Steps of StreamRun before its loop.
LEMMA SetUpTypes ==
    ASSUME TypeOK, Phases,
           \/ StreamFirst \/ StreamAdded \/ StreamSpawn \/ StreamSync
           \/ StreamRefused \/ StreamReadError
    PROVE  TypeOK' /\ Phases' /\ UNCHANGED req
<1> USE DEF backVars, setVars, subVars, outVars
<1>1. UNCHANGED req
  BY DEF StreamFirst, StreamAdded, StreamSpawn, StreamSync, StreamRefused, StreamReadError
<1>2. Subs' = Subs /\ Entries' = Entries /\ OnChangeUris' = OnChangeUris
  BY <1>1, ReqSame
<1>3. req \in Requests /\ next \in Nat \ {0}
  BY DEF TypeOK, Phases
<1>4. CASE StreamFirst
  <2>1. Subs[next] \in Sub /\ Subs[next].uri \in Uris
    BY <1>3, <1>4, ReqFacts DEF StreamFirst
  <2>2. val[Subs[next].uri] \in Vals
    BY <2>1 DEF TypeOK
  <2>3. sent' \in [Uris -> Vals \cup {None}] /\ puts' \in [Uris -> {0, 1}]
    BY <1>4, <2>1, <2>2, PutTypes DEF StreamFirst, TypeOK
  <2>4. cache' \in [Uris -> Vals \cup {None}]
    BY <1>4, <2>1, <2>2 DEF StreamFirst, TypeOK
  <2>5. TypeOK'
    BY <1>1, <1>2, <1>4, <2>3, <2>4 DEF StreamFirst, TypeOK
  <2>6. Phases'
    BY <1>2, <1>4 DEF StreamFirst, Phases
  <2>. QED  BY <1>1, <2>5, <2>6
<1>5. CASE StreamAdded
  <2>1. Subs[next] \in Sub /\ next \in DOMAIN Subs
    BY <1>3, <1>5, ReqFacts DEF StreamAdded, Phases
  <2>2. Subs[next].every \in Nat /\ Subs[next].beat \in Nat
    BY <2>1 DEF Sub
  <2>3. timers' \subseteq Entries /\ timers \subseteq timers'
    <3>1. /\ [sub |-> next, heartbeat |-> FALSE, every |-> Subs[next].every] \in Entries
          /\ [sub |-> next, heartbeat |-> TRUE, every |-> Subs[next].beat] \in Entries
      BY <2>1, <2>2 DEF Entries
    <3>2. timers \subseteq Entries
      BY DEF TypeOK
    <3>. QED  BY <1>5, <3>1, <3>2 DEF StreamAdded, AddTimers
  <2>4. TypeOK'
    BY <1>1, <1>2, <1>3, <1>5, <2>3 DEF StreamAdded, TypeOK
  <2>5. Phases'
    BY <1>2, <1>3, <1>5 DEF StreamAdded, Phases
  <2>. QED  BY <1>1, <2>4, <2>5
<1>6. CASE StreamSpawn
  BY <1>1, <1>2, <1>6 DEF StreamSpawn, TypeOK, Phases
<1>7. CASE StreamSync
  BY <1>1, <1>2, <1>7 DEF StreamSync, TypeOK, Phases
<1>8. CASE StreamRefused
  <2>1. fatal' \in BOOLEAN
    BY <1>8 DEF StreamRefused, PutFatal
  <2>2. w' \subseteq {"run", "subscribe"}
    BY <1>8 DEF StreamRefused, TypeOK
  <2>3. TypeOK'
    BY <1>1, <1>2, <1>8, <2>1, <2>2 DEF StreamRefused, TypeOK
  <2>4. Phases'
    BY <1>2, <1>8 DEF StreamRefused, Phases
  <2>. QED  BY <1>1, <2>3, <2>4
<1>9. CASE StreamReadError
  <2>1. w' \subseteq {"run", "subscribe"}
    BY <1>9 DEF StreamReadError, TypeOK
  <2>2. TypeOK'
    BY <1>1, <1>2, <1>9, <2>1 DEF StreamReadError, TypeOK
  <2>3. Phases'
    BY <1>2, <1>9 DEF StreamReadError, Phases
  <2>. QED  BY <1>1, <2>2, <2>3
<1>. QED  BY <1>4, <1>5, <1>6, <1>7, <1>8, <1>9

\* Steps of its loop.
LEMMA LoopTypes ==
    ASSUME TypeOK, Phases,
           \/ StreamStop \/ TickDone \/ \E e \in Intervals : Tick(e)
           \/ \E x \in due : TickServe(x)
    PROVE  TypeOK' /\ Phases' /\ UNCHANGED req
<1> USE DEF backVars, setVars, subVars, outVars
<1>1. UNCHANGED req
  BY DEF StreamStop, TickDone, Tick, StreamTick, TickServe
<1>2. Subs' = Subs /\ Entries' = Entries /\ OnChangeUris' = OnChangeUris
  BY <1>1, ReqSame
<1>3. CASE StreamStop \/ TickDone
  <2>1. w' \subseteq {"run", "subscribe"}
    BY <1>3 DEF StreamStop, TickDone, TypeOK
  <2>2. TypeOK'
    BY <1>1, <1>2, <1>3, <2>1 DEF StreamStop, TickDone, TypeOK
  <2>3. Phases'
    BY <1>2, <1>3 DEF StreamStop, TickDone, Phases
  <2>. QED  BY <1>1, <2>2, <2>3
<1>4. ASSUME NEW e \in Intervals, Tick(e)
      PROVE  TypeOK' /\ Phases'
  BY <1>1, <1>2, <1>4 DEF Tick, StreamTick, TypeOK, Phases
<1>5. ASSUME NEW x \in due, TickServe(x)
      PROVE  TypeOK' /\ Phases'
  <2>1. Subs[x.sub] \in Sub /\ Subs[x.sub].uri \in Uris
    <3>1. x.sub \in DOMAIN Subs
      BY <1>5 DEF TypeOK, Entries
    <3>. QED  BY <3>1, ReqFacts DEF TypeOK
  <2>2. val[Subs[x.sub].uri] \in Vals
    BY <2>1 DEF TypeOK
  <2>3. sent' \in [Uris -> Vals \cup {None}] /\ puts' \in [Uris -> {0, 1}]
    BY <1>5, <2>1, <2>2, PutTypes DEF TickServe, TypeOK
  <2>4. cache' \in [Uris -> Vals \cup {None}]
    BY <1>5, <2>1, <2>2 DEF TickServe, Cached, TypeOK
  <2>5. TypeOK'
    BY <1>1, <1>2, <1>5, <2>3, <2>4 DEF TickServe, TypeOK
  <2>6. Phases'
    BY <1>2, <1>5 DEF TickServe, Phases
  <2>. QED  BY <2>5, <2>6
<1>. QED  BY <1>1, <1>3, <1>4, <1>5

\* Steps of TranslSubscribe and of translib.
LEMMA SubscriberTypes ==
    ASSUME TypeOK, Phases, Reported,
           \/ Subscriber \/ SubscribeVersion \/ BackendFails
           \/ \E u \in SubUris, v \in Vals : BackendWrite(u, v)
    PROVE  TypeOK' /\ Phases' /\ UNCHANGED req
<1> USE DEF backVars, setVars, subVars, outVars
<1>1. UNCHANGED req
  BY DEF Subscriber, SubscribeStart, SubscribeData, SubscribeTerminated, SubscribeDisposed,
         SubscribeVersion, BackendFails, BackendWrite
<1>2. Subs' = Subs /\ Entries' = Entries /\ OnChangeUris' = OnChangeUris
  BY <1>1, ReqSame
<1>3. req \in Requests /\ OnChangeUris \subseteq Uris /\ SubUris \subseteq Uris
  BY ReqFacts DEF TypeOK
<1>4. resp \in Seq(Response)
  BY DEF TypeOK, Response
<1>5. CASE SubscribeStart
  <2>1. PICK f \in [1..Cardinality(OnChangeUris) -> OnChangeUris] :
            /\ \A x, y \in DOMAIN f : f[x] = f[y] => x = y
            /\ resp' = FirstResponses(f)
    BY <1>5 DEF SubscribeStart
  <2>2. Cardinality(OnChangeUris) \in Nat
    BY <1>3, <2>1, AllListed
  <2>3. \A x \in DOMAIN f : f[x] \in Uris /\ val[f[x]] \in Vals
    BY <1>3 DEF TypeOK
  <2>4. \A x \in DOMAIN f : [kind |-> "data", uri |-> f[x], val |-> val[f[x]],
                             complete |-> x = Len(f)] \in Response
    BY <2>3 DEF Response
  <2>5. resp' \in [1..Cardinality(OnChangeUris) -> Response]
    BY <2>1, <2>4 DEF FirstResponses
  <2>6. resp' \in Seq(Response)
    BY <2>2, <2>5
  <2>7. TypeOK'
    BY <1>1, <1>2, <1>5, <2>6 DEF SubscribeStart, TypeOK, Response
  <2>8. Phases'
    BY <1>2, <1>5 DEF SubscribeStart, Phases
  <2>. QED  BY <1>1, <2>7, <2>8
<1>6. CASE SubscribeData
  <2>1. Head(resp) = resp[1] /\ 1 \in DOMAIN resp
    BY <1>4, <1>6 DEF SubscribeData
  <2>2. Head(resp).uri \in Uris /\ Head(resp).val \in Vals
    BY <1>3, <1>6, <2>1 DEF SubscribeData, Reported
  <2>3. sent' \in [Uris -> Vals \cup {None}] /\ puts' \in [Uris -> {0, 1}]
    BY <1>6, <2>2, PutTypes DEF SubscribeData, TypeOK
  <2>4. resp' \in Seq(Response)
    BY <1>4, <1>6 DEF SubscribeData
  <2>5. Head(resp).complete \in BOOLEAN
    <3>1. Head(resp) \in Response
      BY <1>4, <2>1
    <3>. QED  BY <3>1 DEF Response
  <2>6. TypeOK'
    BY <1>1, <1>2, <1>6, <2>3, <2>4, <2>5 DEF SubscribeData, Signal, TypeOK, Response
  <2>7. Phases'
    BY <1>2, <1>6 DEF SubscribeData, Phases
  <2>. QED  BY <1>1, <2>6, <2>7
<1>7. CASE SubscribeTerminated \/ SubscribeDisposed \/ SubscribeVersion
  <2>1. fatal' \in BOOLEAN
    BY <1>7 DEF SubscribeTerminated, SubscribeDisposed, SubscribeVersion, PutFatal, TypeOK
  <2>2. chan' \in {"open", "closed"} /\ panic' \in {"none", "closeOfClosed"}
    BY <1>7 DEF SubscribeTerminated, SubscribeDisposed, SubscribeVersion, CloseChan, TypeOK
  <2>3. w' \subseteq {"run", "subscribe"}
    BY <1>7 DEF SubscribeTerminated, SubscribeDisposed, SubscribeVersion, TypeOK
  <2>4. TypeOK'
    BY <1>1, <1>2, <1>7, <2>1, <2>2, <2>3
    DEF SubscribeTerminated, SubscribeDisposed, SubscribeVersion, TypeOK
  <2>5. Phases'
    BY <1>2, <1>7 DEF SubscribeTerminated, SubscribeDisposed, SubscribeVersion, Phases
  <2>. QED  BY <1>1, <2>4, <2>5
<1>8. CASE BackendFails
  <2>1. [kind |-> "terminated", uri |-> None, val |-> None, complete |-> FALSE] \in Response
    BY DEF Response
  <2>2. resp' \in Seq(Response)
    BY <1>4, <1>8, <2>1 DEF BackendFails
  <2>. QED  BY <1>1, <1>2, <1>8, <2>2 DEF BackendFails, TypeOK, Phases, Response
<1>9. ASSUME NEW u \in SubUris, NEW v \in Vals, BackendWrite(u, v)
      PROVE  TypeOK' /\ Phases'
  <2>1. [kind |-> "data", uri |-> u, val |-> v, complete |-> FALSE] \in Response
    BY <1>3 DEF Response
  <2>2. resp' \in Seq(Response)
    BY <1>4, <1>9, <2>1 DEF BackendWrite
  <2>3. val' \in [Uris -> Vals] /\ writes' \in Nat
    BY <1>3, <1>9 DEF BackendWrite, TypeOK
  <2>4. TypeOK'
    BY <1>1, <1>2, <1>9, <2>2, <2>3 DEF BackendWrite, TypeOK, Response
  <2>5. Phases'
    BY <1>2, <1>9 DEF BackendWrite, Phases
  <2>. QED  BY <2>4, <2>5
<1>. QED  BY <1>1, <1>5, <1>6, <1>7, <1>8, <1>9 DEF Subscriber

\* Steps of the session.
LEMMA SessionTypes ==
    ASSUME TypeOK, Phases, Session \/ SessionGone
    PROVE  TypeOK' /\ Phases' /\ UNCHANGED req
<1> USE DEF backVars, setVars, subVars, outVars
<1>1. UNCHANGED req
  BY DEF Session, SessionFatal, SessionClose, SessionReturn, SessionGone
<1>2. Subs' = Subs /\ Entries' = Entries /\ OnChangeUris' = OnChangeUris
  BY <1>1, ReqSame
<1>3. TypeOK'
  <2>1. CASE SessionFatal \/ SessionGone
    <3>1. disposed' \in BOOLEAN /\ spc' \in {"run", "close", "wait", "done"}
      BY <2>1 DEF SessionFatal, SessionGone
    <3>2. CASE SessionFatal
      BY <1>1, <1>2, <3>1, <3>2 DEF SessionFatal, TypeOK
    <3>3. CASE SessionGone
      BY <1>1, <1>2, <3>1, <3>3 DEF SessionGone, TypeOK
    <3>. QED  BY <2>1, <3>2, <3>3
  <2>2. CASE SessionClose
    <3>1. chan' \in {"open", "closed"} /\ panic' \in {"none", "closeOfClosed"}
      BY <2>2 DEF SessionClose, CloseChan, TypeOK
    <3>. QED  BY <1>1, <1>2, <2>2, <3>1 DEF SessionClose, TypeOK
  <2>3. CASE SessionReturn
    BY <1>1, <1>2, <2>3 DEF SessionReturn, TypeOK
  <2>. QED  BY <2>1, <2>2, <2>3 DEF Session
<1>4. Phases'
  BY <1>2 DEF Session, SessionFatal, SessionClose, SessionReturn, SessionGone, Phases
<1>. QED  BY <1>1, <1>3, <1>4

-----------------------------------------------------------------------------
(* Steps *)

\* A step that sends nothing, reports nothing and signals nothing: StreamRun
\* returns, or goes round its loop, or the session moves.
Quiet ==
    /\ UNCHANGED <<req, next, cache, synced, syncDone, resp, sent, sync>>
    /\ disposed => disposed'
    /\ \/ pc' = pc \/ pc' = "done"
       \/ pc \in {"select", "tick"} /\ pc' \in {"select", "tick"}

\* All steps but these are quiet ones.
Loud ==
    \/ StreamFirst \/ StreamAdded \/ StreamSpawn \/ StreamSync
    \/ \E x \in due : TickServe(x)
    \/ SubscribeStart \/ SubscribeData \/ BackendFails
    \/ \E u \in SubUris, v \in Vals : BackendWrite(u, v)

\* There are no other steps: with the quiet ones out of the way, a proof that a
\* step keeps a conjunct looks at the loud ones.
LEMMA StepCases ==
    ASSUME [Next]_vars
    PROVE  Quiet \/ Loud
<1> USE DEF backVars, setVars, subVars, outVars
<1>1. CASE UNCHANGED vars
  BY <1>1 DEF vars, Quiet
<1>2. CASE StreamRefused \/ StreamReadError \/ StreamStop
  BY <1>2 DEF StreamRefused, StreamReadError, StreamStop, Quiet
<1>3. CASE TickDone \/ \E e \in Intervals : Tick(e)
  BY <1>3 DEF TickDone, Tick, StreamTick, Quiet
<1>4. CASE SubscribeTerminated \/ SubscribeDisposed \/ SubscribeVersion
  BY <1>4 DEF SubscribeTerminated, SubscribeDisposed, SubscribeVersion, Quiet
<1>5. CASE SessionFatal \/ SessionGone
  BY <1>5 DEF SessionFatal, SessionGone, Quiet
<1>6. CASE SessionClose \/ SessionReturn
  BY <1>6 DEF SessionClose, SessionReturn, Quiet
<1>. QED  BY <1>1, <1>2, <1>3, <1>4, <1>5, <1>6
          DEF Next, Stream, Subscriber, Failing, Session, Loud

\* The types and the phases are kept by every step.
LEMMA TypesNext ==
    ASSUME TypeOK, Phases, Reported, [Next]_vars
    PROVE  TypeOK' /\ Phases' /\ UNCHANGED req
<1>1. CASE UNCHANGED vars
  BY <1>1 DEF vars, TypeOK, Phases, Subs, Entries
<1>2. CASE Next
  BY <1>2, SetUpTypes, LoopTypes, SubscriberTypes, SessionTypes
  DEF Next, Stream, Subscriber, Failing, Session
<1>. QED  BY <1>1, <1>2

\* A Put of a value makes it the last one sent of its path, if the queue
\* takes it, and touches no other path.
LEMMA PutSends ==
    ASSUME TypeOK, NEW u \in Uris, NEW v \in Vals, PutVal(u, v)
    PROVE  /\ ~disposed => sent'[u] = v
           /\ \A t \in Uris \ {u} : sent'[t] = sent[t]
           /\ \A t \in Uris : sent[t] # None => sent'[t] # None
           /\ v # None
BY TranslAssumption DEF TypeOK, PutVal, outVars

\* The value StreamRun reads and the one translib reports are values.
LEMMA FirstPut ==
    ASSUME TypeOK, Phases, StreamFirst
    PROVE  /\ Subs[next] \in Sub /\ Subs[next].uri \in Uris
           /\ val[Subs[next].uri] \in Vals
BY ReqFacts DEF StreamFirst, TypeOK

\* A timer that is due samples a subscription of the request.
LEMMA TickPut ==
    ASSUME TypeOK, NEW x \in due
    PROVE  /\ x.sub \in DOMAIN Subs /\ Subs[x.sub] \in Sub /\ Subs[x.sub].uri \in Uris
           /\ val[Subs[x.sub].uri] \in Vals
<1>1. x.sub \in DOMAIN Subs
  BY DEF TypeOK, Entries
<1>. QED  BY <1>1, ReqFacts DEF TypeOK

\* A response that TranslSubscribe takes is of an ON_CHANGE path.
LEMMA DataPut ==
    ASSUME TypeOK, Reported, SubscribeData
    PROVE  /\ Head(resp) = resp[1] /\ 1 \in DOMAIN resp
           /\ Head(resp).uri \in OnChangeUris /\ Head(resp).uri \in Uris
           /\ Head(resp).val \in Vals
<1>1. resp \in Seq(Response)
  BY DEF TypeOK, Response
<1>2. Head(resp) = resp[1] /\ 1 \in DOMAIN resp
  BY <1>1 DEF SubscribeData
<1>. QED  BY <1>2, ReqFacts DEF SubscribeData, Reported, TypeOK

\* A path that has been sent has been sent for good, and a queue that is
\* disposed of stays so.
LEMMA SentGrows ==
    ASSUME TypeOK, Phases, Reported, [Next]_vars
    PROVE  /\ disposed => disposed'
           /\ \A u \in Uris : sent[u] # None => sent'[u] # None
<1> USE DEF backVars, setVars, subVars, outVars
<1>1. CASE Quiet
  BY <1>1 DEF Quiet
<1>2. CASE StreamFirst
  BY <1>2, FirstPut, PutSends DEF StreamFirst
<1>3. ASSUME NEW x \in due, TickServe(x)
      PROVE  /\ disposed => disposed'
             /\ \A u \in Uris : sent[u] # None => sent'[u] # None
  BY <1>3, TickPut, PutSends DEF TickServe
<1>4. CASE SubscribeData
  BY <1>4, DataPut, PutSends DEF SubscribeData
<1>5. CASE \/ StreamAdded \/ StreamSpawn \/ StreamSync \/ SubscribeStart \/ BackendFails
           \/ \E u \in SubUris, v \in Vals : BackendWrite(u, v)
  <2>1. UNCHANGED <<sent, disposed>>
    BY <1>5
    DEF StreamAdded, StreamSpawn, StreamSync, SubscribeStart, BackendFails, BackendWrite
  <2>. QED  BY <2>1
<1>. QED  BY <1>1, <1>2, <1>3, <1>4, <1>5, StepCases DEF Loud

-----------------------------------------------------------------------------
(* The invariant is kept *)

\* What translib reports is of ON_CHANGE paths, whatever is written and whenever
\* it is taken.
LEMMA ReportedNext ==
    ASSUME TypeOK, Phases, Reported, [Next]_vars
    PROVE  Reported'
<1> USE DEF backVars, setVars, subVars, outVars
<1>1. UNCHANGED req /\ OnChangeUris' = OnChangeUris
  BY TypesNext, ReqSame
<1>2. resp \in Seq(Response)
  BY DEF TypeOK, Response
<1>3. CASE UNCHANGED resp
  BY <1>1, <1>3 DEF Reported
<1>4. CASE SubscribeStart
  <2>1. PICK f \in [1..Cardinality(OnChangeUris) -> OnChangeUris] : resp' = FirstResponses(f)
    BY <1>4 DEF SubscribeStart
  <2>2. \A x \in DOMAIN f : f[x] \in OnChangeUris /\ val[f[x]] \in Vals
    BY ReqFacts DEF TypeOK
  <2>. QED  BY <1>1, <2>1, <2>2 DEF FirstResponses, Reported
<1>5. CASE SubscribeData
  <2>1. resp' = Tail(resp) /\ resp # <<>>
    BY <1>5 DEF SubscribeData
  <2>2. \A x \in DOMAIN resp' : x + 1 \in DOMAIN resp /\ resp'[x] = resp[x + 1]
    BY <1>2, <2>1
  <2>. QED  BY <1>1, <2>2 DEF Reported
<1>6. CASE BackendFails
  <2>1. \A x \in DOMAIN resp' : (x \in DOMAIN resp /\ resp'[x] = resp[x])
                                 \/ resp'[x].kind = "terminated"
    BY <1>2, <1>6 DEF BackendFails
  <2>. QED  BY <1>1, <2>1 DEF Reported
<1>7. ASSUME NEW u \in SubUris, NEW v \in Vals, BackendWrite(u, v)
      PROVE  Reported'
  <2>1. CASE tpc = "get" /\ u \in OnChangeUris
    <3>1. \A x \in DOMAIN resp' : (x \in DOMAIN resp /\ resp'[x] = resp[x])
                                   \/ (resp'[x].uri = u /\ resp'[x].val = v)
      BY <1>2, <1>7, <2>1 DEF BackendWrite
    <3>. QED  BY <1>1, <2>1, <3>1 DEF Reported
  <2>2. CASE ~(tpc = "get" /\ u \in OnChangeUris)
    BY <1>3, <1>7, <2>2 DEF BackendWrite
  <2>. QED  BY <2>1, <2>2
<1>8. StreamFirst \/ StreamAdded \/ StreamSpawn \/ StreamSync \/ (\E x \in due : TickServe(x))
         => UNCHANGED resp
  BY DEF StreamFirst, StreamAdded, StreamSpawn, StreamSync, TickServe
<1>. QED  BY <1>3, <1>4, <1>5, <1>6, <1>7, <1>8, StepCases DEF Loud, Quiet

\* The three places that put a value: a sampled value goes to the cache as
\* well, and a reported one is of a path that is not sampled.
LEMMA CacheIsSentNext ==
    ASSUME TypeOK, Phases, Reported, CacheIsSent, [Next]_vars
    PROVE  CacheIsSent'
<1> USE DEF backVars, setVars, subVars, outVars
<1>1. UNCHANGED req /\ Subs' = Subs
  BY TypesNext, ReqSame
<1>2. /\ req \in Requests
      /\ \A n \in DOMAIN Subs : Subs[n].uri \in Uris
      /\ \A n \in DOMAIN Subs : Subs[n].mode = "SAMPLE" => Subs[n].uri \notin OnChangeUris
  BY ReqFacts DEF TypeOK
<1>3. SUFFICES ASSUME ~disposed', NEW n \in DOMAIN Subs, Subs[n].mode = "SAMPLE"
               PROVE  cache'[Subs[n].uri] = sent'[Subs[n].uri]
  BY <1>1 DEF CacheIsSent
<1>4. ~disposed /\ cache[Subs[n].uri] = sent[Subs[n].uri]
  BY <1>3, SentGrows DEF CacheIsSent
<1>5. CASE UNCHANGED <<cache, sent>>
  BY <1>4, <1>5
<1>6. CASE StreamFirst
  BY <1>2, <1>4, <1>6, FirstPut DEF StreamFirst, PutVal, TypeOK
<1>7. ASSUME NEW x \in due, TickServe(x)
      PROVE  cache'[Subs[n].uri] = sent'[Subs[n].uri]
  BY <1>2, <1>4, <1>7, TickPut DEF TickServe, Cached, PutVal, TypeOK
<1>8. CASE SubscribeData
  <2>1. UNCHANGED cache
    BY <1>8 DEF SubscribeData
  <2>2. sent'[Subs[n].uri] = sent[Subs[n].uri]
    BY <1>2, <1>3, <1>8, DataPut, PutSends DEF SubscribeData
  <2>. QED  BY <1>4, <2>1, <2>2
<1>9. ASSUME \/ StreamAdded \/ StreamSpawn \/ StreamSync \/ SubscribeStart \/ BackendFails
             \/ \E u \in SubUris, v \in Vals : BackendWrite(u, v)
      PROVE  UNCHANGED <<cache, sent>>
  BY <1>9 DEF StreamAdded, StreamSpawn, StreamSync, SubscribeStart, BackendFails, BackendWrite
<1>. QED  BY <1>5, <1>6, <1>7, <1>8, <1>9, StepCases DEF Loud, Quiet

\* A sampled path that StreamRun has passed has been sent.
LEMMA SampledSentNext ==
    ASSUME TypeOK, Phases, Reported, SampledSent, [Next]_vars
    PROVE  SampledSent'
<1> USE DEF backVars, setVars, subVars, outVars
<1>1. UNCHANGED req /\ Subs' = Subs
  BY TypesNext, ReqSame
<1>2. SUFFICES ASSUME Wanted', NEW n \in DOMAIN Subs, Subs[n].mode = "SAMPLE",
                      n < next' \/ (n = next' /\ pc' = "added")
               PROVE  sent'[Subs[n].uri] # None
  BY <1>1 DEF SampledSent
<1>3. Wanted /\ ~disposed
  BY <1>1, <1>2, SentGrows DEF Wanted
<1>4. Subs[n].uri \in Uris /\ Subs \in Seq(Sub)
  BY ReqFacts DEF TypeOK
<1>5. n < next \/ (n = next /\ pc = "added") => sent'[Subs[n].uri] # None
  BY <1>2, <1>3, <1>4, SentGrows DEF SampledSent
<1>6. n \in Nat /\ next \in Nat
  BY <1>4 DEF Phases
<1>7. CASE StreamFirst
  <2>1. n < next \/ n = next
    BY <1>2, <1>7 DEF StreamFirst
  <2>2. CASE n = next
    <3>1. PutVal(Subs[n].uri, val[Subs[n].uri])
      BY <1>2, <1>3, <1>7, <2>2 DEF StreamFirst, Wanted
    <3>. QED  BY <1>3, <1>7, <2>2, <3>1, FirstPut, PutSends
  <2>. QED  BY <1>5, <2>1, <2>2
<1>8. CASE StreamAdded
  BY <1>2, <1>5, <1>6, <1>8 DEF StreamAdded
<1>9. ASSUME \/ StreamSpawn \/ StreamSync \/ SubscribeStart \/ SubscribeData \/ BackendFails
             \/ \E x \in due : TickServe(x)
             \/ \E u \in SubUris, v \in Vals : BackendWrite(u, v)
             \/ Quiet
      PROVE  UNCHANGED next /\ (pc' = "added" => pc = "added")
  BY <1>9 DEF StreamSpawn, StreamSync, SubscribeStart, SubscribeData, BackendFails, TickServe,
         BackendWrite, Quiet
<1>. QED  BY <1>2, <1>5, <1>7, <1>8, <1>9, StepCases DEF Loud

\* A path whose first response has been taken has been sent; one whose has not
\* is among the responses up to the one that completes them.
LEMMA ReportedSentNext ==
    ASSUME TypeOK, Phases, Reported, ReportedSent, [Next]_vars
    PROVE  ReportedSent'
<1> USE DEF backVars, setVars, subVars, outVars
<1>1. UNCHANGED req /\ OnChangeUris' = OnChangeUris /\ req \in Requests
  BY TypesNext, ReqSame DEF TypeOK
<1>2. SUFFICES ASSUME Wanted'
               PROVE  /\ syncDone' => \A u \in OnChangeUris : sent'[u] # None
                      /\ \A k \in DOMAIN resp' : resp'[k].complete =>
                            \A u \in OnChangeUris :
                                \/ sent'[u] # None
                                \/ \E x \in 1..k : resp'[x].kind = "data" /\ resp'[x].uri = u
  BY <1>1 DEF ReportedSent
<1>3. Wanted /\ ~disposed /\ ~req.updatesOnly
  BY <1>1, <1>2, SentGrows DEF Wanted
<1>4. resp \in Seq(Response) /\ OnChangeUris \subseteq Uris
  BY <1>1, ReqFacts DEF TypeOK, Response
<1>5. \A u \in OnChangeUris : sent[u] # None => sent'[u] # None
  BY <1>4, SentGrows
<1>6. CASE UNCHANGED <<resp, syncDone>>
  BY <1>3, <1>5, <1>6 DEF ReportedSent
<1>7. CASE SubscribeStart
  <2>1. PICK f \in [1..Cardinality(OnChangeUris) -> OnChangeUris] :
            /\ \A x, y \in DOMAIN f : f[x] = f[y] => x = y
            /\ resp' = FirstResponses(f)
    BY <1>7 DEF SubscribeStart
  <2>2. Cardinality(OnChangeUris) \in Nat /\ \A u \in OnChangeUris : \E x \in DOMAIN f : f[x] = u
    BY <1>1, <2>1, AllListed
  <2>3. DOMAIN f = 1..Cardinality(OnChangeUris) /\ Len(f) = Cardinality(OnChangeUris)
    BY <2>2
  <2>4. \A k \in DOMAIN resp' : k \in DOMAIN f /\ (resp'[k].complete => k = Len(f))
    BY <2>1 DEF FirstResponses
  <2>5. \A x \in DOMAIN f : resp'[x].kind = "data" /\ resp'[x].uri = f[x]
    BY <2>1 DEF FirstResponses
  <2>6. UNCHANGED syncDone
    BY <1>7 DEF SubscribeStart
  <2>7. syncDone' => \A u \in OnChangeUris : sent'[u] # None
    BY <1>3, <1>5, <2>6 DEF ReportedSent
  <2>. QED  BY <2>2, <2>3, <2>4, <2>5, <2>7
<1>8. CASE SubscribeData
  <2> DEFINE r == Head(resp)
  <2>1. r = resp[1] /\ 1 \in DOMAIN resp /\ r.uri \in OnChangeUris
    BY <1>8, DataPut
  <2>2. sent'[r.uri] # None
    <3>1. PutVal(r.uri, r.val)
      BY <1>3, <1>8 DEF SubscribeData
    <3>. QED  BY <1>3, <1>8, <3>1, DataPut, PutSends
  <2>3. \A x \in DOMAIN resp' : x + 1 \in DOMAIN resp /\ resp'[x] = resp[x + 1]
    BY <1>4, <1>8 DEF SubscribeData
  <2>4. resp' \in Seq(Response) /\ syncDone' = (syncDone \/ r.complete)
    BY <1>4, <1>8 DEF SubscribeData
  <2>5. ASSUME syncDone', NEW u \in OnChangeUris
        PROVE  sent'[u] # None
    <3>1. CASE syncDone
      BY <1>3, <1>5, <3>1 DEF ReportedSent
    <3>2. CASE r.complete
      <4>1. sent[u] # None \/ resp[1].uri = u
        BY <1>3, <2>1, <3>2 DEF ReportedSent
      <4>. QED  BY <1>5, <2>1, <2>2, <4>1
    <3>. QED  BY <2>4, <2>5, <3>1, <3>2
  <2>6. ASSUME NEW k \in DOMAIN resp', resp'[k].complete, NEW u \in OnChangeUris
        PROVE  \/ sent'[u] # None
               \/ \E x \in 1..k : resp'[x].kind = "data" /\ resp'[x].uri = u
    <3>1. k + 1 \in DOMAIN resp /\ resp[k + 1].complete /\ k \in Nat
      BY <2>3, <2>4, <2>6
    <3>2. \/ sent[u] # None
          \/ \E x \in 1..(k + 1) : resp[x].kind = "data" /\ resp[x].uri = u
      BY <1>3, <3>1 DEF ReportedSent
    <3>3. ASSUME NEW x \in 1..(k + 1), resp[x].kind = "data", resp[x].uri = u
          PROVE  sent'[u] # None \/ \E y \in 1..k : resp'[y].kind = "data" /\ resp'[y].uri = u
      <4>1. CASE x = 1
        BY <2>1, <2>2, <3>3, <4>1
      <4>2. CASE x # 1
        <5>1. x - 1 \in 1..k /\ x - 1 \in DOMAIN resp' /\ x = (x - 1) + 1
          BY <2>4, <3>1, <4>2
        <5>. QED  BY <2>3, <3>3, <5>1
      <4>. QED  BY <4>1, <4>2
    <3>. QED  BY <1>5, <3>2, <3>3
  <2>. QED  BY <2>5, <2>6
<1>9. ASSUME NEW r, r.complete = FALSE, resp' = Append(resp, r), UNCHANGED syncDone
      PROVE  /\ syncDone' => \A u \in OnChangeUris : sent'[u] # None
             /\ \A k \in DOMAIN resp' : resp'[k].complete =>
                   \A u \in OnChangeUris :
                       \/ sent'[u] # None
                       \/ \E x \in 1..k : resp'[x].kind = "data" /\ resp'[x].uri = u
  <2>1. \A k \in DOMAIN resp' : resp'[k].complete =>
            /\ k \in DOMAIN resp /\ resp[k].complete
            /\ \A x \in 1..k : resp'[x] = resp[x]
    BY <1>4, <1>9
  <2>2. syncDone' => \A u \in OnChangeUris : sent'[u] # None
    BY <1>3, <1>5, <1>9 DEF ReportedSent
  <2>3. \A k \in DOMAIN resp : resp[k].complete => \A u \in OnChangeUris :
            sent[u] # None \/ \E x \in 1..k : resp[x].kind = "data" /\ resp[x].uri = u
    BY <1>3 DEF ReportedSent
  <2>. QED  BY <1>5, <2>1, <2>2, <2>3
<1>10. CASE BackendFails
  BY <1>9, <1>10 DEF BackendFails
<1>11. ASSUME NEW u \in SubUris, NEW v \in Vals, BackendWrite(u, v)
       PROVE  /\ UNCHANGED syncDone
              /\ UNCHANGED resp \/ \E r : r.complete = FALSE /\ resp' = Append(resp, r)
  BY <1>11 DEF BackendWrite
<1>12. ASSUME \/ StreamFirst \/ StreamAdded \/ StreamSpawn \/ StreamSync
              \/ \E x \in due : TickServe(x)
       PROVE  UNCHANGED <<resp, syncDone>>
  BY <1>12 DEF StreamFirst, StreamAdded, StreamSpawn, StreamSync, TickServe
<1>. QED  BY <1>6, <1>7, <1>8, <1>9, <1>10, <1>11, <1>12, StepCases DEF Loud, Quiet

\* A step that signals synced also marks the first values as complete.
LEMMA SignalledLateNext ==
    ASSUME TypeOK, Phases, Reported, SignalledLate, [Next]_vars
    PROVE  SignalledLate'
<1> USE DEF backVars, setVars, subVars, outVars
<1>1. UNCHANGED req /\ OnChangeUris' = OnChangeUris
  BY TypesNext, ReqSame
<1>2. CASE StreamFirst \/ StreamAdded
  BY <1>2 DEF StreamFirst, StreamAdded, SignalledLate
<1>3. CASE StreamSpawn
  BY <1>1, <1>3 DEF StreamSpawn, SignalledLate
<1>4. CASE SubscribeData
  BY <1>1, <1>4 DEF SubscribeData, Signal, SignalledLate, TypeOK
<1>5. ASSUME \/ StreamSync \/ SubscribeStart \/ BackendFails \/ Quiet
             \/ \E x \in due : TickServe(x)
             \/ \E u \in SubUris, v \in Vals : BackendWrite(u, v)
      PROVE  /\ UNCHANGED <<synced, syncDone>>
             /\ pc' \in {"sync", "select", "tick"} => pc \in {"sync", "select", "tick"}
  BY <1>5 DEF StreamSync, SubscribeStart, BackendFails, Quiet, TickServe, BackendWrite
<1>. QED  BY <1>1, <1>2, <1>3, <1>4, <1>5, StepCases DEF Loud, SignalledLate

\* The sync_response is put when the sampled paths are passed and TranslSubscribe
\* has signalled.
LEMMA SyncCompleteNext ==
    ASSUME IInv, [Next]_vars
    PROVE  SyncComplete'
<1> USE DEF backVars, setVars, subVars, outVars, IInv
<1>1. UNCHANGED req /\ SubUris' = SubUris /\ req \in Requests
  BY TypesNext, ReqSame DEF TypeOK
<1>2. SubUris \subseteq Uris /\ Subs \in Seq(Sub)
  BY <1>1, ReqFacts
<1>3. \A u \in SubUris : sent[u] # None => sent'[u] # None
  BY <1>2, SentGrows
<1>4. CASE StreamSync
  <2>1. SUFFICES ASSUME ~sync, sync', ~req.updatesOnly, NEW u \in SubUris
                 PROVE  sent[u] # None
    BY <1>1, <1>3 DEF SyncComplete
  <2>2. Wanted
    BY <1>4, <2>1 DEF StreamSync, Wanted
  <2>3. CASE u \in OnChangeUris
    <3>1. syncDone
      BY <1>4, <2>3 DEF StreamSync, AllSignalled, SignalledLate
    <3>. QED  BY <2>2, <2>3, <3>1 DEF ReportedSent
  <2>4. ASSUME NEW n \in DOMAIN Subs, Subs[n].mode = "SAMPLE", Subs[n].uri = u
        PROVE  sent[u] # None
    <3>1. n < next
      BY <1>2, <1>4 DEF StreamSync, Phases
    <3>. QED  BY <2>2, <2>4, <3>1 DEF SampledSent
  <2>. QED  BY <1>1, <2>3, <2>4, ReqFacts
<1>5. ASSUME \/ StreamFirst \/ StreamAdded \/ StreamSpawn \/ SubscribeStart \/ SubscribeData
             \/ BackendFails \/ Quiet
             \/ \E x \in due : TickServe(x)
             \/ \E u \in SubUris, v \in Vals : BackendWrite(u, v)
      PROVE  UNCHANGED sync
  BY <1>5 DEF StreamFirst, StreamAdded, StreamSpawn, SubscribeStart, SubscribeData, BackendFails,
              Quiet, TickServe, BackendWrite
<1>. QED  BY <1>1, <1>3, <1>4, <1>5, StepCases DEF Loud, SyncComplete

-----------------------------------------------------------------------------
(* Theorems *)

\* The invariant holds when the stream starts.
LEMMA InvInit == Init => IInv
<1> SUFFICES ASSUME Init PROVE IInv
  OBVIOUS
<1>1. TypeOK
  <2>1. resp \in Seq(Response)
    <3>1. <<>> \in Seq(Response)
      OBVIOUS
    <3>. QED  BY <3>1 DEF Init
  <2>2. cache \in [Uris -> Vals \cup {None}] /\ sent \in [Uris -> Vals \cup {None}]
    BY DEF Init
  <2>3. puts \in [Uris -> {0, 1}]
    BY DEF Init
  <2>. QED  BY <2>1, <2>2, <2>3 DEF Init, TypeOK, Response
<1>2. Phases
  BY DEF Init, Phases
<1>3. Reported /\ ReportedSent /\ SignalledLate /\ SyncComplete
  BY DEF Init, Reported, ReportedSent, SignalledLate, SyncComplete
<1>4. CacheIsSent
  <2>1. \A n \in DOMAIN Subs : Subs[n].uri \in Uris
    BY <1>1, ReqFacts DEF TypeOK
  <2>. QED  BY <2>1 DEF Init, CacheIsSent
<1>5. SampledSent
  <2>1. Subs \in Seq(Sub)
    BY <1>1, ReqFacts DEF TypeOK
  <2>2. \A n \in DOMAIN Subs : ~(n < next) /\ pc # "added"
    BY <2>1 DEF Init
  <2>. QED  BY <2>2 DEF SampledSent
<1>. QED  BY <1>1, <1>2, <1>3, <1>4, <1>5 DEF IInv

\* Every step keeps the invariant.
LEMMA InvNext == IInv /\ [Next]_vars => IInv'
BY TypesNext, ReportedNext, CacheIsSentNext, SampledSentNext, ReportedSentNext,
   SignalledLateNext, SyncCompleteNext DEF IInv

\* The invariant of TranslStream holds in every reachable state.
THEOREM Invariance == Spec => []IInv
BY InvInit, InvNext, PTL DEF Spec

(***************************************************************************)
(* Every variable keeps its type.                                          *)
(***************************************************************************)
THEOREM TypesKept == Spec => []TypeOK
<1>1. IInv => TypeOK
  BY DEF IInv
<1>. QED  BY <1>1, Invariance, PTL

(***************************************************************************)
(* A sample is suppressed as redundant only if the client has that value:  *)
(* StreamRun's value cache and the session's queue agree on every sampled  *)
(* path, whatever TranslSubscribe puts in between, and whatever fails.     *)
(***************************************************************************)
THEOREM SuppressedIsSent == Spec => []CacheIsSent
<1>1. IInv => CacheIsSent
  BY DEF IInv
<1>. QED  BY <1>1, Invariance, PTL

(***************************************************************************)
(* The sync_response follows the first value of every path, the sampled    *)
(* ones that StreamRun sends and the ones TranslSubscribe passes on, for   *)
(* every number of subscriptions.                                          *)
(***************************************************************************)
THEOREM SyncIsComplete == Spec => []SyncComplete
<1>1. IInv => SyncComplete
  BY DEF IInv
<1>. QED  BY <1>1, Invariance, PTL
=============================================================================
