---------------------------- MODULE TranslStream ----------------------------
(***************************************************************************)
(* A STREAM subscription served by the translib data client                *)
(* (sonic_data_client/transl_data_client.go): StreamRun, which validates   *)
(* the subscriptions, sends the first values, and then samples on the      *)
(* ticks of its timers, and TranslSubscribe, the goroutine that passes on  *)
(* what translib reports about the ON_CHANGE subscriptions.  The session   *)
(* that owns the queue and the channel (gnmi_server/client_subscribe.go)   *)
(* is reduced to the end of Run: Close, and the wait for the goroutines.   *)
(*                                                                         *)
(* Translib is external: it answers reads, reports the first value of each *)
(* ON_CHANGE path and then every change, in a queue of its own, and        *)
(* disposes of that queue when the channel is closed.                      *)
(***************************************************************************)
EXTENDS Naturals, Sequences, FiniteSets

CONSTANTS Requests,    \* SubscriptionLists a client may send
          Uris,        \* paths
          Vals,        \* values of a path
          None,        \* no value
          MaxWrites    \* bound: changes of the paths' values

\* every, beat: sample and heartbeat interval, 0 for none
Sub == [uri : Uris, mode : {"SAMPLE", "ON_CHANGE"}, suppress : BOOLEAN,
        every : Nat, beat : Nat]

\* updatesOnly: SubscriptionList.updates_only.  patient: the client stays until
\* it has its sync_response.  fails: what may fail while it is served, a read, the
\* bundle version or the backend.
Request == [subs : Seq(Sub), updatesOnly : BOOLEAN, patient : BOOLEAN,
            fails : SUBSET {"read", "version", "backend"}]

ASSUME TranslAssumption ==
    /\ Requests \subseteq Request
    /\ \A q \in Requests :
          /\ q.subs # <<>>
          /\ \A m, n \in DOMAIN q.subs : q.subs[m].uri = q.subs[n].uri => m = n
          /\ \A n \in DOMAIN q.subs : q.subs[n].mode = "SAMPLE" => q.subs[n].every > 0
    /\ None \notin Vals
    /\ MaxWrites \in Nat

VARIABLES
    req,       \* the request served
    val,       \* the values translib reads
    writes,    \* changes made
    pc,        \* control point of StreamRun
    next,      \* the subscription StreamRun comes to next
    timers,    \* ticker_map: the entries of all timers
    due,       \* entries of the timer that ticked, not yet served
    cache,     \* valueCache
    synced,    \* TranslClient.synced: TranslSubscribe has not signalled
    tpc,       \* control point of TranslSubscribe
    syncDone,  \* its sync_done
    resp,      \* responses in translib's queue
    sent,      \* the last value of a path put in the session's queue
    puts,      \* parity of the number of values of a path put there
    sync,      \* a sync_response has been put there
    fatal,     \* a fatal message has been put there
    disposed,  \* the session's queue has been disposed of
    chan,      \* c.channel, the session's stop: "open" or "closed"
    w,         \* goroutines Run waits for
    spc,       \* control point of Run
    panic      \* the run-time panic that ended the process, or "none"

backVars == <<req, val, writes>>
setVars  == <<next, timers>>
subVars  == <<tpc, syncDone, resp>>
outVars  == <<sent, puts>>
vars == <<req, val, writes, pc, next, timers, due, cache, synced, tpc, syncDone,
          resp, sent, puts, sync, fatal, disposed, chan, w, spc, panic>>

Subs == req.subs

SubUris == {Subs[n].uri : n \in DOMAIN Subs}

OnChangeUris == {Subs[n].uri : n \in {m \in DOMAIN Subs : Subs[m].mode = "ON_CHANGE"}}

Entries == [sub : DOMAIN Subs, heartbeat : BOOLEAN, every : Nat]

-----------------------------------------------------------------------------
(* Faulty variants of definitions below, for mutation testing. *)

RedundantBeat(x, v) ==         \* heartbeats suppressed like samples
    Subs[x.sub].suppress /\ v = cache[Subs[x.sub].uri]
RedundantEver(x, v) ==         \* a path is sent once only
    Subs[x.sub].suppress /\ cache[Subs[x.sub].uri] # None
CachedFirst(u, v) == IF cache[u] = None THEN v ELSE cache[u]   \* never updated
AllSignalledUnchecked == TRUE  \* no c.synced.Wait()
StopSeenNever == FALSE         \* the channel is not among the select's cases

-----------------------------------------------------------------------------
(***************************************************************************)
(* Put of value v for path u, or of the fatal message; an error of a queue *)
(* that is disposed of is ignored.                                         *)
(***************************************************************************)
PutVal(u, v) ==
    IF disposed THEN UNCHANGED outVars
    ELSE /\ sent' = [sent EXCEPT ![u] = v]
         /\ puts' = [puts EXCEPT ![u] = 1 - @]

PutFatal == fatal' = (fatal \/ ~disposed)

CloseChan == /\ chan' = "closed"
             /\ panic' = IF chan = "closed" THEN "closeOfClosed" ELSE panic

-----------------------------------------------------------------------------
(* StreamRun *)

HasHeartbeat(s) == s.beat > 0 /\ (s.suppress \/ s.mode = "ON_CHANGE")

(***************************************************************************)
(* addTimer for a sampled path and for its heartbeat, which counts when    *)
(* redundant samples are suppressed, or for the heartbeat of an ON_CHANGE  *)
(* path.                                                                   *)
(***************************************************************************)
AddTimers(n) ==
    LET s == Subs[n]
    IN timers' = timers
          \cup {x \in {[sub |-> n, heartbeat |-> FALSE, every |-> s.every]} :
                   s.mode = "SAMPLE"}
          \cup {x \in {[sub |-> n, heartbeat |-> TRUE, every |-> s.beat]} :
                   HasHeartbeat(s)}

(***************************************************************************)
(* The next subscription is in error, its mode, path or sample interval    *)
(* or, after the first value, its heartbeat: a fatal message, and          *)
(* StreamRun returns.                                                      *)
(***************************************************************************)
StreamRefused ==
    /\ next \in DOMAIN Subs
    /\ pc = "sub" \/ (pc = "added" /\ HasHeartbeat(Subs[next]))
    /\ PutFatal
    /\ pc' = "done"
    /\ w' = w \ {"run"}
    /\ UNCHANGED <<backVars, setVars, due, cache, synced, subVars, outVars, sync,
                   disposed, chan, spc, panic>>

(***************************************************************************)
(* The first value of a sampled path is sent, unless only updates are      *)
(* asked for.                                                              *)
(***************************************************************************)
StreamFirst ==
    LET s == Subs[next]
    IN
    /\ pc = "sub"
    /\ next \in DOMAIN Subs
    /\ pc' = "added"
    /\ IF s.mode = "SAMPLE" /\ ~req.updatesOnly
       THEN /\ PutVal(s.uri, val[s.uri])
            /\ cache' = [cache EXCEPT ![s.uri] = val[s.uri]]
       ELSE UNCHANGED <<outVars, cache>>
    /\ UNCHANGED <<backVars, setVars, due, synced, subVars, sync, fatal, disposed,
                   chan, w, spc, panic>>

StreamAdded ==
    /\ pc = "added"
    /\ AddTimers(next)
    /\ next' = next + 1
    /\ pc' = "sub"
    /\ UNCHANGED <<backVars, due, cache, synced, subVars, outVars, sync, fatal,
                   disposed, chan, w, spc, panic>>

(***************************************************************************)
(* A read that fails, for a first value or on a tick: StreamRun returns,   *)
(* without a message.                                                      *)
(***************************************************************************)
StreamReadError ==
    /\ "read" \in req.fails
    /\ \/ /\ pc = "sub" /\ next \in DOMAIN Subs
          /\ Subs[next].mode = "SAMPLE" /\ ~req.updatesOnly
       \/ pc = "tick" /\ due # {}
    /\ pc' = "done"
    /\ w' = w \ {"run"}
    /\ UNCHANGED <<backVars, setVars, due, cache, synced, subVars, outVars, sync,
                   fatal, disposed, chan, spc, panic>>

(***************************************************************************)
(* All subscriptions are set up: start TranslSubscribe if there are        *)
(* ON_CHANGE ones; then synced.Wait() and the sync message.                *)
(***************************************************************************)
StreamSpawn ==
    /\ pc = "sub"
    /\ next \notin DOMAIN Subs
    /\ pc' = "sync"
    /\ IF OnChangeUris # {}
       THEN /\ tpc' = "start"
            /\ synced' = TRUE
            /\ w' = w \cup {"subscribe"}
       ELSE UNCHANGED <<tpc, synced, w>>
    /\ UNCHANGED <<backVars, setVars, due, cache, syncDone, resp, outVars, sync,
                   fatal, disposed, chan, spc, panic>>

AllSignalled == ~synced

StreamSync ==
    /\ pc = "sync"
    /\ AllSignalled
    /\ sync' = (sync \/ ~disposed)
    /\ pc' = "select"
    /\ UNCHANGED <<backVars, setVars, due, cache, synced, subVars, outVars, fatal,
                   disposed, chan, w, spc, panic>>

(***************************************************************************)
(* reflect.Select: the timer of an interval ticks, or the channel is       *)
(* closed.                                                                 *)
(***************************************************************************)
StreamTick(e) ==
    /\ pc = "select"
    /\ due' = {x \in timers : x.every = e}
    /\ pc' = "tick"
    /\ UNCHANGED <<backVars, setVars, cache, synced, subVars, outVars, sync, fatal,
                   disposed, chan, w, spc, panic>>

StopSeen == chan = "closed"

StreamStop ==
    /\ pc = "select"
    /\ StopSeen
    /\ pc' = "done"
    /\ w' = w \ {"run"}
    /\ UNCHANGED <<backVars, setVars, due, cache, synced, subVars, outVars, sync,
                   fatal, disposed, chan, spc, panic>>

(***************************************************************************)
(* One entry of the timer: read, and send unless it is a redundant sample. *)
(***************************************************************************)
Redundant(x, v) ==
    Subs[x.sub].suppress /\ ~x.heartbeat /\ v = cache[Subs[x.sub].uri]

Cached(u, v) == v

TickServe(x) ==
    LET u == Subs[x.sub].uri
    IN
    /\ pc = "tick"
    /\ x \in due
    /\ due' = due \ {x}
    /\ IF Redundant(x, val[u])
       THEN UNCHANGED <<outVars, cache>>
       ELSE PutVal(u, val[u]) /\ cache' = [cache EXCEPT ![u] = Cached(u, val[u])]
    /\ UNCHANGED <<backVars, pc, setVars, synced, subVars, sync, fatal, disposed,
                   chan, w, spc, panic>>

TickDone ==
    /\ pc = "tick"
    /\ due = {}
    /\ pc' = "select"
    /\ UNCHANGED <<backVars, setVars, due, cache, synced, subVars, outVars, sync,
                   fatal, disposed, chan, w, spc, panic>>

-----------------------------------------------------------------------------
(* TranslSubscribe *)

(***************************************************************************)
(* A bundle version that does not parse: a fatal message and return.       *)
(***************************************************************************)
SubscribeVersion ==
    /\ tpc = "start"
    /\ "version" \in req.fails
    /\ PutFatal
    /\ tpc' = "done"
    /\ w' = w \ {"subscribe"}
    /\ UNCHANGED <<backVars, pc, setVars, due, cache, synced, syncDone, resp,
                   outVars, sync, disposed, chan, spc, panic>>

(***************************************************************************)
(* translib.Subscribe: the first values follow, the last one marked.       *)
(***************************************************************************)
FirstResponses(f) ==
    [x \in DOMAIN f |-> [kind |-> "data", uri |-> f[x], val |-> val[f[x]],
                         complete |-> x = Len(f)]]

SubscribeStart ==
    /\ tpc = "start"
    /\ \E f \in [1..Cardinality(OnChangeUris) -> OnChangeUris] :
          /\ \A x, y \in DOMAIN f : f[x] = f[y] => x = y
          /\ resp' = FirstResponses(f)
    /\ tpc' = "get"
    /\ UNCHANGED <<backVars, pc, setVars, due, cache, synced, syncDone, outVars,
                   sync, fatal, disposed, chan, w, spc, panic>>

(***************************************************************************)
(* A value: put in the session's queue, unless it is a first value and     *)
(* only updates are asked for; after the marked one synced is signalled.   *)
(***************************************************************************)
Signal(r) == synced /\ ~(r.complete /\ ~syncDone)

SubscribeData ==
    LET r == Head(resp)
    IN
    /\ tpc = "get"
    /\ resp # <<>>
    /\ r.kind = "data"
    /\ resp' = Tail(resp)
    /\ IF req.updatesOnly /\ ~syncDone THEN UNCHANGED outVars ELSE PutVal(r.uri, r.val)
    /\ synced' = Signal(r)
    /\ syncDone' = (syncDone \/ r.complete)
    /\ UNCHANGED <<backVars, pc, setVars, due, cache, tpc, sync, fatal, disposed,
                   chan, w, spc, panic>>

(***************************************************************************)
(* The backend has failed: a fatal message, close of the channel, return.  *)
(***************************************************************************)
SubscribeTerminated ==
    /\ tpc = "get"
    /\ resp # <<>>
    /\ Head(resp).kind = "terminated"
    /\ PutFatal
    /\ CloseChan
    /\ tpc' = "done"
    /\ w' = w \ {"subscribe"}
    /\ UNCHANGED <<backVars, pc, setVars, due, cache, synced, syncDone, resp,
                   outVars, sync, disposed, spc>>

(***************************************************************************)
(* Get fails: translib has seen the channel closed and disposed of its     *)
(* queue.                                                                  *)
(***************************************************************************)
SubscribeDisposed ==
    /\ tpc = "get"
    /\ chan = "closed"
    /\ tpc' = "done"
    /\ w' = w \ {"subscribe"}
    /\ UNCHANGED <<backVars, pc, setVars, due, cache, synced, syncDone, resp,
                   outVars, sync, fatal, disposed, chan, spc, panic>>

-----------------------------------------------------------------------------
(* Translib's data, and the session *)

BackendWrite(u, v) ==
    /\ writes < MaxWrites
    /\ val[u] # v
    /\ writes' = writes + 1
    /\ val' = [val EXCEPT ![u] = v]
    /\ resp' = IF tpc = "get" /\ u \in OnChangeUris
               THEN Append(resp, [kind |-> "data", uri |-> u, val |-> v,
                                  complete |-> FALSE])
               ELSE resp
    /\ UNCHANGED <<req, pc, setVars, due, cache, synced, tpc, syncDone, outVars,
                   sync, fatal, disposed, chan, w, spc, panic>>

BackendFails ==
    /\ "backend" \in req.fails
    /\ tpc = "get"
    /\ \A x \in DOMAIN resp : resp[x].kind = "data"
    /\ resp' = Append(resp, [kind |-> "terminated", uri |-> None, val |-> None,
                             complete |-> FALSE])
    /\ UNCHANGED <<backVars, pc, setVars, due, cache, synced, tpc, syncDone,
                   outVars, sync, fatal, disposed, chan, w, spc, panic>>

(***************************************************************************)
(* Close: send meets the fatal message, or the client has gone; the queue  *)
(* is disposed of and then the channel closed.  Then w.Wait().             *)
(***************************************************************************)
SessionFatal ==
    /\ spc = "run"
    /\ fatal
    /\ spc' = "close"
    /\ disposed' = TRUE
    /\ UNCHANGED <<backVars, pc, setVars, due, cache, synced, subVars, outVars,
                   sync, fatal, chan, w, panic>>

SessionGone ==
    /\ spc = "run"
    /\ req.patient => sync \/ fatal
    /\ spc' = "close"
    /\ disposed' = TRUE
    /\ UNCHANGED <<backVars, pc, setVars, due, cache, synced, subVars, outVars,
                   sync, fatal, chan, w, panic>>

SessionClose ==
    /\ spc = "close"
    /\ spc' = "wait"
    /\ CloseChan
    /\ UNCHANGED <<backVars, pc, setVars, due, cache, synced, subVars, outVars,
                   sync, fatal, disposed, w>>

SessionReturn ==
    /\ spc = "wait"
    /\ w = {}
    /\ spc' = "done"
    /\ UNCHANGED <<backVars, pc, setVars, due, cache, synced, subVars, outVars,
                   sync, fatal, disposed, chan, w, panic>>

-----------------------------------------------------------------------------
Init ==
    /\ req \in Requests
    /\ val \in [Uris -> Vals]
    /\ writes = 0
    /\ pc = "sub"
    /\ next = 1
    /\ timers = {}
    /\ due = {}
    /\ cache = [u \in Uris |-> None]
    /\ synced = FALSE
    /\ tpc = "off"
    /\ syncDone = FALSE
    /\ resp = <<>>
    /\ sent = [u \in Uris |-> None]
    /\ puts = [u \in Uris |-> 0]
    /\ sync = FALSE
    /\ fatal = FALSE
    /\ disposed = FALSE
    /\ chan = "open"
    /\ w = {"run"}
    /\ spc = "run"
    /\ panic = "none"

Intervals ==
    UNION {UNION {{q.subs[n].every, q.subs[n].beat} : n \in DOMAIN q.subs} :
              q \in Requests}

Tick(e) == (\E x \in timers : x.every = e) /\ StreamTick(e)

Stream == \/ StreamFirst \/ StreamAdded \/ StreamSpawn \/ StreamSync
          \/ StreamStop \/ TickDone \/ \E e \in Intervals : Tick(e)
          \/ \E x \in due : TickServe(x)

Subscriber == \/ SubscribeStart \/ SubscribeData \/ SubscribeTerminated
              \/ SubscribeDisposed

Failing == StreamRefused \/ StreamReadError \/ SubscribeVersion \/ BackendFails

Session == SessionFatal \/ SessionClose \/ SessionReturn

Next == /\ panic = "none"
        /\ \/ Stream \/ Subscriber \/ Failing \/ Session \/ SessionGone
           \/ \E u \in SubUris, v \in Vals : BackendWrite(u, v)

(***************************************************************************)
(* The goroutines run when they can; every timer ticks, and of the cases   *)
(* that are ready the select takes each in its turn.                       *)
(***************************************************************************)
Fairness ==
    /\ WF_vars(panic = "none" /\ Stream)
    /\ WF_vars(panic = "none" /\ Subscriber)
    /\ WF_vars(panic = "none" /\ SubscribeDisposed)
    /\ WF_vars(panic = "none" /\ Session)
    /\ \A e \in Intervals : SF_vars(panic = "none" /\ Tick(e))
    /\ SF_vars(panic = "none" /\ StreamStop)

Spec == Init /\ [][Next]_vars

FairSpec == Spec /\ Fairness

-----------------------------------------------------------------------------
(* Properties *)

(***************************************************************************)
(* Every variable keeps its type.                                          *)
(***************************************************************************)
TypeOK ==
    /\ req \in Requests
    /\ val \in [Uris -> Vals]
    /\ writes \in Nat
    /\ pc \in {"sub", "added", "sync", "select", "tick", "done"}
    /\ next \in Nat
    /\ timers \subseteq Entries
    /\ due \subseteq timers
    /\ cache \in [Uris -> Vals \cup {None}]
    /\ synced \in BOOLEAN
    /\ tpc \in {"off", "start", "get", "done"}
    /\ syncDone \in BOOLEAN
    /\ resp \in Seq([kind : {"data", "terminated"}, uri : Uris \cup {None},
                     val : Vals \cup {None}, complete : BOOLEAN])
    /\ sent \in [Uris -> Vals \cup {None}]
    /\ puts \in [Uris -> {0, 1}]
    /\ sync \in BOOLEAN
    /\ fatal \in BOOLEAN
    /\ disposed \in BOOLEAN
    /\ chan \in {"open", "closed"}
    /\ w \subseteq {"run", "subscribe"}
    /\ spc \in {"run", "close", "wait", "done"}
    /\ panic \in {"none", "closeOfClosed"}

(***************************************************************************)
(* A sample is suppressed as redundant only if the client has that value:  *)
(* the value cache of a sampled path holds what was sent last.             *)
(***************************************************************************)
CacheIsSent ==
    ~disposed => \A n \in DOMAIN Subs :
        LET u == Subs[n].uri
        IN Subs[n].mode = "SAMPLE" => cache[u] = sent[u]

(***************************************************************************)
(* The sync_response follows the first value of every path, sampled or     *)
(* reported by translib.                                                   *)
(***************************************************************************)
SyncComplete ==
    (sync /\ ~req.updatesOnly) => \A u \in SubUris : sent[u] # None

(***************************************************************************)
(* The channel, which the session and TranslSubscribe both close, is       *)
(* closed once.                                                            *)
(***************************************************************************)
NoPanic == panic = "none"

Ended == spc # "run" \/ fatal

Reliable == req.fails = {}

(***************************************************************************)
(* Until the session ends, and while nothing fails, the sync_response is   *)
(* sent and the lasting value of every path reaches the client, although   *)
(* samples are suppressed.                                                 *)
(***************************************************************************)
Delivered ==
    Reliable => <>[](Ended \/ (sync /\ \A u \in SubUris : sent[u] = val[u]))

(***************************************************************************)
(* A path with a heartbeat is sent again and again, changed or not, until  *)
(* the session ends, while nothing fails.                                  *)
(***************************************************************************)
HeartbeatHeard ==
    \A u \in Uris, b \in {0, 1} :
        []<>(\/ Ended \/ ~Reliable
             \/ \A n \in DOMAIN Subs : Subs[n].uri = u => ~HasHeartbeat(Subs[n])
             \/ puts[u] = b)

(***************************************************************************)
(* Once Close has begun, StreamRun and TranslSubscribe return and so does  *)
(* Run, while nothing fails.                                               *)
(***************************************************************************)
RunReturns == (spc # "run") ~> (spc = "done" \/ ~Reliable)

(***************************************************************************)
(* A session gets its sync_response or ends, and Run returns, failures or  *)
(* not.  The code keeps neither promise: a read that fails ends StreamRun  *)
(* silently, and TranslSubscribe returns without its signal when the       *)
(* bundle version does not parse.                                          *)
(***************************************************************************)
SyncOrEndAlways == <>(sync \/ spc # "run")

RunReturnsAlways == (spc # "run") ~> (spc = "done")
=============================================================================
