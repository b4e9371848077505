----------------------------- MODULE FieldStream -----------------------------
(***************************************************************************)
(* One field subscription of the DB data client                            *)
(* (sonic_data_client/db_client.go): dbFieldSubscribe, for one field (not  *)
(* Virtual), and dbFieldMultiSubscribe, for a field of several keys that a *)
(* virtual path stands for.  Both read at every tick, one HGet after the   *)
(* other; ON_CHANGE, and updates-only sampling, leave out what equals the  *)
(* value remembered from before.                                           *)
(*                                                                         *)
(* What the client knows is the merge of the values put in its queue.      *)
(***************************************************************************)
EXTENDS Naturals

CONSTANTS Cells,       \* fields of redis
          Vals,        \* values of a field
          None,        \* no such field; not in a map
          Blank,       \* the empty string sent for a field that is missing or unread
          Subs,        \* subscriptions a client may make
          MaxWrites    \* bound: writes to redis and failures of HGet

\* cells: the fields read (table paths).  virtual: they belong to a virtual path
\* of several keys (jsonField set).  onChange: ON_CHANGE or SAMPLE.  updateOnly:
\* SAMPLE with only what changed.
Subscription == [cells : SUBSET Cells, virtual : BOOLEAN, onChange : BOOLEAN,
                 updateOnly : BOOLEAN]

ASSUME FieldAssumption ==
    /\ None \notin Vals /\ Blank \notin Vals /\ None # Blank
    /\ Subs \subseteq Subscription
    /\ \A s \in Subs : ~s.virtual => (\E c \in Cells : s.cells = {c}) /\ ~s.updateOnly
    /\ MaxWrites \in Nat

VARIABLES
    sub,       \* the subscription served
    db,        \* the fields in redis
    writes,    \* writes made and failures of HGet
    pc,        \* control point of the goroutine
    todo,      \* cells not yet read at this tick
    saved,     \* path2ValueMap, or val: the value a cell is compared with
    msi,       \* values read at this tick that are to be sent
    synced,    \* c.synced.Done() has been called
    sent,      \* what the client has been sent
    puts,      \* parity of the number of messages put
    disposed,  \* the queue has been disposed of
    closed     \* c.channel is closed

vars == <<sub, db, writes, pc, todo, saved, msi, synced, sent, puts, disposed,
          closed>>

Maps == [Cells -> Vals \cup {Blank, None}]

NoMap == [c \in Cells |-> None]

-----------------------------------------------------------------------------
(* Faulty variants of definitions below, for mutation testing. *)

SavedFirst(c, v) == IF saved[c] = None THEN v ELSE saved[c]  \* not updated
SkippedOnce(c, v) == saved[c] # None         \* a cell is sent once only
WorthSendingAlways == TRUE                  \* ON_CHANGE sends what is empty too
RefusedSyncNot == synced                    \* no Done when the first Put fails

-----------------------------------------------------------------------------
(***************************************************************************)
(* HGet of a cell, which may fail.  A missing field is the empty string,   *)
(* unless it was derived from a virtual path; one that could not be read   *)
(* is the empty string in any case.                                        *)
(***************************************************************************)
HGet(c) == {db[c]} \cup {v \in {Blank} : writes < MaxWrites}

ReadVal(v) == IF v = None THEN Blank ELSE v

Skipped(c, v) ==
    \/ sub.virtual /\ v = None
    \/ (sub.onChange \/ sub.updateOnly) /\ saved[c] # None /\ ReadVal(v) = saved[c]

Saved(c, v) == v

Read(c) ==
    /\ pc \in {"first", "tick"}
    /\ c \in todo
    /\ todo' = todo \ {c}
    /\ \E v \in HGet(c) :
         /\ writes' = IF v = Blank THEN writes + 1 ELSE writes
         /\ IF Skipped(c, v)
            THEN UNCHANGED <<saved, msi>>
            ELSE /\ saved' = [saved EXCEPT ![c] = Saved(c, ReadVal(v))]
                 /\ msi' = [msi EXCEPT ![c] = ReadVal(v)]
    /\ UNCHANGED <<sub, db, pc, synced, sent, puts, disposed, closed>>

(***************************************************************************)
(* sendVal: the first message always, later ones if there is something to  *)
(* send; then back to the select.  Sync is signalled after the first.      *)
(***************************************************************************)
WorthSending == pc = "first" \/ ~sub.onChange \/ msi # NoMap

Send ==
    /\ pc \in {"first", "tick"}
    /\ todo = {}
    /\ WorthSending => ~disposed
    /\ pc' = "loop"
    /\ synced' = TRUE
    /\ msi' = NoMap
    /\ IF WorthSending
       THEN /\ sent' = [c \in Cells |-> IF msi[c] = None THEN sent[c] ELSE msi[c]]
            /\ puts' = 1 - puts
       ELSE UNCHANGED <<sent, puts>>
    /\ UNCHANGED <<sub, db, writes, todo, saved, disposed, closed>>

(***************************************************************************)
(* The queue refuses the message: signal sync if that is due and return.   *)
(***************************************************************************)
RefusedSync == TRUE

Refused ==
    /\ pc \in {"first", "tick"}
    /\ todo = {}
    /\ WorthSending /\ disposed
    /\ pc' = "done"
    /\ synced' = RefusedSync
    /\ UNCHANGED <<sub, db, writes, todo, saved, msi, sent, puts, disposed,
                   closed>>

Tick ==
    /\ pc = "loop"
    /\ pc' = "tick"
    /\ todo' = sub.cells
    /\ UNCHANGED <<sub, db, writes, saved, msi, synced, sent, puts, disposed,
                   closed>>

Stop ==
    /\ pc = "loop"
    /\ closed
    /\ pc' = "done"
    /\ UNCHANGED <<sub, db, writes, todo, saved, msi, synced, sent, puts, disposed,
                   closed>>

-----------------------------------------------------------------------------
(* Redis, and the session: Close disposes of the queue, then closes.        *)

Write(c) ==
    /\ writes < MaxWrites
    /\ writes' = writes + 1
    /\ \E v \in Vals \cup {None} : db' = [db EXCEPT ![c] = v]
    /\ UNCHANGED <<sub, pc, todo, saved, msi, synced, sent, puts, disposed,
                   closed>>

SessionDispose ==
    /\ ~disposed
    /\ disposed' = TRUE
    /\ UNCHANGED <<sub, db, writes, pc, todo, saved, msi, synced, sent, puts,
                   closed>>

SessionClose ==
    /\ disposed
    /\ ~closed
    /\ closed' = TRUE
    /\ UNCHANGED <<sub, db, writes, pc, todo, saved, msi, synced, sent, puts,
                   disposed>>

-----------------------------------------------------------------------------
Init ==
    /\ sub \in Subs
    /\ db \in [Cells -> Vals \cup {None}]
    /\ writes = 0
    /\ pc = "first"
    /\ todo = sub.cells
    /\ saved = NoMap
    /\ msi = NoMap
    /\ synced = FALSE
    /\ sent = NoMap
    /\ puts = 0
    /\ disposed = FALSE
    /\ closed = FALSE

Subscriber == Send \/ Refused \/ Tick \/ Stop \/ \E c \in sub.cells : Read(c)

Next == \/ Subscriber \/ SessionDispose \/ SessionClose
        \/ \E c \in sub.cells : Write(c)

(***************************************************************************)
(* The goroutine runs and its timer ticks; of two ready cases its select   *)
(* takes each in its turn.                                                 *)
(***************************************************************************)
Fairness == WF_vars(Subscriber) /\ SF_vars(Stop) /\ WF_vars(SessionClose)

Spec == Init /\ [][Next]_vars

FairSpec == Spec /\ Fairness

-----------------------------------------------------------------------------
(* Properties *)

(***************************************************************************)
(* Every variable keeps its type.                                          *)
(***************************************************************************)
TypeOK ==
    /\ sub \in Subs
    /\ db \in [Cells -> Vals \cup {None}]
    /\ writes \in Nat
    /\ pc \in {"first", "tick", "loop", "done"}
    /\ todo \subseteq Cells
    /\ saved \in Maps
    /\ msi \in Maps
    /\ synced \in BOOLEAN
    /\ sent \in Maps
    /\ puts \in {0, 1}
    /\ disposed \in BOOLEAN
    /\ closed \in BOOLEAN

(***************************************************************************)
(* The value a later one is compared with is the value the client was sent *)
(* or is being sent: leaving out an equal value leaves out no news.        *)
(***************************************************************************)
SavedIsSent ==
    pc # "done" =>
        \A c \in Cells : saved[c] = IF msi[c] = None THEN sent[c] ELSE msi[c]

(***************************************************************************)
(* "For ON_CHANGE mode, it would send only if the value has changed since  *)
(* the last update": every message after the first changes what the client *)
(* knows.                                                                  *)
(***************************************************************************)
OnlyChanges ==
    [][(sub.onChange /\ pc # "first" /\ puts' # puts) => sent' # sent]_vars

(***************************************************************************)
(* Every field reaches the client with the value that lasts (a missing one *)
(* as the empty string, if it is not virtual), although an HGet that fails *)
(* puts the empty string in its place, or the session ends.                *)
(***************************************************************************)
Delivered ==
    <>[](disposed \/ \A c \in sub.cells :
                        ~(sub.virtual /\ db[c] = None) => sent[c] = ReadVal(db[c]))

(***************************************************************************)
(* The goroutine returns once the channel is closed and has then signalled *)
(* synced, for which StreamRun waits.                                      *)
(***************************************************************************)
ReturnsSynced == closed ~> (pc = "done" /\ synced)
=============================================================================
