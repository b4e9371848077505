----------------------------- MODULE TableStream -----------------------------
(***************************************************************************)
(* One table or table-key subscription of the DB data client               *)
(* (sonic_data_client/db_client.go): dbTableKeySubscribe, which subscribes *)
(* to redis keyspace notifications, reads and sends the data there is and  *)
(* then the changes, at once (ON_CHANGE) or at every tick (SAMPLE), and    *)
(* one dbSingleTableKeySubscribe goroutine, a listener, for each table     *)
(* path.                                                                   *)
(*                                                                         *)
(* A row is a redis hash; one that does not exist has no fields.  A msi,   *)
(* the map that becomes the JSON value of an update, is a function on the  *)
(* names it can have: a row's name stands for an object, a field's name    *)
(* for a value.  What the client knows is the merge of the values put in   *)
(* its queue.  Redis is external: it delivers notifications in order, and  *)
(* a listener reads the row as it is by then.                              *)
(***************************************************************************)
EXTENDS Naturals, Sequences

CONSTANTS Rows,        \* redis keys of the table
          Fields,      \* names of a row's fields
          Vals,        \* values of a field
          Contents,    \* what a row may hold
          Tables,      \* the table a subscription may find
          Table,       \* the table path of a subscription without a key
          None,        \* no such field; a name a map does not have
          Subs,        \* subscriptions a client may make
          MaxWrites,   \* bound, by shape: writes to the table
          MaxLost      \* bound, by shape: times a connection to redis is lost

\* shape: "key" for a path with a key, "named" for a virtual path with a JSON
\* name for each key, "table" for a path without a key.  rows: the keys it
\* stands for.  sampled: SAMPLE (interval > 0) or ON_CHANGE.  updateOnly: send
\* only what changed since the last message.
Subscription == [shape : {"key", "named", "table"}, rows : SUBSET Rows,
                 sampled : BOOLEAN, updateOnly : BOOLEAN]

\* What a row that does not exist holds; an object without fields
Empty == [f \in Fields |-> None]

\* A keyspace notification: the row and the command
Ops == {"hset", "hdel", "del", "other"}

Message == [row : Rows, op : Ops]

ASSUME TableAssumption ==
    /\ Subs \subseteq Subscription
    /\ \A s \in Subs : /\ s.shape = "key" => \E r \in Rows : s.rows = {r}
                       /\ s.shape = "table" => s.rows = Rows
                       /\ s.sampled \/ s.updateOnly
    /\ Fields \cap Rows = {} /\ Table \notin Rows
    /\ Contents \subseteq [Fields -> Vals \cup {None}]
    /\ Tables \subseteq [Rows -> Contents]
    /\ Empty \in Contents /\ None \notin Contents
    /\ {MaxWrites, MaxLost} \subseteq [{"key", "named", "table"} -> Nat]

VARIABLES
    sub,       \* the subscription served
    db,        \* the rows in redis
    writes,    \* writes made
    unseen,    \* history: rows last changed by a command the listeners ignore
    lost,      \* connections lost
    pubsub,    \* table paths with an open PSubscribe
    ntf,       \* notifications of a table path not yet received
    pc,        \* control point of dbTableKeySubscribe
    todo, cur, \* table paths still to be set up, the one being set up
    left,      \* rows still to be read for cur
    msiAll,    \* data to be sent
    synced,    \* c.synced.Done() has been called
    lpc,       \* control point of the listener of a table path
    lrow,      \* row the listener is about to read
    msi,       \* data the listener compares the next with
    newMsi,    \* data the listener passes on
    sent,      \* what the client has been sent
    fatal,     \* a fatal message has been put in the queue
    disposed,  \* the queue has been disposed of
    closed     \* c.channel is closed

redisVars == <<sub, db, writes, unseen>>
setupVars == <<todo, cur, left>>
lisVars   == <<lpc, lrow, msi, newMsi>>
endVars   == <<fatal, disposed, closed>>
vars == <<sub, db, writes, unseen, lost, pubsub, ntf, pc, todo, cur, left, msiAll,
          synced, lpc, lrow, msi, newMsi, sent, fatal, disposed, closed>>

AllPaths == Rows \cup {Table}

TblPaths == IF sub.shape = "table" THEN {Table} ELSE sub.rows

RowsOf(t) == IF t = Table THEN Rows ELSE {t}

JsonNames == Rows \cup Fields

Maps == [JsonNames -> Contents \cup Vals \cup {None}]

NoMap == [n \in JsonNames |-> None]

\* Merged(m, u): map m after every entry of u has been stored in it
Merged(m, u) == [n \in JsonNames |-> IF u[n] = None THEN m[n] ELSE u[n]]

-----------------------------------------------------------------------------
(* Faulty variants of definitions below, for mutation testing. *)

HeardLate == [t \in AllPaths |-> <<>>]      \* PSubscribe after the first read
ChangedOnce(t, new) == msi[t] = NoMap       \* only the first change passes
StopSeenNever == FALSE                      \* no case <-c.channel

-----------------------------------------------------------------------------
(***************************************************************************)
(* tableData2Msi and makeJSON_redis for one row: under the JSON name of a  *)
(* virtual path, under its key when the whole table is read, or, with      *)
(* alone, as the fields themselves.                                        *)
(***************************************************************************)
RowMsi(r, alone) ==
    IF alone /\ sub.shape # "named"
    THEN [n \in JsonNames |-> IF n \in Fields THEN db[r][n] ELSE None]
    ELSE [NoMap EXCEPT ![r] = db[r]]

(***************************************************************************)
(* The Put of sendMsiData in a queue that is not disposed of.              *)
(***************************************************************************)
SendMsi(m) == sent' = Merged(sent, m)

(***************************************************************************)
(* dbTableKeySubscribe returns: its PSubscribes are closed.                *)
(***************************************************************************)
Return == /\ pc' = "done"
          /\ pubsub' = {}

(***************************************************************************)
(* handleFatalMsg: a message for the client and signalSync.                *)
(***************************************************************************)
SignalSync == TRUE

HandleFatal == /\ fatal' = (fatal \/ ~disposed)
               /\ synced' = SignalSync

-----------------------------------------------------------------------------
(* dbTableKeySubscribe *)

MainSubscribe(t) ==
    /\ pc = "setup"
    /\ t \in todo
    /\ todo' = todo \ {t}
    /\ cur' = t
    /\ pubsub' = pubsub \cup {t}
    /\ pc' = "keys"
    /\ UNCHANGED <<redisVars, lost, ntf, left, msiAll, synced, lisVars, sent,
                   endVars>>

(***************************************************************************)
(* The keys to read: the path's own, whether there is such a row or not,   *)
(* or the keys of the table.                                               *)
(***************************************************************************)
MainKeys ==
    /\ pc = "keys"
    /\ left' = IF sub.shape = "table" THEN {r \in Rows : db[r] # Empty} ELSE {cur}
    /\ pc' = "read"
    /\ UNCHANGED <<redisVars, lost, pubsub, ntf, todo, cur, msiAll, synced,
                   lisVars, sent, endVars>>

MainRead(r) ==
    /\ pc = "read"
    /\ r \in left
    /\ left' = left \ {r}
    /\ msiAll' = Merged(msiAll, RowMsi(r, sub.shape # "table"))
    /\ UNCHANGED <<redisVars, lost, pubsub, ntf, pc, todo, cur, synced, lisVars,
                   sent, endVars>>

MainReadDone ==
    /\ pc = "read"
    /\ left = {}
    /\ pc' = IF todo = {} THEN "first" ELSE "setup"
    /\ UNCHANGED <<redisVars, lost, pubsub, ntf, setupVars, msiAll, synced,
                   lisVars, sent, endVars>>

(***************************************************************************)
(* PSubscribe, Keys or HGetAll fails.                                      *)
(***************************************************************************)
MainFatal ==
    /\ pc \in {"setup", "keys", "read"}
    /\ HandleFatal
    /\ Return
    /\ UNCHANGED <<redisVars, lost, ntf, setupVars, msiAll, lisVars, sent,
                   disposed, closed>>

(***************************************************************************)
(* Send all data there is, signal sync and start the listeners, which find *)
(* the notifications that came since PSubscribe.                           *)
(***************************************************************************)
Heard == ntf

MainFirst ==
    /\ pc = "first"
    /\ ~disposed
    /\ SendMsi(msiAll)
    /\ synced' = SignalSync
    /\ msiAll' = IF sub.updateOnly THEN NoMap ELSE msiAll
    /\ ntf' = Heard
    /\ lpc' = [t \in AllPaths |-> IF t \in TblPaths THEN "select" ELSE "off"]
    /\ pc' = "loop"
    /\ UNCHANGED <<redisVars, lost, pubsub, setupVars, lrow, msi, newMsi, endVars>>

(***************************************************************************)
(* A listener's data arrives on updateChannel, which has no buffer.        *)
(***************************************************************************)
Overall(t) == Merged(msiAll, newMsi[t])

MainUpdate(t) ==
    /\ pc = "loop"
    /\ lpc[t] = "push"
    /\ lpc' = [lpc EXCEPT ![t] = "select"]
    /\ sub.sampled \/ ~disposed
    /\ IF sub.sampled
       THEN msiAll' = Overall(t) /\ UNCHANGED sent
       ELSE SendMsi(newMsi[t]) /\ UNCHANGED msiAll
    /\ UNCHANGED <<redisVars, lost, pubsub, ntf, pc, setupVars, synced, lrow, msi,
                   newMsi, endVars>>

(***************************************************************************)
(* The interval ticks (SAMPLE).                                            *)
(***************************************************************************)
Ticked == Merged(sent, msiAll)

MainTick ==
    /\ pc = "loop"
    /\ sub.sampled
    /\ ~disposed
    /\ sent' = Ticked
    /\ msiAll' = IF sub.updateOnly THEN NoMap ELSE msiAll
    /\ UNCHANGED <<redisVars, lost, pubsub, ntf, pc, setupVars, synced, lisVars,
                   endVars>>

(***************************************************************************)
(* The queue refuses a message: fatal error and return.                    *)
(***************************************************************************)
MainRefused ==
    /\ disposed
    /\ \/ pc = "first" /\ UNCHANGED lpc
       \/ pc = "loop" /\ sub.sampled /\ UNCHANGED lpc
       \/ /\ pc = "loop" /\ ~sub.sampled
          /\ \E t \in TblPaths : /\ lpc[t] = "push"
                                 /\ lpc' = [lpc EXCEPT ![t] = "select"]
    /\ HandleFatal
    /\ Return
    /\ UNCHANGED <<redisVars, lost, ntf, setupVars, msiAll, lrow, msi, newMsi,
                   sent, disposed, closed>>

StopSeen == closed

MainStop ==
    /\ pc = "loop"
    /\ StopSeen
    /\ Return
    /\ UNCHANGED <<redisVars, lost, ntf, setupVars, msiAll, synced, lisVars, sent,
                   endVars>>

-----------------------------------------------------------------------------
(* dbSingleTableKeySubscribe *)

(***************************************************************************)
(* select with a default: return if the channel is closed, else receive.   *)
(***************************************************************************)
ListenSelect(t) ==
    /\ lpc[t] = "select"
    /\ lpc' = [lpc EXCEPT ![t] = IF closed THEN "exit" ELSE "recv"]
    /\ UNCHANGED <<redisVars, lost, pubsub, ntf, pc, setupVars, msiAll, synced,
                   lrow, msi, newMsi, sent, endVars>>

(***************************************************************************)
(* ReceiveTimeout without a message: back to the select.                   *)
(***************************************************************************)
ListenTimeout(t) ==
    /\ lpc[t] = "recv"
    /\ t \in pubsub
    /\ closed
    /\ lpc' = [lpc EXCEPT ![t] = "select"]
    /\ UNCHANGED <<redisVars, lost, pubsub, ntf, pc, setupVars, msiAll, synced,
                   lrow, msi, newMsi, sent, endVars>>

(***************************************************************************)
(* A notification.  A row that is set is read.  When a row of a table or a *)
(* field of it is deleted, the row is passed on as an empty object; for a  *)
(* path with a key nothing is.  Any other payload is ignored.              *)
(***************************************************************************)
ListenRecv(t) ==
    LET m == Head(ntf[t])
    IN
    /\ lpc[t] = "recv"
    /\ t \in pubsub
    /\ ntf[t] # <<>>
    /\ ntf' = [ntf EXCEPT ![t] = Tail(@)]
    /\ lrow' = [lrow EXCEPT ![t] = m.row]
    /\ IF m.op = "hset"
       THEN /\ lpc' = [lpc EXCEPT ![t] = "read"]
            /\ UNCHANGED newMsi
       ELSE IF m.op \in {"del", "hdel"} /\ t = Table
       THEN /\ lpc' = [lpc EXCEPT ![t] = "push"]
            /\ newMsi' = [newMsi EXCEPT ![t] = [NoMap EXCEPT ![m.row] = Empty]]
       ELSE /\ lpc' = [lpc EXCEPT ![t] = "select"]
            /\ newMsi' = [newMsi EXCEPT ![t] = NoMap]
    /\ UNCHANGED <<redisVars, lost, pubsub, pc, setupVars, msiAll, synced, msi,
                   sent, endVars>>

(***************************************************************************)
(* Read the row; go on only if it differs from the data before and is not  *)
(* empty.                                                                  *)
(***************************************************************************)
Changed(t, new) == new # msi[t]

ListenRead(t) ==
    LET new == RowMsi(lrow[t], TRUE)
    IN
    /\ lpc[t] = "read"
    /\ msi' = [msi EXCEPT ![t] = IF Changed(t, new) THEN new ELSE @]
    /\ newMsi' = [newMsi EXCEPT ![t] = new]
    /\ lpc' = [lpc EXCEPT ![t] = IF Changed(t, new) /\ new # NoMap THEN "push"
                                                                   ELSE "select"]
    /\ UNCHANGED <<redisVars, lost, pubsub, ntf, pc, setupVars, msiAll, synced,
                   lrow, sent, endVars>>

ListenFatal(t) ==
    /\ lpc[t] = "read"
    /\ lpc' = [lpc EXCEPT ![t] = "exit"]
    /\ fatal' = (fatal \/ ~disposed)
    /\ UNCHANGED <<redisVars, lost, pubsub, ntf, pc, setupVars, msiAll, synced,
                   lrow, msi, newMsi, sent, disposed, closed>>

(***************************************************************************)
(* ReceiveTimeout fails: the PSubscribe has been closed, or the connection *)
(* is lost.  The listener then blocks in <-c.channel.                      *)
(***************************************************************************)
ListenError(t) ==
    /\ lpc[t] = "recv"
    /\ \/ t \notin pubsub /\ UNCHANGED lost
       \/ t \in pubsub /\ lost < MaxLost[sub.shape] /\ lost' = lost + 1
    /\ lpc' = [lpc EXCEPT ![t] = "blocked"]
    /\ UNCHANGED <<redisVars, pubsub, ntf, pc, setupVars, msiAll, synced, lrow,
                   msi, newMsi, sent, endVars>>

ListenUnblock(t) ==
    /\ lpc[t] = "blocked"
    /\ closed
    /\ lpc' = [lpc EXCEPT ![t] = "select"]
    /\ UNCHANGED <<redisVars, lost, pubsub, ntf, pc, setupVars, msiAll, synced,
                   lrow, msi, newMsi, sent, endVars>>

-----------------------------------------------------------------------------
(* Redis and the session that owns the queue and the channel *)

(***************************************************************************)
(* A command changes a row; a notification with the name of the command    *)
(* goes to every PSubscribe whose pattern matches.                         *)
(***************************************************************************)
Notify(r, ops) ==
    ntf' = [t \in AllPaths |->
               IF t \in pubsub /\ r \in RowsOf(t)
               THEN ntf[t] \o [x \in DOMAIN ops |-> [row |-> r, op |-> ops[x]]]
               ELSE ntf[t]]

Write(r, c, ops) ==
    /\ writes < MaxWrites[sub.shape]
    /\ writes' = writes + 1
    /\ db' = [db EXCEPT ![r] = c]
    /\ sub' = sub
    /\ Notify(r, ops)
    /\ UNCHANGED <<lost, pubsub, pc, setupVars, msiAll, synced, lisVars, sent,
                   endVars>>

\* HSET or HMSET: new values for some fields
RedisSet(r, c) ==
    /\ c # Empty
    /\ \A f \in Fields : db[r][f] # None => c[f] # None
    /\ Write(r, c, <<"hset">>)
    /\ unseen' = unseen \ {r}

\* HDEL of some fields of several
RedisHdel(r, c) ==
    /\ c \notin {Empty, db[r]}
    /\ \A f \in Fields : c[f] \in {db[r][f], None}
    /\ Write(r, c, <<"hdel">>)
    /\ unseen' = unseen

\* HDEL of all fields, which deletes the row, or DEL
RedisDel(r) ==
    /\ db[r] # Empty
    /\ \E ops \in {<<"hdel", "del">>, <<"del">>} : Write(r, Empty, ops)
    /\ unseen' = unseen \ {r}

\* Another command or event (HINCRBY, RENAME, expiry)
RedisOther(r, c) ==
    /\ c # db[r]
    /\ Write(r, c, <<"other">>)
    /\ unseen' = unseen \cup {r}

(***************************************************************************)
(* Client.Close of the session disposes of the queue and then closes the   *)
(* channel.                                                                *)
(***************************************************************************)
SessionDispose ==
    /\ ~disposed
    /\ disposed' = TRUE
    /\ UNCHANGED <<redisVars, lost, pubsub, ntf, pc, setupVars, msiAll, synced,
                   lisVars, sent, fatal, closed>>

SessionClose ==
    /\ disposed
    /\ ~closed
    /\ closed' = TRUE
    /\ UNCHANGED <<redisVars, lost, pubsub, ntf, pc, setupVars, msiAll, synced,
                   lisVars, sent, fatal, disposed>>

-----------------------------------------------------------------------------
Init ==
    /\ sub \in Subs
    /\ db \in {d \in Tables : \E r \in sub.rows : d[r] # Empty}
    /\ writes = 0
    /\ unseen = {}
    /\ lost = 0
    /\ pubsub = {}
    /\ ntf = [t \in AllPaths |-> <<>>]
    /\ pc = "setup"
    /\ todo = TblPaths
    /\ cur = Table
    /\ left = {}
    /\ msiAll = NoMap
    /\ synced = FALSE
    /\ lpc = [t \in AllPaths |-> "off"]
    /\ lrow = [t \in AllPaths |-> t]
    /\ msi = [t \in AllPaths |-> NoMap]
    /\ newMsi = [t \in AllPaths |-> NoMap]
    /\ sent = NoMap
    /\ fatal = FALSE
    /\ disposed = FALSE
    /\ closed = FALSE

Main == \/ MainKeys \/ MainReadDone \/ MainFirst \/ MainTick \/ MainRefused
        \/ MainStop
        \/ \E t \in TblPaths : MainSubscribe(t) \/ MainUpdate(t)
        \/ \E r \in Rows : MainRead(r)

Listener(t) == \/ ListenSelect(t) \/ ListenTimeout(t) \/ ListenRecv(t)
               \/ ListenRead(t) \/ ListenUnblock(t)
               \/ t \notin pubsub /\ ListenError(t)

Failure == MainFatal \/ \E t \in TblPaths : ListenFatal(t) \/ ListenError(t)

Redis == \E r \in sub.rows :
            \/ RedisDel(r)
            \/ \E c \in Contents : RedisSet(r, c) \/ RedisHdel(r, c) \/ RedisOther(r, c)

Session == SessionDispose \/ SessionClose

Next == Main \/ Failure \/ Redis \/ Session \/ \E t \in TblPaths : Listener(t)

(***************************************************************************)
(* The goroutines run when they can, each arm of a select in its turn; the *)
(* session closes the channel after it has disposed of the queue.  Nothing *)
(* obliges redis to change or to fail.                                     *)
(***************************************************************************)
Fairness ==
    /\ WF_vars(Main)
    /\ WF_vars(MainTick)
    /\ WF_vars(MainStop)
    /\ \A t \in AllPaths : WF_vars(Listener(t)) /\ WF_vars(MainUpdate(t))
    /\ WF_vars(SessionClose)

Spec == Init /\ [][Next]_vars

FairSpec == Spec /\ Fairness

-----------------------------------------------------------------------------
(* Properties *)

(***************************************************************************)
(* Every variable keeps its type.                                          *)
(***************************************************************************)
TypeOK ==
    /\ sub \in Subs
    /\ db \in [Rows -> Contents]
    /\ writes \in Nat
    /\ unseen \subseteq Rows
    /\ lost \in Nat
    /\ pubsub \subseteq TblPaths
    /\ ntf \in [AllPaths -> Seq(Message)]
    /\ pc \in {"setup", "keys", "read", "first", "loop", "done"}
    /\ todo \subseteq TblPaths
    /\ cur \in AllPaths
    /\ left \subseteq Rows
    /\ msiAll \in Maps
    /\ synced \in BOOLEAN
    /\ lpc \in [AllPaths -> {"off", "select", "recv", "read", "push", "blocked",
                             "exit"}]
    /\ lrow \in [AllPaths -> AllPaths]
    /\ msi \in [AllPaths -> Maps]
    /\ newMsi \in [AllPaths -> Maps]
    /\ sent \in Maps
    /\ fatal \in BOOLEAN
    /\ disposed \in BOOLEAN
    /\ closed \in BOOLEAN

\* The value of a field of a row in map m; a table's rows are under their keys
FieldIn(m, r, f) ==
    IF sub.shape = "key" THEN m[f] ELSE IF m[r] = None THEN None ELSE m[r][f]

ValuesIn(m, rs) ==
    \A r \in rs, f \in Fields : db[r][f] # None => FieldIn(m, r, f) = db[r][f]

\* Nothing is on its way from redis to dbTableKeySubscribe
Quiet ==
    /\ pc = "loop"
    /\ \A t \in TblPaths : lpc[t] \in {"select", "recv"} /\ ntf[t] = <<>>

Ended == disposed \/ fatal

(***************************************************************************)
(* "First send all data on the requested path, then stream data upon any   *)
(* change": once no notification is on its way, what the client was sent,  *)
(* with what the next tick will send, holds the value of every field there *)
(* is, whatever was written between PSubscribe, the first read and the     *)
(* start of the listeners, and although a listener skips data that equals  *)
(* its last.  Excepted are rows last changed by a command whose            *)
(* notifications are ignored, and fields that are gone, which may still be *)
(* shown.  A subscription to a table sends a change without the name of    *)
(* its row, so that its values do not converge; but a deleted row is shown *)
(* to the client as an empty object, and no earlier value of it reappears. *)
(***************************************************************************)
ValuesKnown(rs) == ValuesIn(Merged(sent, msiAll), rs)

DeletionsKnown(rs) ==
    \A r \in rs : db[r] = Empty => Merged(sent, msiAll)[r] \in {None, Empty}

Converged ==
    (Quiet /\ ~Ended) => IF sub.shape = "table" THEN DeletionsKnown(Rows \ unseen)
                                                ELSE ValuesKnown(sub.rows \ unseen)

(***************************************************************************)
(* The exceptions: fields that are gone are gone for the client too (a     *)
(* listener ignores "del" and "hdel" of its key); the values are known     *)
(* whatever command changed them (a listener ignores other payloads); and  *)
(* the values of a table are.                                              *)
(***************************************************************************)
RemovalsKnown ==
    (Quiet /\ ~Ended /\ sub.shape # "table") =>
        \A r \in sub.rows, f \in Fields :
            db[r][f] = None => FieldIn(Merged(sent, msiAll), r, f) = None

ConvergedAnyway == (Quiet /\ ~Ended /\ sub.shape # "table") => ValuesKnown(sub.rows)

TableConverged == (Quiet /\ ~Ended /\ sub.shape = "table") => ValuesKnown(Rows \ unseen)

(***************************************************************************)
(* The value of every field of the rows of a path with keys reaches the    *)
(* client and stays, or the session ends; rows last changed by a command   *)
(* the listeners ignore are excepted.                                      *)
(***************************************************************************)
Delivered == <>[](Ended \/ sub.shape = "table" \/ ValuesIn(sent, sub.rows \ unseen))

(***************************************************************************)
(* Once the session has closed the channel, dbTableKeySubscribe returns,   *)
(* from its set-up as from its loop, for which Run waits; and it has       *)
(* signalled synced by then, for which StreamRun waits without a limit.    *)
(***************************************************************************)
SubscribeReturns == closed ~> (pc = "done" /\ synced)

(***************************************************************************)
(* Once the session has closed the channel, the listeners return too.      *)
(***************************************************************************)
ListenersExit == closed ~> (\A t \in TblPaths : lpc[t] \in {"off", "exit"})
=============================================================================
