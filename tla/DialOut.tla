------------------------------- MODULE DialOut -------------------------------
(***************************************************************************)
(* The dial-out client (dialout/dialout_client/dialout_client.go): the     *)
(* routine that follows the TELEMETRY_CLIENT table of CONFIG_DB, the maps  *)
(* of destination groups and client subscriptions it keeps, and the        *)
(* publishRun goroutines that it starts and stops.                         *)
(*                                                                         *)
(* A clientSubscription struct is an instance, numbered as it is made;     *)
(* NewInstance is called once on each, so an instance also names its       *)
(* publishRun goroutine, its context and its connection.  Its queue is     *)
(* made with its stop channel and disposed of when that is closed, so the  *)
(* channel stands for both.  A copied struct shares the channel and the    *)
(* connection of the original and keeps the original's cancel function.    *)
(* Configuration and notifications are external: redis hands out           *)
(* notifications in order, and the handler reads the row as it is by then, *)
(* unless the read fails.  The data that is published is external too: a   *)
(* Periodic report may find it unreadable, a Stream is told of changes.    *)
(***************************************************************************)
EXTENDS Naturals, Sequences, FiniteSets

CONSTANTS Names,       \* client subscriptions
          Groups,      \* destination groups
          Global,      \* the key of the global configuration
          Dests,       \* destinations
          NoGroup,     \* dst_group is not set
          GroupRows,   \* contents that group rows are given
          SubRows,     \* contents that subscription rows are given
          FirstDb,     \* the table at the start
          Written,     \* keys written after the start
          MaxChanges,  \* bound: writes to the table
          MaxFlaps,    \* bound: changes of a destination's or the data's state
          MaxInst,     \* bound: clientSubscription structs
          Paced        \* whether writes wait until the last one is processed

RowKeys == Names \cup Groups
Keys    == RowKeys \cup {Global}
Inst    == 1..MaxInst
Chans   == 1..(MaxInst + 1)
Types   == {"periodic", "stream", "other"}

(***************************************************************************)
(* The fields of a row that the handler reads: dst_addr of a destination   *)
(* group; dst_group and report_type of a subscription, with dcok for a     *)
(* target and paths that a data client can be set up for.  A row with a    *)
(* field that is unknown or does not parse is not valid.  The row of a key *)
(* that does not exist has no field.                                       *)
(***************************************************************************)
Row == [valid : BOOLEAN, addrs : Seq(Dests), grp : Groups \cup {NoGroup},
        type : Types, dcok : BOOLEAN]

NoRow == [valid |-> TRUE, addrs |-> <<>>, grp |-> NoGroup, type |-> "other",
          dcok |-> FALSE]

BadRow == [NoRow EXCEPT !.valid = FALSE]

ASSUME DialOutAssumption ==
    /\ IsFiniteSet(RowKeys)
    /\ Names \cap Groups = {}
    /\ Global \notin RowKeys
    /\ NoGroup \notin Groups
    /\ \A r \in GroupRows : r \in Row /\ r.addrs # <<>>
    /\ \A r \in SubRows : r \in Row
    /\ Names # {}
    /\ Written \subseteq Keys
    /\ FirstDb \in [RowKeys -> Row]
    /\ MaxChanges \in Nat /\ MaxFlaps \in Nat /\ MaxInst \in Nat \ {0}
    /\ Paced \in BOOLEAN

VARIABLES
    db,        \* rows of the TELEMETRY_CLIENT table
    ntf,       \* notifications not yet received
    changes,   \* writes made to the table
    up,        \* destinations that accept and keep connections
    unread,    \* subscriptions whose data cannot be read (dc.Get fails)
    flaps,     \* changes made to up and unread
    lost,      \* keys whose last notification was dropped, a history variable
    panic,     \* the run-time panic that ended the process, or "none"
    known,     \* keys of destGrpNameMap
    dest,      \* values of destGrpNameMap
    used,      \* keys of DestGrp2ClientSubMap
    users,     \* values of DestGrp2ClientSubMap
    subs,      \* ClientSubscriptionNameMap: name -> instance, 0 if none
    h,         \* the handler, processTelemetryClientConfig
    made,      \* instances made so far
    name, cfg, \* an instance's name and configuration
    opened, stop, client,   \* its fields opened, stop and client
    ctx,       \* the context of its publishRun: its own, or 0
    cancel,    \* its field cancel: the instance whose context it cancels
    stale,     \* goroutines its field w counts that report to another struct
    feeder,    \* its StreamRun goroutine is running, counted in w
    queued,    \* its queue holds a value that send has not taken
    pc,        \* control point of its publishRun
    dests, idx, cur, \* publishRun's dests, destIdx and dest (an index)
    linked,    \* the connection its publishRun made last carries messages
    closed,    \* channels that have been closed
    cancelled  \* instances whose context has been cancelled

extVars == <<db, ntf, changes, up, unread, flaps, lost>>
mapVars == <<known, dest, used, users, subs>>
newVars == <<made, name, cfg, ctx, cancel, stale, dests>>
csVars  == <<opened, stop, client, linked, closed>>
runVars == <<feeder, queued, pc, idx, cur>>
vars == <<db, ntf, changes, up, unread, flaps, lost, panic, known, dest, used,
          users, subs, h, made, name, cfg, opened, stop, client, ctx, cancel, stale,
          feeder, queued, pc, dests, idx, cur, linked, closed, cancelled>>

IdleHandler == [pc |-> "idle", key |-> Global, op |-> "hset", row |-> NoRow,
                names |-> {}, cs |-> 0, groups |-> {}, grp |-> NoGroup]

-----------------------------------------------------------------------------
(***************************************************************************)
(* Faulty variants of definitions below, for mutation testing.             *)
(***************************************************************************)
NeedsCloseAlways(i) == TRUE        \* Close does not look at opened
CancelsNot == cancelled            \* cs.Close() without cs.cancel()
StoredDestsOld(g) == dest          \* setup before destGrpNameMap is updated
UserRemovedNot(g, n) == users      \* a deleted subscription stays in the list
DialAbortedNever(i) == FALSE       \* no look at ctx.Done() after newClient
NextDestSame(i) == idx[i]          \* destIdx is not advanced

-----------------------------------------------------------------------------
(***************************************************************************)
(* The configuration table and the collectors (external).                  *)
(***************************************************************************)
Quiet == h.pc = "idle" /\ ntf = <<>>

ConfigChange(k, r, op) ==
    /\ changes < MaxChanges
    /\ Paced => Quiet
    /\ changes' = changes + 1
    /\ db' = IF k = Global THEN db ELSE [db EXCEPT ![k] = r]
    /\ ntf' = Append(ntf, [key |-> k, op |-> op])
    /\ UNCHANGED <<up, unread, flaps, lost, panic, mapVars, h, newVars, csVars,
                   runVars, cancelled>>

ConfigSet(k) ==
    \E r \in {BadRow} \cup (IF k \in Groups THEN GroupRows ELSE SubRows) :
        ConfigChange(k, r, "hset")

ConfigDel(k) ==
    /\ k # Global => db[k] # NoRow
    /\ ConfigChange(k, NoRow, "hdel")

(***************************************************************************)
(* A collector goes down, and with it the streams to it, or comes up.      *)
(***************************************************************************)
DestChange(d) ==
    /\ flaps < MaxFlaps
    /\ flaps' = flaps + 1
    /\ up' = IF d \in up THEN up \ {d} ELSE up \cup {d}
    /\ linked' = [i \in Inst |-> linked[i] /\ dests[i][cur[i]] \in up']
    /\ UNCHANGED <<db, ntf, changes, unread, lost, panic, mapVars, h, newVars,
                   opened, stop, client, closed, runVars, cancelled>>

(***************************************************************************)
(* The data of a subscription can no longer be read, or can be again.      *)
(***************************************************************************)
DataChange(n) ==
    /\ flaps < MaxFlaps
    /\ flaps' = flaps + 1
    /\ unread' = IF n \in unread THEN unread \ {n} ELSE unread \cup {n}
    /\ UNCHANGED <<db, ntf, changes, up, lost, panic, mapVars, h, newVars, csVars,
                   runVars, cancelled>>

-----------------------------------------------------------------------------
(***************************************************************************)
(* clientSubscription.Close, where L is the state of the connections: the  *)
(* first Close after an opening closes the channel and the client.         *)
(***************************************************************************)
NeedsClose(i) == opened[i]

Close(i, L) ==
    IF NeedsClose(i)
    THEN /\ opened' = [opened EXCEPT ![i] = FALSE]
         /\ closed' = IF stop[i] = 0 THEN closed ELSE closed \cup {stop[i]}
         /\ panic' = IF stop[i] \in closed THEN "closeOfClosed" ELSE panic
         /\ linked' = IF client[i] = 0 THEN L ELSE [L EXCEPT ![client[i]] = FALSE]
    ELSE linked' = L /\ UNCHANGED <<opened, closed, panic>>

CtxDone(i) == ctx[i] \in cancelled

(***************************************************************************)
(* A channel nobody refers to: what make(chan struct{}, 1) returns.        *)
(***************************************************************************)
FreshChan == CHOOSE c \in Chans : \A i \in Inst : stop[i] # c

(***************************************************************************)
(* NewInstance on struct j with configuration c, which sees destGrpNameMap *)
(* as it is and starts publishRun unless the group does not exist or the   *)
(* data client cannot be set up.                                           *)
(***************************************************************************)
NewInstance(j, c) ==
    /\ pc' = [pc EXCEPT ![j] = IF c.grp \in known /\ c.dcok THEN "restart"
                                                            ELSE "none"]
    /\ dests' = [dests EXCEPT ![j] = IF c.grp \in known THEN dest[c.grp] ELSE <<>>]
    /\ idx' = [idx EXCEPT ![j] = 0]
    /\ cur' = [cur EXCEPT ![j] = 0]
    /\ UNCHANGED <<feeder, queued>>

-----------------------------------------------------------------------------
(* processTelemetryClientConfig and DialOutRun *)

(***************************************************************************)
(* DialOutRun takes the next key; the handler reads its row and makes a    *)
(* new context.  A change of a group goes to the subscriptions using it, a *)
(* change of a subscription to the running one; Global goes to all groups  *)
(* and cannot be deleted.                                                  *)
(***************************************************************************)
HandlerStart ==
    /\ h.pc = "idle"
    /\ ntf # <<>>
    /\ LET k == Head(ntf).key
           op == Head(ntf).op
       IN h' = IF k = Global
               THEN IF op = "hdel" THEN IdleHandler
                    ELSE [IdleHandler EXCEPT !.pc = "groups", !.groups = known]
               ELSE [pc |-> "close", key |-> k, op |-> op, row |-> db[k],
                     names |-> IF k \in Groups THEN users[k]
                               ELSE {n \in {k} : subs[n] # 0},
                     cs |-> 0, groups |-> {}, grp |-> IF k \in Groups THEN k ELSE NoGroup]
    /\ ntf' = Tail(ntf)
    /\ lost' = lost \ {Head(ntf).key}
    /\ UNCHANGED <<db, changes, up, unread, flaps, panic, mapVars, newVars, csVars,
                   runVars, cancelled>>

(***************************************************************************)
(* HGetAll fails: the handler returns before it has closed anything, and   *)
(* DialOutRun goes on with the next notification.                          *)
(***************************************************************************)
HandlerLost ==
    /\ h.pc = "idle"
    /\ ntf # <<>>
    /\ ntf' = Tail(ntf)
    /\ lost' = lost \cup {Head(ntf).key}
    /\ UNCHANGED <<db, changes, up, unread, flaps, panic, mapVars, h, newVars,
                   csVars, runVars, cancelled>>

(***************************************************************************)
(* Global: the next destination group, until none is left.                 *)
(***************************************************************************)
HandlerGroup ==
    /\ h.pc = "groups"
    /\ IF h.groups = {}
       THEN h' = IdleHandler
       ELSE \E g \in h.groups :
               h' = [h EXCEPT !.pc = "close", !.groups = @ \ {g}, !.grp = g,
                              !.names = users[g]]
    /\ UNCHANGED <<extVars, panic, mapVars, newVars, csVars, runVars, cancelled>>

(***************************************************************************)
(* cs.Close() and then cs.cancel() for one subscription after the other; a *)
(* name that is not in ClientSubscriptionNameMap is a nil pointer.         *)
(***************************************************************************)
HandlerClose(n) ==
    /\ h.pc = "close"
    /\ n \in h.names
    /\ IF subs[n] = 0
       THEN panic' = "nilPointer" /\ UNCHANGED <<h, opened, closed, linked>>
       ELSE /\ Close(subs[n], linked)
            /\ h' = [h EXCEPT !.pc = "cancel", !.names = @ \ {n}, !.cs = subs[n]]
    /\ UNCHANGED <<extVars, mapVars, newVars, stop, client, runVars, cancelled>>

Cancels == cancelled \cup {cancel[h.cs]}

HandlerCancel ==
    /\ h.pc = "cancel"
    /\ cancelled' = Cancels
    /\ h' = [h EXCEPT !.pc = "close", !.cs = 0]
    /\ UNCHANGED <<extVars, panic, mapVars, newVars, csVars, runVars>>

(***************************************************************************)
(* All are closed.  Deleting a group that has ever been used is refused;   *)
(* another group is forgotten.  A group that is set is stored, unless a    *)
(* field is in error, and its users are set up again; a row deleted since  *)
(* the notification is a group without destinations.                       *)
(***************************************************************************)
HandlerGroupDel ==
    /\ h.pc = "close" /\ h.names = {}
    /\ h.key \in Groups /\ h.op = "hdel"
    /\ known' = IF h.grp \in used THEN known ELSE known \ {h.grp}
    /\ h' = IdleHandler
    /\ UNCHANGED <<extVars, panic, dest, used, users, subs, newVars, csVars,
                   runVars, cancelled>>

StoredDests(g) == [dest EXCEPT ![g] = h.row.addrs]

HandlerGroupSet ==
    /\ h.pc = "close" /\ h.names = {}
    /\ h.key \in Groups /\ h.op = "hset"
    /\ IF h.row.valid
       THEN /\ known' = known \cup {h.grp}
            /\ dest' = StoredDests(h.grp)
            /\ h' = [h EXCEPT !.pc = "setup", !.names = users[h.grp]]
       ELSE h' = IdleHandler /\ UNCHANGED <<known, dest>>
    /\ UNCHANGED <<extVars, panic, used, users, subs, newVars, csVars, runVars,
                   cancelled>>

HandlerGlobalSet ==
    /\ h.pc = "close" /\ h.names = {}
    /\ h.key = Global
    /\ h' = [h EXCEPT !.pc = "setup", !.names = users[h.grp]]
    /\ UNCHANGED <<extVars, panic, mapVars, newVars, csVars, runVars, cancelled>>

(***************************************************************************)
(* setupDestGroupClients for one user of the group: a copy of the struct   *)
(* replaces it.  The copy takes over opened, stop, client, cancel and the  *)
(* count of w; its publishRun gets the context of this handler call, whose *)
(* cancel function is kept nowhere.                                        *)
(***************************************************************************)
CopiedCancel(i) == cancel[i]

HandlerSetup(n) ==
    LET i == subs[n]
        j == made + 1
    IN
    /\ h.pc = "setup"
    /\ n \in h.names
    /\ made < MaxInst
    /\ made' = j
    /\ name' = [name EXCEPT ![j] = n]
    /\ cfg' = [cfg EXCEPT ![j] = cfg[i]]
    /\ opened' = [opened EXCEPT ![j] = opened[i]]
    /\ stop' = [stop EXCEPT ![j] = stop[i]]
    /\ client' = [client EXCEPT ![j] = client[i]]
    /\ cancel' = [cancel EXCEPT ![j] = CopiedCancel(i)]
    /\ ctx' = [ctx EXCEPT ![j] = 0]
    /\ stale' = [stale EXCEPT ![j] = stale[i] + (IF feeder[i] THEN 1 ELSE 0)]
    /\ NewInstance(j, cfg[i])
    /\ subs' = [subs EXCEPT ![n] = j]
    /\ h' = [h EXCEPT !.names = @ \ {n}]
    /\ UNCHANGED <<extVars, panic, known, dest, used, users, linked, closed,
                   cancelled>>

HandlerSetupDone ==
    /\ h.pc = "setup" /\ h.names = {}
    /\ h' = IF h.key = Global THEN [h EXCEPT !.pc = "groups"] ELSE IdleHandler
    /\ UNCHANGED <<extVars, panic, mapVars, newVars, csVars, runVars, cancelled>>

(***************************************************************************)
(* A subscription is deleted from the list of its group, whose key stays,  *)
(* and from the map; an unknown subscription is a nil pointer.             *)
(***************************************************************************)
UserRemoved(g, n) == [users EXCEPT ![g] = @ \ {n}]

HandlerSubDel ==
    LET n == h.key
    IN
    /\ h.pc = "close" /\ h.names = {}
    /\ n \in Names /\ h.op = "hdel"
    /\ IF subs[n] = 0
       THEN panic' = "nilPointer" /\ UNCHANGED <<h, used, users, subs>>
       ELSE LET g == cfg[subs[n]].grp
            IN /\ used' = used \cup {g}
               /\ users' = UserRemoved(g, n)
               /\ subs' = [subs EXCEPT ![n] = 0]
               /\ h' = IdleHandler
               /\ UNCHANGED panic
    /\ UNCHANGED <<extVars, known, dest, newVars, csVars, runVars, cancelled>>

(***************************************************************************)
(* A subscription is set: nothing more on a field in error or without a    *)
(* destination group (also when the row is gone by now), otherwise a new   *)
(* struct with this call's context enters the maps and is started.         *)
(***************************************************************************)
HandlerSubIgnored ==
    /\ h.pc = "close" /\ h.names = {}
    /\ h.key \in Names /\ h.op = "hset"
    /\ ~h.row.valid \/ h.row.grp = NoGroup
    /\ h' = IdleHandler
    /\ UNCHANGED <<extVars, panic, mapVars, newVars, csVars, runVars, cancelled>>

HandlerSubSet ==
    LET n == h.key
        j == made + 1
    IN
    /\ h.pc = "close" /\ h.names = {}
    /\ n \in Names /\ h.op = "hset"
    /\ h.row.valid /\ h.row.grp # NoGroup
    /\ made < MaxInst
    /\ made' = j
    /\ name' = [name EXCEPT ![j] = n]
    /\ cfg' = [cfg EXCEPT ![j] = h.row]
    /\ ctx' = [ctx EXCEPT ![j] = j]
    /\ cancel' = [cancel EXCEPT ![j] = j]
    /\ used' = used \cup {h.row.grp}
    /\ users' = [users EXCEPT ![h.row.grp] = @ \cup {n}]
    /\ subs' = [subs EXCEPT ![n] = j]
    /\ NewInstance(j, h.row)
    /\ h' = IdleHandler
    /\ UNCHANGED <<extVars, panic, known, dest, stale, csVars, cancelled>>

-----------------------------------------------------------------------------
(* publishRun *)

(***************************************************************************)
(* restart: make the channel and the queue, mark the struct opened, forget *)
(* the client, take the next destination of the group.                     *)
(***************************************************************************)
NextDest(i) == (idx[i] + 1) % Len(dests[i])

PubRestart(i) ==
    /\ pc[i] = "restart"
    /\ stop' = [stop EXCEPT ![i] = FreshChan]
    /\ closed' = closed \ {FreshChan}
    /\ opened' = [opened EXCEPT ![i] = TRUE]
    /\ client' = [client EXCEPT ![i] = 0]
    /\ IF dests[i] = <<>>
       THEN panic' = "indexOutOfRange" /\ UNCHANGED <<pc, cur, idx>>
       ELSE /\ cur' = [cur EXCEPT ![i] = idx[i] + 1]
            /\ idx' = [idx EXCEPT ![i] = NextDest(i)]
            /\ pc' = [pc EXCEPT ![i] = "dial"]
            /\ UNCHANGED panic
    /\ UNCHANGED <<extVars, mapVars, h, newVars, feeder, queued, linked, cancelled>>

DestUp(i) == dests[i][cur[i]] \in up

(***************************************************************************)
(* newClient: connected, timed out or cancelled.  With the context done    *)
(* publishRun closes its struct and returns, on an error it restarts.      *)
(* A struct copied from i that held i's previous connection holds a closed *)
(* one by now, which is like none.                                         *)
(***************************************************************************)
DialAborted(i) == CtxDone(i)

PubDial(i) ==
    /\ pc[i] = "dial"
    /\ \E ok \in {DestUp(i)} \cup (IF CtxDone(i) THEN {FALSE} ELSE {}) :
          /\ client' = [k \in Inst |-> IF client[k] = i THEN 0 ELSE client[k]]
          /\ IF DialAborted(i)
             THEN /\ Close(i, [linked EXCEPT ![i] = ok])
                  /\ pc' = [pc EXCEPT ![i] = "done"]
             ELSE /\ linked' = [linked EXCEPT ![i] = ok]
                  /\ pc' = [pc EXCEPT ![i] = IF ok THEN "publish" ELSE "restart"]
                  /\ UNCHANGED <<opened, closed, panic>>
    /\ UNCHANGED <<extVars, mapVars, h, newVars, stop, feeder, queued, idx, cur,
                   cancelled>>

(***************************************************************************)
(* The Publish RPC, on a connection that gRPC has made again if need be:   *)
(* on success the struct gets its client and, by report type, the loop     *)
(* begins; on an error both are closed and it restarts.                    *)
(***************************************************************************)
PubPublish(i) ==
    /\ pc[i] = "publish"
    /\ IF DestUp(i) /\ ~CtxDone(i)
       THEN /\ client' = [client EXCEPT ![i] = i]
            /\ pc' = [pc EXCEPT ![i] = IF cfg[i].type = "other" THEN "done"
                                                                ELSE "loop"]
            /\ linked' = [linked EXCEPT ![i] = TRUE]
            /\ UNCHANGED <<opened, closed, panic>>
       ELSE /\ Close(i, [linked EXCEPT ![i] = FALSE])
            /\ pc' = [pc EXCEPT ![i] = "restart"]
            /\ UNCHANGED client
    /\ UNCHANGED <<extVars, mapVars, h, newVars, stop, feeder, queued, idx, cur,
                   cancelled>>

(***************************************************************************)
(* select with a default: the stop channel if it is closed, otherwise one  *)
(* report (Periodic) or the StreamRun goroutine and send (Stream).         *)
(***************************************************************************)
PubSelect(i) ==
    /\ pc[i] = "loop"
    /\ pc' = [pc EXCEPT ![i] = IF stop[i] \in closed THEN "done" ELSE cfg[i].type]
    /\ feeder' = [feeder EXCEPT ![i] = stop[i] \notin closed /\ cfg[i].type = "stream"]
    /\ UNCHANGED <<extVars, panic, mapVars, h, newVars, csVars, queued, idx, cur,
                   cancelled>>

CanSend(i) == linked[i] /\ ~CtxDone(i)

(***************************************************************************)
(* Periodic: when the data cannot be read the loop goes on, whatever has   *)
(* become of the connection; otherwise a report is sent and the loop goes  *)
(* on, or Send fails and publishRun closes its struct and restarts.        *)
(***************************************************************************)
PubReadError(i) ==
    /\ pc[i] = "periodic"
    /\ name[i] \in unread
    /\ pc' = [pc EXCEPT ![i] = "loop"]
    /\ UNCHANGED <<extVars, panic, mapVars, h, newVars, csVars, feeder, queued, idx,
                   cur, cancelled>>

PubReport(i) ==
    /\ pc[i] = "periodic"
    /\ name[i] \notin unread
    /\ CanSend(i)
    /\ pc' = [pc EXCEPT ![i] = "loop"]
    /\ UNCHANGED <<extVars, panic, mapVars, h, newVars, csVars, feeder, queued, idx,
                   cur, cancelled>>

PubReportError(i) ==
    /\ pc[i] = "periodic"
    /\ name[i] \notin unread
    /\ ~CanSend(i)
    /\ Close(i, linked)
    /\ pc' = [pc EXCEPT ![i] = "restart"]
    /\ UNCHANGED <<extVars, mapVars, h, newVars, stop, client, feeder, queued, idx,
                   cur, cancelled>>

(***************************************************************************)
(* Stream: send waits in q.Get for the next value, without limit.  A value *)
(* is sent; send returns when the queue is disposed of, when there is a    *)
(* value and its Send fails, or (PubFatal) when the value is a fatal one.  *)
(* Then Close, w.Wait() and restart.                                       *)
(***************************************************************************)
PubSend(i) ==
    /\ pc[i] = "stream"
    /\ stop[i] \notin closed
    /\ queued[i] /\ CanSend(i)
    /\ queued' = [queued EXCEPT ![i] = FALSE]
    /\ UNCHANGED <<extVars, panic, mapVars, h, newVars, csVars, feeder, pc, idx, cur,
                   cancelled>>

StreamEnds(i) ==
    /\ pc[i] = "stream"
    /\ Close(i, linked)
    /\ pc' = [pc EXCEPT ![i] = "wait"]
    /\ queued' = [queued EXCEPT ![i] = FALSE]
    /\ UNCHANGED <<extVars, mapVars, h, newVars, stop, client, feeder, idx, cur,
                   cancelled>>

SendEnds(i) == stop[i] \in closed \/ (queued[i] /\ ~CanSend(i))

PubStreamEnd(i) == SendEnds(i) /\ StreamEnds(i)

PubFatal(i) == stop[i] \notin closed /\ queued[i] /\ StreamEnds(i)

(***************************************************************************)
(* StreamRun puts a value in the queue, the first ones or, later, when the *)
(* data changes.  It returns when the channel is closed, or earlier: on an *)
(* error, or (OTHERS) because dial-out gives it no subscription list.      *)
(***************************************************************************)
FeederPut(i) ==
    /\ feeder[i] /\ pc[i] = "stream"
    /\ stop[i] \notin closed
    /\ queued' = [queued EXCEPT ![i] = TRUE]
    /\ UNCHANGED <<extVars, panic, mapVars, h, newVars, csVars, feeder, pc, idx, cur,
                   cancelled>>

FeederReturn(i) ==
    /\ feeder[i]
    /\ feeder' = [feeder EXCEPT ![i] = FALSE]
    /\ UNCHANGED <<extVars, panic, mapVars, h, newVars, csVars, queued, pc, idx, cur,
                   cancelled>>

FeederStop(i) == stop[i] \in closed /\ FeederReturn(i)

PubWait(i) ==
    /\ pc[i] = "wait"
    /\ ~feeder[i]
    /\ stale[i] = 0
    /\ pc' = [pc EXCEPT ![i] = "restart"]
    /\ UNCHANGED <<extVars, panic, mapVars, h, newVars, csVars, feeder, queued, idx,
                   cur, cancelled>>

-----------------------------------------------------------------------------
Init ==
    LET first == {k \in RowKeys : FirstDb[k] # NoRow}
    IN
    /\ db = FirstDb
    /\ ntf \in {[x \in 1..Cardinality(first) |-> [key |-> f[x], op |-> "hset"]] :
                   f \in {f \in [1..Cardinality(first) -> first] :
                             \A x, y \in DOMAIN f : f[x] = f[y] => x = y}}
    /\ changes = 0
    /\ up = Dests
    /\ unread = {}
    /\ flaps = 0
    /\ lost = {}
    /\ panic = "none"
    /\ known = {}
    /\ dest = [g \in Groups |-> <<>>]
    /\ used = {}
    /\ users = [g \in Groups |-> {}]
    /\ subs = [n \in Names |-> 0]
    /\ h = IdleHandler
    /\ made = 0
    /\ name = [i \in Inst |-> CHOOSE n \in Names : TRUE]
    /\ cfg = [i \in Inst |-> NoRow]
    /\ opened = [i \in Inst |-> FALSE]
    /\ stop = [i \in Inst |-> 0]
    /\ client = [i \in Inst |-> 0]
    /\ ctx = [i \in Inst |-> 0]
    /\ cancel = [i \in Inst |-> 0]
    /\ stale = [i \in Inst |-> 0]
    /\ feeder = [i \in Inst |-> FALSE]
    /\ queued = [i \in Inst |-> FALSE]
    /\ pc = [i \in Inst |-> "none"]
    /\ dests = [i \in Inst |-> <<>>]
    /\ idx = [i \in Inst |-> 0]
    /\ cur = [i \in Inst |-> 0]
    /\ linked = [i \in Inst |-> FALSE]
    /\ closed = {}
    /\ cancelled = {}

Handler == \/ HandlerStart \/ HandlerLost \/ HandlerGroup \/ HandlerGroupDel
           \/ HandlerGroupSet \/ HandlerGlobalSet \/ HandlerSetupDone \/ HandlerSubDel
           \/ HandlerSubIgnored \/ HandlerSubSet \/ HandlerCancel
           \/ \E n \in Names : HandlerClose(n) \/ HandlerSetup(n)

Publisher(i) == \/ PubRestart(i) \/ PubDial(i) \/ PubPublish(i) \/ PubSelect(i)
                \/ PubReadError(i) \/ PubReport(i) \/ PubReportError(i)
                \/ PubSend(i) \/ PubStreamEnd(i) \/ PubWait(i)

Streams(i) == PubFatal(i) \/ FeederPut(i) \/ FeederReturn(i)

Environment == \/ \E k \in Written : ConfigSet(k) \/ ConfigDel(k)
               \/ \E d \in Dests : DestChange(d)
               \/ \E n \in Names : DataChange(n)

Next == /\ panic = "none"
        /\ \/ Handler
           \/ Environment
           \/ \E i \in Inst : Publisher(i) \/ Streams(i)

(***************************************************************************)
(* The handler and the goroutines run when they can.  A call that blocks   *)
(* has a time limit, waits for another of them, or, send's q.Get, has none *)
(* and waits for a value: FeederPut, a change of the data, is not fair.    *)
(***************************************************************************)
Fairness ==
    /\ WF_vars(panic = "none" /\ Handler)
    /\ \A i \in Inst : /\ WF_vars(panic = "none" /\ Publisher(i))
                       /\ WF_vars(panic = "none" /\ FeederStop(i))

Spec == Init /\ [][Next]_vars

FairSpec == Spec /\ Fairness

-----------------------------------------------------------------------------
(* Properties *)

(***************************************************************************)
(* Every variable keeps its type; an instance's fields name instances and  *)
(* channels that exist.                                                    *)
(***************************************************************************)
TypeOK ==
    /\ db \in [RowKeys -> Row]
    /\ ntf \in Seq([key : Keys, op : {"hset", "hdel"}])
    /\ changes \in Nat
    /\ up \subseteq Dests
    /\ unread \subseteq Names
    /\ flaps \in Nat
    /\ lost \subseteq Keys
    /\ panic \in {"none", "closeOfClosed", "nilPointer", "indexOutOfRange"}
    /\ known \subseteq Groups
    /\ dest \in [Groups -> Seq(Dests)]
    /\ used \subseteq Groups
    /\ users \in [Groups -> SUBSET Names]
    /\ subs \in [Names -> 0..MaxInst]
    /\ h \in [pc : {"idle", "groups", "close", "cancel", "setup"}, key : Keys,
              op : {"hset", "hdel"}, row : Row, names : SUBSET Names, cs : 0..MaxInst,
              groups : SUBSET Groups, grp : Groups \cup {NoGroup}]
    /\ made \in 0..MaxInst
    /\ name \in [Inst -> Names]
    /\ cfg \in [Inst -> Row]
    /\ opened \in [Inst -> BOOLEAN]
    /\ stop \in [Inst -> 0..(MaxInst + 1)]
    /\ client \in [Inst -> 0..MaxInst]
    /\ ctx \in [Inst -> 0..MaxInst]
    /\ cancel \in [Inst -> 0..MaxInst]
    /\ stale \in [Inst -> Nat]
    /\ feeder \in [Inst -> BOOLEAN]
    /\ queued \in [Inst -> BOOLEAN]
    /\ pc \in [Inst -> {"none", "restart", "dial", "publish", "loop", "periodic",
                        "stream", "wait", "done"}]
    /\ dests \in [Inst -> Seq(Dests)]
    /\ idx \in [Inst -> Nat]
    /\ cur \in [Inst -> Nat]
    /\ linked \in [Inst -> BOOLEAN]
    /\ closed \subseteq Chans
    /\ cancelled \subseteq 1..MaxInst

Live(i) == pc[i] \notin {"none", "done"}

Publishing(i) == pc[i] \in {"loop", "periodic", "stream"} /\ CanSend(i)

(***************************************************************************)
(* A publishRun goroutine that no longer serves the subscription of its    *)
(* name has been told to end: one subscription is not published twice.     *)
(***************************************************************************)
OnePublisher == \A i \in Inst : Live(i) => subs[name[i]] = i \/ CtxDone(i)

(***************************************************************************)
(* "Only one destination will be used at one time": two goroutines never   *)
(* publish the same subscription.                                          *)
(***************************************************************************)
OneDestination ==
    \A i, j \in Inst :
        (Publishing(i) /\ Publishing(j) /\ name[i] = name[j]) => i = j

(***************************************************************************)
(* Once all notifications are processed, the subscription that runs has    *)
(* the configuration and the destinations that the table holds, however    *)
(* writes and their processing overlapped, except for rows whose last      *)
(* notification was lost (HGetAll failed): nothing reads those again.      *)
(***************************************************************************)
ConfigApplied ==
    Quiet => \A n \in Names \ lost :
        LET i == subs[n]
        IN (i # 0 /\ db[n].valid /\ db[n].grp # NoGroup) =>
              /\ cfg[i] = db[n]
              /\ LET row == db[cfg[i].grp]
                 IN (/\ Live(i) /\ ~CtxDone(i)
                     /\ row.valid /\ row.addrs # <<>> /\ cfg[i].grp \notin lost)
                       => dests[i] = row.addrs

(***************************************************************************)
(* The same without the exception.  Fails: a notification whose HGetAll    *)
(* fails is not tried again, and what ran goes on.                         *)
(***************************************************************************)
RowsApplied ==
    Quiet => \A n \in Names :
        (subs[n] # 0 /\ db[n].valid /\ db[n].grp # NoGroup) => cfg[subs[n]] = db[n]

(***************************************************************************)
(* The routine survives every sequence of configuration changes.           *)
(***************************************************************************)
NoPanic == panic = "none"

(***************************************************************************)
(* A stop channel is closed once: the handler and the struct's own         *)
(* publishRun both call Close, in any order, while publishRun makes a new  *)
(* channel with every restart.  With copied structs, which share the       *)
(* channel but not the field opened, it fails.                             *)
(***************************************************************************)
ClosedOnce == panic # "closeOfClosed"

(***************************************************************************)
(* A connection that is open after its publishRun has returned is the      *)
(* client of an open struct, whose Close will close it.  Fails: after      *)
(* newClient the context is looked at before the connection is kept.       *)
(***************************************************************************)
ConnectionsHeld ==
    \A i \in Inst : (pc[i] = "done" /\ linked[i]) =>
        \E k \in Inst : opened[k] /\ client[k] = i

(***************************************************************************)
(* DestGrp2ClientSubMap names for a group the subscriptions that use it.   *)
(***************************************************************************)
UsersAccurate ==
    \A g \in Groups, n \in Names :
        n \in users[g] <=> (subs[n] # 0 /\ cfg[subs[n]].grp = g)

(***************************************************************************)
(* The goroutine hears of nothing: send waits for a value that does not    *)
(* come, or reports cannot be read and the loop never gets to Send.        *)
(***************************************************************************)
Unheard(i) ==
    /\ stop[i] \notin closed
    /\ \/ pc[i] = "stream" /\ ~queued[i]
       \/ pc[i] \in {"loop", "periodic"} /\ name[i] \in unread

(***************************************************************************)
(* A publishRun goroutine whose context is cancelled returns, wherever the *)
(* cancellation finds it (dialling, publishing, restarting, waiting), if   *)
(* it has a value to send once more: one that restarted between the        *)
(* handler's Close and cancel learns of the cancellation from Send alone.  *)
(***************************************************************************)
CancelledEnds ==
    \A i \in Inst : (Live(i) /\ CtxDone(i)) ~> (~Live(i) \/ []Unheard(i))

SomeUp(i) == \E x \in DOMAIN dests[i] : dests[i][x] \in up

(***************************************************************************)
(* "Remote server might go down, in that case we restart with next         *)
(* destination in the group": while some destination of the group is up, a *)
(* publishRun goroutine publishes again or ends, if it has a value to send *)
(* from which it learns that the server is down.                           *)
(***************************************************************************)
Reconnects ==
    \A i \in Inst :
        Live(i) ~> (Publishing(i) \/ ~Live(i) \/ ~SomeUp(i) \/ []Unheard(i))

(***************************************************************************)
(* Both without the exception.  They fail: a Stream waits in q.Get however *)
(* long its context is cancelled or its collector down.                    *)
(***************************************************************************)
CancelledEndsAnyway == \A i \in Inst : (Live(i) /\ CtxDone(i)) ~> ~Live(i)

ReconnectsAnyway ==
    \A i \in Inst : Live(i) ~> (Publishing(i) \/ ~Live(i) \/ ~SomeUp(i))
=============================================================================
