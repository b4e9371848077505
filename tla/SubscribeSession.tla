--------------------------- MODULE SubscribeSession ---------------------------
(***************************************************************************)
(* The dial-in Subscribe RPC: Server.Subscribe and its registry of clients *)
(* (gnmi_server/server.go), the Client session with its main, recv and     *)
(* data goroutines (gnmi_server/client_subscribe.go), and the stream, poll *)
(* and once routines of the data clients that feed the session's queue     *)
(* (sonic_data_client/db_client.go, non_db_client.go and, for poll and     *)
(* once, transl_data_client.go; its stream routine is in TranslStream).    *)
(*                                                                         *)
(* Every goroutine has a control point and every blocking call is a guard. *)
(* The three channels stop, polled and once of a session are one variable  *)
(* chan: a session makes exactly the one of its mode.  A WaitGroup is the  *)
(* set of the goroutines that still have to call Done.  A value is its     *)
(* source, the round of values it belongs to and the time it was stamped   *)
(* with; what the value says is left out.                                  *)
(***************************************************************************)
EXTENDS Naturals

CONSTANTS Streams,     \* Subscribe calls the server receives
          Addrs,       \* peer addresses
          AddrOf,      \* AddrOf[s]: the peer a call comes from
          NoStream,    \* no client registered for an address
          Paths,       \* paths of a SubscriptionList
          Run,         \* the StreamRun/PollRun/OnceRun goroutine
          Queries,     \* Queries[s]: first queries a call may bring, with their
                       \* mode and the data client their target selects: "db" (DbClient), "nondb" (NonDbClient),
                       \* "transl" (TranslClient), "updates" (TranslClient
                       \* with updates_only in the query)
          MaxUpdates,  \* bound: values a path yields after its first one
          MaxPolls,    \* bound: Poll requests of one client
          Pipelined    \* whether a client polls before the last poll is answered

ASSUME ConstantsAssumption ==
    /\ NoStream \notin Streams
    /\ Run \notin Paths
    /\ AddrOf \in [Streams -> Addrs]
    /\ Queries \in [Streams -> SUBSET [mode : {"STREAM", "POLL", "ONCE"},
                                       kind : {"db", "nondb", "transl", "updates"}]]
    /\ \A s \in Streams : \A x \in Queries[s] :
           x.kind \in {"transl", "updates"} => x.mode # "STREAM"
    /\ MaxUpdates \in Nat
    /\ MaxPolls \in Nat
    /\ Pipelined \in BOOLEAN

VARIABLES
    clients,   \* Server.clients: address -> registered session
    panic,     \* the run-time panic that ended the process, or "none"
    rpc,       \* control point of the goroutine in Subscribe/Run/send
    mode, kind,\* the session's subscription mode and data client
    item,      \* the value send() has taken from the queue
    recv,      \* control point of the recv goroutine
    disposed,  \* Client.q has been disposed of
    q,         \* values in Client.q
    chan,      \* state of the session's channel (stop, polled or once)
    tok,       \* tokens buffered in polled or once (capacity 1)
    w,         \* Client.w: goroutines Run waits for
    run,       \* control point of StreamRun, PollRun or OnceRun
    todo,      \* paths the routine's current loop has not come to
    rnd,       \* rounds of values begun (one per poll; one for a stream)
    wrk,       \* control point of the goroutine of each streamed path
    pend,      \* value stamped by a goroutine and not yet Put
    synced,    \* DbClient.synced: paths that have not signalled
    clock,     \* last timestamp given to a value of the session
    upd,       \* values a path has yielded after its first one
    conn,      \* the client's connection: "up" or "down"
    eof,       \* the client has closed its sending side
    polls,     \* Poll requests under way to the server
    issued,    \* Poll requests the client has made
    got,       \* round of the last value of each path sent to the client
    syncs      \* round of the last sync_response sent to the client

mainVars  == <<rpc, item>>
closeVars == <<disposed, q, chan, panic>>
dataVars  == <<run, todo, rnd, wrk, pend, synced, clock, upd>>
envVars   == <<conn, eof, polls, issued>>
histVars  == <<got, syncs>>
vars == <<clients, panic, rpc, mode, kind, item, recv, disposed, q, chan, tok,
          w, run, todo, rnd, wrk, pend, synced, clock, upd, conn, eof, polls,
          issued, got, syncs>>

Routines == Paths \cup {Run}

Items == [ts : Nat, kind : {"data", "sync", "fatal"}, src : Routines, rnd : Nat]

NoItem == [ts |-> 0, kind |-> "fatal", src |-> Run, rnd |-> 0]

-----------------------------------------------------------------------------
(***************************************************************************)
(* Faulty variants of definitions below, for mutation testing: each is a   *)
(* slip the code could contain and that a property must notice.            *)
(***************************************************************************)
NotDisposedUnchecked(s) == TRUE                \* Close without its early return
RemovedNot(s) == clients                       \* no delete(s.clients, ...)
AllDoneUnchecked(s) == TRUE                    \* no c.w.Wait()
OldestAny(s) == q[s]                           \* a queue without an order
OldestValue(s) == {i \in q[s] : \A j \in q[s] :  \* sync behind the later values
                      \/ i.kind # "sync" /\ j.kind = "sync"
                      \/ (i.kind = "sync" <=> j.kind = "sync") /\ i.ts <= j.ts}
AllSignalledUnchecked(s) == TRUE               \* no c.synced.Wait()
SignalledNot(s, p) == synced[s]                \* no c.synced.Done()
PathReturnsNoDone(s, p) == UNCHANGED <<w, panic>>  \* no c.w.Done()
PollSyncNot(s) ==                              \* a round without its sync
    /\ run[s] = "round"
    /\ mode[s] = "POLL"
    /\ todo[s] = {}
    /\ run' = [run EXCEPT ![s] = "poll"]
    /\ UNCHANGED <<clients, mainVars, mode, kind, recv, closeVars, tok, w, todo,
                   rnd, wrk, pend, synced, clock, upd, envVars, histVars>>

-----------------------------------------------------------------------------
(***************************************************************************)
(* The gRPC context of a stream is done when the connection has ended or   *)
(* when the handler has returned.                                          *)
(***************************************************************************)
CtxDone(s) == conn[s] = "down" \/ rpc[s] = "done"

(***************************************************************************)
(* Put of the priority queue: an error, without effect, once disposed.     *)
(***************************************************************************)
Put(s, i) == q' = [q EXCEPT ![s] = IF disposed[s] THEN @ ELSE @ \cup {i}]

(***************************************************************************)
(* The value a goroutine r makes now, stamped by time.Now().               *)
(***************************************************************************)
Stamped(s, r, k) == [ts |-> clock[s] + 1, kind |-> k, src |-> r, rnd |-> rnd[s]]

Tick(s) == clock' = [clock EXCEPT ![s] = @ + 1]

(***************************************************************************)
(* Client.w.Done() by goroutine r: a Done too many is a panic.             *)
(***************************************************************************)
WDone(s, r) == /\ w' = [w EXCEPT ![s] = @ \ {r}]
               /\ panic' = IF r \in w[s] THEN panic ELSE "negativeWaitGroup"

(***************************************************************************)
(* Client.Close: nothing when the queue is already disposed of, otherwise  *)
(* dispose of it and close the channel that has been made.                 *)
(***************************************************************************)
NotDisposed(s) == ~disposed[s]

ClosedChan(s) == IF chan[s] = "nil" THEN "nil" ELSE "closed"

Close(s) ==
    IF NotDisposed(s)
    THEN /\ disposed' = [disposed EXCEPT ![s] = TRUE]
         /\ q' = [q EXCEPT ![s] = {}]
         /\ chan' = [chan EXCEPT ![s] = ClosedChan(s)]
         /\ panic' = IF chan[s] = "closed" THEN "closeOfClosed" ELSE panic
    ELSE UNCHANGED closeVars

-----------------------------------------------------------------------------
(* Server.Subscribe *)

(***************************************************************************)
(* Register the new client under its peer address; a client already        *)
(* registered there is closed and replaced.                                *)
(***************************************************************************)
Subscribe(s) ==
    LET a == AddrOf[s] IN
    /\ rpc[s] = "idle"
    /\ rpc' = [rpc EXCEPT ![s] = "init"]
    /\ clients' = [clients EXCEPT ![a] = s]
    /\ IF clients[a] = NoStream THEN UNCHANGED closeVars ELSE Close(clients[a])
    /\ UNCHANGED <<mode, kind, item, recv, tok, w, dataVars, envVars, histVars>>

(***************************************************************************)
(* Delete the entry of the client's address and return.                    *)
(***************************************************************************)
Removed(s) == [clients EXCEPT ![AddrOf[s]] = NoStream]

Unregister(s) ==
    /\ rpc[s] = "unreg"
    /\ rpc' = [rpc EXCEPT ![s] = "done"]
    /\ clients' = Removed(s)
    /\ UNCHANGED <<mode, kind, item, recv, closeVars, tok, w, dataVars, envVars,
                   histVars>>

-----------------------------------------------------------------------------
(* Client.Run *)

(***************************************************************************)
(* The first Recv fails, or its query is refused: Run returns, without     *)
(* Close, before any goroutine is started.                                 *)
(***************************************************************************)
RunAborted(s) ==
    /\ rpc[s] = "init"
    /\ conn[s] = "down" \/ eof[s]
    /\ rpc' = [rpc EXCEPT ![s] = "unreg"]
    /\ UNCHANGED <<clients, mode, kind, item, recv, closeVars, tok, w, dataVars,
                   envVars, histVars>>

RunRefused(s) ==
    /\ rpc[s] = "init"
    /\ conn[s] = "up"
    /\ rpc' = [rpc EXCEPT ![s] = "unreg"]
    /\ UNCHANGED <<clients, mode, kind, item, recv, closeVars, tok, w, dataVars,
                   envVars, histVars>>

(***************************************************************************)
(* A valid query arrives: pick the data client and make the channel of the *)
(* mode.  The assignment is not under c.mu, so a Close by another          *)
(* Subscribe call may come before it or right after it.                    *)
(***************************************************************************)
RunQuery(s) ==
    /\ rpc[s] = "init"
    /\ conn[s] = "up"
    /\ \E x \in Queries[s] : /\ mode' = [mode EXCEPT ![s] = x.mode]
                             /\ kind' = [kind EXCEPT ![s] = x.kind]
    /\ chan' = [chan EXCEPT ![s] = "open"]
    /\ rpc' = [rpc EXCEPT ![s] = "made"]
    /\ UNCHANGED <<clients, item, recv, disposed, q, panic, tok, w, dataVars,
                   envVars, histVars>>

(***************************************************************************)
(* Fill polled or once with the first token (a panic if Close was faster), *)
(* start the data goroutine and recv, and enter send.                      *)
(***************************************************************************)
RunStart(s) ==
    /\ rpc[s] = "made"
    /\ rpc' = [rpc EXCEPT ![s] = "get"]
    /\ recv' = [recv EXCEPT ![s] = "recv"]
    /\ tok' = [tok EXCEPT ![s] = IF mode[s] = "STREAM" THEN 0 ELSE 1]
    /\ panic' = IF mode[s] # "STREAM" /\ chan[s] = "closed"
                THEN "sendOnClosed" ELSE panic
    /\ w' = [w EXCEPT ![s] = {Run}]
    /\ run' = [run EXCEPT ![s] = CASE mode[s] = "POLL" -> "poll"
                                   [] mode[s] = "ONCE" -> "once"
                                   [] OTHER -> IF kind[s] = "nondb"
                                               THEN "validate" ELSE "spawn"]
    /\ todo' = [todo EXCEPT ![s] = Paths]
    /\ rnd' = [rnd EXCEPT ![s] = IF mode[s] = "STREAM" THEN 1 ELSE 0]
    /\ UNCHANGED <<clients, mode, kind, item, disposed, q, chan, wrk, pend,
                   synced, clock, upd, envVars, histVars>>

(***************************************************************************)
(* After send has returned: Close, then wait for the goroutines.           *)
(***************************************************************************)
RunClose(s) ==
    /\ rpc[s] = "close"
    /\ rpc' = [rpc EXCEPT ![s] = "wait"]
    /\ Close(s)
    /\ UNCHANGED <<clients, mode, kind, item, recv, tok, w, dataVars, envVars,
                   histVars>>

AllDone(s) == w[s] = {}

RunWait(s) ==
    /\ rpc[s] = "wait"
    /\ AllDone(s)
    /\ rpc' = [rpc EXCEPT ![s] = "unreg"]
    /\ UNCHANGED <<clients, mode, kind, item, recv, closeVars, tok, w, dataVars,
                   envVars, histVars>>

-----------------------------------------------------------------------------
(* Client.send *)

(***************************************************************************)
(* The order of the queue (Value.Compare): the smallest timestamp first.   *)
(***************************************************************************)
Oldest(s) == {i \in q[s] : \A j \in q[s] : i.ts <= j.ts}

(***************************************************************************)
(* Get(1) blocks while the queue is empty and yields the value with the    *)
(* smallest timestamp.  A fatal value has no response: send returns.       *)
(***************************************************************************)
Get(s) ==
    /\ rpc[s] = "get"
    /\ ~disposed[s]
    /\ \E i \in Oldest(s) :
          /\ q' = [q EXCEPT ![s] = @ \ {i}]
          /\ item' = [item EXCEPT ![s] = i]
          /\ rpc' = [rpc EXCEPT ![s] = IF i.kind = "fatal" THEN "close"
                                                           ELSE "send"]
    /\ UNCHANGED <<clients, mode, kind, recv, disposed, chan, panic, tok, w,
                   dataVars, envVars, histVars>>

GetDisposed(s) ==
    /\ rpc[s] = "get"
    /\ disposed[s]
    /\ rpc' = [rpc EXCEPT ![s] = "close"]
    /\ UNCHANGED <<clients, mode, kind, item, recv, closeVars, tok, w, dataVars,
                   envVars, histVars>>

(***************************************************************************)
(* stream.Send of the value taken; an error ends the loop.                 *)
(***************************************************************************)
Send(s) ==
    /\ rpc[s] = "send"
    /\ conn[s] = "up"
    /\ rpc' = [rpc EXCEPT ![s] = "get"]
    /\ IF item[s].kind = "sync"
       THEN syncs' = [syncs EXCEPT ![s] = item[s].rnd] /\ UNCHANGED got
       ELSE got' = [got EXCEPT ![s][item[s].src] = item[s].rnd] /\ UNCHANGED syncs
    /\ UNCHANGED <<clients, mode, kind, item, recv, closeVars, tok, w, dataVars,
                   envVars>>

SendError(s) ==
    /\ rpc[s] = "send"
    /\ conn[s] = "down"
    /\ rpc' = [rpc EXCEPT ![s] = "close"]
    /\ UNCHANGED <<clients, mode, kind, item, recv, closeVars, tok, w, dataVars,
                   envVars, histVars>>

-----------------------------------------------------------------------------
(* Client.recv *)

(***************************************************************************)
(* A Poll request in POLL mode goes on to the blocking send on polled.     *)
(***************************************************************************)
RecvPoll(s) ==
    /\ recv[s] = "recv"
    /\ polls[s] > 0
    /\ polls' = [polls EXCEPT ![s] = @ - 1]
    /\ recv' = [recv EXCEPT ![s] = "push"]
    /\ UNCHANGED <<clients, mainVars, mode, kind, closeVars, tok, w, dataVars,
                   conn, eof, issued, histVars>>

(***************************************************************************)
(* c.polled <- struct{}{}: blocks while the token is there, and panics     *)
(* when the channel is, or gets, closed.                                   *)
(***************************************************************************)
PolledRoom(s) == tok[s] = 0

RecvPush(s) ==
    /\ recv[s] = "push"
    /\ \/ /\ chan[s] = "open"
          /\ PolledRoom(s)
          /\ tok' = [tok EXCEPT ![s] = @ + 1]
          /\ recv' = [recv EXCEPT ![s] = "recv"]
          /\ UNCHANGED panic
       \/ /\ chan[s] = "closed"
          /\ panic' = "sendOnClosed"
          /\ UNCHANGED <<tok, recv>>
    /\ UNCHANGED <<clients, mainVars, mode, kind, disposed, q, chan, w, dataVars,
                   envVars, histVars>>

(***************************************************************************)
(* recv's loop ends: on an event that is no Poll in POLL mode (in the      *)
(* other modes such an event is only logged), on EOF, where a STREAM first *)
(* waits for its context, or on an error of the stream.                    *)
(***************************************************************************)
RecvEnd(s) ==
    /\ \/ recv[s] = "recv" /\ mode[s] = "POLL" /\ conn[s] = "up" /\ ~eof[s]
       \/ recv[s] = "recv" /\ mode[s] # "STREAM" /\ eof[s] /\ polls[s] = 0
       \/ recv[s] \in {"recv", "eofwait"} /\ CtxDone(s)
    /\ recv' = [recv EXCEPT ![s] = "close"]
    /\ UNCHANGED <<clients, mainVars, mode, kind, closeVars, tok, w, dataVars,
                   envVars, histVars>>

RecvEOF(s) ==
    /\ recv[s] = "recv"
    /\ mode[s] = "STREAM"
    /\ eof[s]
    /\ recv' = [recv EXCEPT ![s] = "eofwait"]
    /\ UNCHANGED <<clients, mainVars, mode, kind, closeVars, tok, w, dataVars,
                   envVars, histVars>>

RecvClose(s) ==
    /\ recv[s] = "close"
    /\ recv' = [recv EXCEPT ![s] = "done"]
    /\ Close(s)
    /\ UNCHANGED <<clients, mainVars, mode, kind, tok, w, dataVars, envVars,
                   histVars>>

-----------------------------------------------------------------------------
(* DbClient.StreamRun and the goroutines of its paths *)

(***************************************************************************)
(* Start the goroutine of one subscription, or meet an unsupported mode,   *)
(* for which a fatal message is made and StreamRun returns.                *)
(***************************************************************************)
StreamSpawn(s, p) ==
    /\ run[s] = "spawn"
    /\ p \in todo[s]
    /\ todo' = [todo EXCEPT ![s] = @ \ {p}]
    /\ wrk' = [wrk EXCEPT ![s][p] = "start"]
    /\ w' = [w EXCEPT ![s] = @ \cup {p}]
    /\ synced' = [synced EXCEPT ![s] = @ \cup {p}]
    /\ UNCHANGED <<clients, mainVars, mode, kind, recv, closeVars, tok, run, rnd,
                   pend, clock, upd, envVars, histVars>>

StreamUnsupported(s) ==
    /\ \/ run[s] = "spawn" /\ todo[s] # {}
       \/ run[s] = "validate"
    /\ pend' = [pend EXCEPT ![s][Run] = Stamped(s, Run, "fatal")]
    /\ Tick(s)
    /\ run' = [run EXCEPT ![s] = "put"]
    /\ UNCHANGED <<clients, mainVars, mode, kind, recv, closeVars, tok, w, todo,
                   rnd, wrk, synced, upd, envVars, histVars>>

(***************************************************************************)
(* synced.Wait(), then stamp the sync message.                             *)
(***************************************************************************)
AllSignalled(s) == synced[s] = {}

StreamSync(s) ==
    /\ run[s] = "spawn"
    /\ todo[s] = {}
    /\ AllSignalled(s)
    /\ pend' = [pend EXCEPT ![s][Run] = Stamped(s, Run, "sync")]
    /\ Tick(s)
    /\ run' = [run EXCEPT ![s] = "put"]
    /\ UNCHANGED <<clients, mainVars, mode, kind, recv, closeVars, tok, w, todo,
                   rnd, wrk, synced, upd, envVars, histVars>>

(***************************************************************************)
(* Put of the sync or of the fatal message.  After sync StreamRun waits    *)
(* for the channel (the non-DB client first starts the sampling routines,  *)
(* which Client.w does not count); after a fatal message it returns.       *)
(***************************************************************************)
StreamPut(s) ==
    /\ run[s] = "put"
    /\ Put(s, pend[s][Run])
    /\ pend' = [pend EXCEPT ![s][Run] = NoItem]
    /\ IF pend[s][Run].kind = "sync"
       THEN /\ run' = [run EXCEPT ![s] = "stopwait"]
            /\ wrk' = IF kind[s] # "nondb" THEN wrk
                      ELSE [wrk EXCEPT ![s] = [p \in Paths |-> "loop"]]
            /\ UNCHANGED <<w, panic>>
       ELSE run' = [run EXCEPT ![s] = "exit"] /\ WDone(s, Run) /\ UNCHANGED wrk
    /\ UNCHANGED <<clients, mainVars, mode, kind, recv, disposed, chan, tok,
                   todo, rnd, synced, clock, upd, envVars, histVars>>

StreamStop(s) ==
    /\ run[s] = "stopwait"
    /\ chan[s] = "closed"
    /\ run' = [run EXCEPT ![s] = "exit"]
    /\ WDone(s, Run)
    /\ UNCHANGED <<clients, mainVars, mode, kind, recv, disposed, q, chan, tok,
                   todo, rnd, wrk, pend, synced, clock, upd, envVars, histVars>>

(***************************************************************************)
(* The first value of a path is read and stamped, or its sample interval,  *)
(* its psubscribe or its read is in error, for which a fatal message is.   *)
(***************************************************************************)
PathFirst(s, p) ==
    /\ wrk[s][p] = "start"
    /\ \E k \in {"data", "fatal"} :
          pend' = [pend EXCEPT ![s][p] = Stamped(s, p, k)]
    /\ Tick(s)
    /\ wrk' = [wrk EXCEPT ![s][p] = "put"]
    /\ UNCHANGED <<clients, mainVars, mode, kind, recv, closeVars, tok, w, run,
                   todo, rnd, synced, upd, envVars, histVars>>

(***************************************************************************)
(* A later value, on a tick of the interval or on a change; a change whose *)
(* data cannot be read is a fatal message.                                 *)
(***************************************************************************)
PathUpdate(s, p) ==
    /\ wrk[s][p] = "loop"
    /\ upd[s][p] < MaxUpdates
    /\ upd' = [upd EXCEPT ![s][p] = @ + 1]
    /\ \E k \in {"data"} \cup (IF kind[s] = "nondb" THEN {} ELSE {"fatal"}) :
          pend' = [pend EXCEPT ![s][p] = Stamped(s, p, k)]
    /\ Tick(s)
    /\ wrk' = [wrk EXCEPT ![s][p] = "put"]
    /\ UNCHANGED <<clients, mainVars, mode, kind, recv, closeVars, tok, w, run,
                   todo, rnd, synced, envVars, histVars>>

(***************************************************************************)
(* The Put of a path's value or fatal message.  The path signals synced    *)
(* the first time, after the Put; a DbClient goroutine returns, calling    *)
(* Done, when the queue refused the value or its first message was fatal.  *)
(* The sampling routines of the non-DB client ignore the error.            *)
(***************************************************************************)
Signalled(s, p) == synced[s] \ {p}

PathReturns(s, p) == IF kind[s] = "nondb" THEN UNCHANGED <<w, panic>> ELSE WDone(s, p)

PathPut(s, p) ==
    LET first == p \in synced[s]
        ends  == kind[s] # "nondb" /\ (disposed[s] \/ (first /\ pend[s][p].kind = "fatal"))
    IN
    /\ wrk[s][p] = "put"
    /\ Put(s, pend[s][p])
    /\ pend' = [pend EXCEPT ![s][p] = NoItem]
    /\ synced' = [synced EXCEPT ![s] = Signalled(s, p)]
    /\ wrk' = [wrk EXCEPT ![s][p] = IF ends THEN "done" ELSE "loop"]
    /\ IF ends THEN PathReturns(s, p) ELSE UNCHANGED <<w, panic>>
    /\ UNCHANGED <<clients, mainVars, mode, kind, recv, disposed, chan, tok, run,
                   todo, rnd, clock, upd, envVars, histVars>>

(***************************************************************************)
(* case <-c.channel: the goroutine of a path returns.                      *)
(***************************************************************************)
PathStop(s, p) ==
    /\ wrk[s][p] = "loop"
    /\ chan[s] = "closed"
    /\ wrk' = [wrk EXCEPT ![s][p] = "done"]
    /\ PathReturns(s, p)
    /\ UNCHANGED <<clients, mainVars, mode, kind, recv, disposed, q, chan, tok,
                   run, todo, rnd, pend, synced, clock, upd, envVars, histVars>>

-----------------------------------------------------------------------------
(* NonDbClient.StreamRun *)

(***************************************************************************)
(* All subscriptions are valid: go on to the first value of each.          *)
(***************************************************************************)
SampleValidated(s) ==
    /\ run[s] = "validate"
    /\ run' = [run EXCEPT ![s] = "initial"]
    /\ UNCHANGED <<clients, mainVars, mode, kind, recv, closeVars, tok, w, todo,
                   rnd, wrk, pend, synced, clock, upd, envVars, histVars>>

(***************************************************************************)
(* With updates_only the translib client leaves out the values of the      *)
(* first round.                                                            *)
(***************************************************************************)
LeftOut(s) == kind[s] = "updates" /\ rnd[s] = 1

(***************************************************************************)
(* One path's turn in a data goroutine that is alone in stamping values:   *)
(* in a poll or once round or at the start of a non-DB stream.  An error   *)
(* of the queue is ignored.                                                *)
(***************************************************************************)
RoundValue(s, p) ==
    /\ run[s] \in {"initial", "round"}
    /\ p \in todo[s]
    /\ todo' = [todo EXCEPT ![s] = @ \ {p}]
    /\ IF LeftOut(s) THEN UNCHANGED <<q, clock>>
                     ELSE Put(s, Stamped(s, p, "data")) /\ Tick(s)
    /\ UNCHANGED <<clients, mainVars, mode, kind, recv, disposed, chan, panic,
                   tok, w, run, rnd, wrk, pend, synced, upd, envVars, histVars>>

RoundOver(s) == todo[s] = {}

SampleSync(s) ==
    /\ run[s] = "initial"
    /\ RoundOver(s)
    /\ pend' = [pend EXCEPT ![s][Run] = Stamped(s, Run, "sync")]
    /\ Tick(s)
    /\ run' = [run EXCEPT ![s] = "put"]
    /\ UNCHANGED <<clients, mainVars, mode, kind, recv, closeVars, tok, w, todo,
                   rnd, wrk, synced, upd, envVars, histVars>>

-----------------------------------------------------------------------------
(* PollRun and OnceRun *)

(***************************************************************************)
(* <-c.channel: a token begins a round (also a token left in a channel     *)
(* that has been closed since); a closed, empty channel ends PollRun.      *)
(* OnceRun of the translib client has one round.                           *)
(***************************************************************************)
Translib(s) == kind[s] \in {"transl", "updates"}

AwaitsToken(s) == run[s] = "poll" \/ (run[s] = "once" /\ Translib(s))

PollRound(s) ==
    /\ AwaitsToken(s)
    /\ tok[s] > 0
    /\ tok' = [tok EXCEPT ![s] = @ - 1]
    /\ rnd' = [rnd EXCEPT ![s] = @ + 1]
    /\ todo' = [todo EXCEPT ![s] = Paths]
    /\ run' = [run EXCEPT ![s] = "round"]
    /\ UNCHANGED <<clients, mainVars, mode, kind, recv, closeVars, w, wrk, pend,
                   synced, clock, upd, envVars, histVars>>

PollStop(s) ==
    /\ AwaitsToken(s)
    /\ tok[s] = 0
    /\ chan[s] = "closed"
    /\ run' = [run EXCEPT ![s] = "exit"]
    /\ WDone(s, Run)
    /\ UNCHANGED <<clients, mainVars, mode, kind, recv, disposed, q, chan, tok,
                   todo, rnd, wrk, pend, synced, clock, upd, envVars, histVars>>

(***************************************************************************)
(* A value that the DB or the translib client cannot read ends PollRun or  *)
(* OnceRun, without a message in the queue.  PollRun does not read what it *)
(* leaves out, OnceRun does.                                               *)
(***************************************************************************)
PollReadError(s) ==
    /\ run[s] = "round"
    /\ todo[s] # {}
    /\ kind[s] # "nondb"
    /\ ~(mode[s] = "POLL" /\ LeftOut(s))
    /\ run' = [run EXCEPT ![s] = "exit"]
    /\ WDone(s, Run)
    /\ UNCHANGED <<clients, mainVars, mode, kind, recv, disposed, q, chan, tok,
                   todo, rnd, wrk, pend, synced, clock, upd, envVars, histVars>>

(***************************************************************************)
(* The sync message that ends a round; OnceRun then returns.               *)
(***************************************************************************)
PollSync(s) ==
    /\ run[s] = "round"
    /\ mode[s] = "POLL"
    /\ RoundOver(s)
    /\ Put(s, Stamped(s, Run, "sync"))
    /\ Tick(s)
    /\ run' = [run EXCEPT ![s] = "poll"]
    /\ UNCHANGED <<clients, mainVars, mode, kind, recv, disposed, chan, panic,
                   tok, w, todo, rnd, wrk, pend, synced, upd, envVars, histVars>>

OnceSync(s) ==
    /\ run[s] = "round"
    /\ mode[s] = "ONCE"
    /\ RoundOver(s)
    /\ Put(s, Stamped(s, Run, "sync"))
    /\ Tick(s)
    /\ run' = [run EXCEPT ![s] = "exit"]
    /\ WDone(s, Run)
    /\ UNCHANGED <<clients, mainVars, mode, kind, recv, disposed, chan, tok,
                   todo, rnd, wrk, pend, synced, upd, envVars, histVars>>

(***************************************************************************)
(* OnceRun of the DB and of the non-DB client returns at once: no value,   *)
(* no sync message and no Done.                                            *)
(***************************************************************************)
OnceRun(s) ==
    /\ run[s] = "once"
    /\ ~Translib(s)
    /\ run' = [run EXCEPT ![s] = "exit"]
    /\ UNCHANGED <<clients, mainVars, mode, kind, recv, closeVars, tok, w, todo,
                   rnd, wrk, pend, synced, clock, upd, envVars, histVars>>

-----------------------------------------------------------------------------
(* The client *)

Started(s) == rpc[s] \notin {"idle", "init", "made", "done"}

ClientPoll(s) ==
    /\ Started(s)
    /\ mode[s] = "POLL"
    /\ conn[s] = "up"
    /\ ~eof[s]
    /\ issued[s] < MaxPolls
    /\ Pipelined \/ syncs[s] = issued[s] + 1
    /\ issued' = [issued EXCEPT ![s] = @ + 1]
    /\ polls' = [polls EXCEPT ![s] = @ + 1]
    /\ UNCHANGED <<clients, mainVars, mode, kind, recv, closeVars, tok, w,
                   dataVars, conn, eof, histVars>>

ClientEOF(s) ==
    /\ rpc[s] \notin {"idle", "done"}
    /\ ~eof[s]
    /\ eof' = [eof EXCEPT ![s] = TRUE]
    /\ UNCHANGED <<clients, mainVars, mode, kind, recv, closeVars, tok, w,
                   dataVars, conn, polls, issued, histVars>>

Disconnect(s) ==
    /\ rpc[s] \notin {"idle", "done"}
    /\ conn[s] = "up"
    /\ conn' = [conn EXCEPT ![s] = "down"]
    /\ UNCHANGED <<clients, mainVars, mode, kind, recv, closeVars, tok, w,
                   dataVars, eof, polls, issued, histVars>>

-----------------------------------------------------------------------------
Init ==
    /\ clients = [a \in Addrs |-> NoStream]
    /\ panic = "none"
    /\ rpc = [s \in Streams |-> "idle"]
    /\ mode = [s \in Streams |-> "STREAM"]
    /\ kind = [s \in Streams |-> "db"]
    /\ item = [s \in Streams |-> NoItem]
    /\ recv = [s \in Streams |-> "off"]
    /\ disposed = [s \in Streams |-> FALSE]
    /\ q = [s \in Streams |-> {}]
    /\ chan = [s \in Streams |-> "nil"]
    /\ tok = [s \in Streams |-> 0]
    /\ w = [s \in Streams |-> {}]
    /\ run = [s \in Streams |-> "off"]
    /\ todo = [s \in Streams |-> {}]
    /\ rnd = [s \in Streams |-> 0]
    /\ wrk = [s \in Streams |-> [p \in Paths |-> "off"]]
    /\ pend = [s \in Streams |-> [r \in Routines |-> NoItem]]
    /\ synced = [s \in Streams |-> {}]
    /\ clock = [s \in Streams |-> 0]
    /\ upd = [s \in Streams |-> [p \in Paths |-> 0]]
    /\ conn = [s \in Streams |-> "up"]
    /\ eof = [s \in Streams |-> FALSE]
    /\ polls = [s \in Streams |-> 0]
    /\ issued = [s \in Streams |-> 0]
    /\ got = [s \in Streams |-> [p \in Paths |-> 0]]
    /\ syncs = [s \in Streams |-> 0]

Main(s) == \/ Subscribe(s) \/ RunAborted(s) \/ RunRefused(s) \/ RunQuery(s)
           \/ RunStart(s) \/ Get(s) \/ GetDisposed(s) \/ Send(s)
           \/ SendError(s) \/ RunClose(s) \/ RunWait(s) \/ Unregister(s)

Recv(s) == \/ RecvPoll(s) \/ RecvPush(s) \/ RecvEnd(s) \/ RecvEOF(s)
           \/ RecvClose(s)

Data(s) == \/ StreamUnsupported(s) \/ StreamSync(s) \/ StreamPut(s)
           \/ StreamStop(s) \/ SampleValidated(s) \/ SampleSync(s)
           \/ PollRound(s) \/ PollStop(s) \/ PollReadError(s) \/ PollSync(s)
           \/ OnceSync(s) \/ OnceRun(s)
           \/ \E p \in Paths : StreamSpawn(s, p) \/ RoundValue(s, p)

Path(s, p) == PathFirst(s, p) \/ PathUpdate(s, p) \/ PathPut(s, p) \/ PathStop(s, p)

Client(s) == ClientPoll(s) \/ ClientEOF(s) \/ Disconnect(s)

(***************************************************************************)
(* A panic in any goroutine ends the process.                              *)
(***************************************************************************)
Next == /\ panic = "none"
        /\ \E s \in Streams : \/ Main(s) \/ Recv(s) \/ Data(s) \/ Client(s)
                              \/ \E p \in Paths : Path(s, p)

(***************************************************************************)
(* Goroutines that can run do run.  A client need not send, close or       *)
(* disconnect; it does read its responses.  Nothing makes a first query    *)
(* arrive, but a failed first Recv returns.                                *)
(***************************************************************************)
Fairness ==
    \A s \in Streams :
        /\ WF_vars(panic = "none" /\ (\/ RunAborted(s) \/ RunStart(s) \/ Get(s)
                                      \/ GetDisposed(s) \/ Send(s) \/ SendError(s)
                                      \/ RunClose(s) \/ RunWait(s) \/ Unregister(s)))
        /\ WF_vars(panic = "none" /\ (RecvPoll(s) \/ RecvPush(s) \/ RecvEOF(s)
                                      \/ RecvClose(s)))
        /\ WF_vars(panic = "none" /\ CtxDone(s) /\ RecvEnd(s))
        /\ WF_vars(panic = "none" /\ Data(s))
        /\ \A p \in Paths : WF_vars(panic = "none" /\ Path(s, p))

Spec == Init /\ [][Next]_vars

FairSpec == Spec /\ Fairness

-----------------------------------------------------------------------------
(* Properties *)

(***************************************************************************)
(* Every variable keeps its type; polled and once never hold more tokens   *)
(* than their capacity of one.                                             *)
(***************************************************************************)
TypeOK ==
    /\ clients \in [Addrs -> Streams \cup {NoStream}]
    /\ panic \in {"none", "sendOnClosed", "closeOfClosed", "negativeWaitGroup"}
    /\ rpc \in [Streams -> {"idle", "init", "made", "get", "send", "close",
                            "wait", "unreg", "done"}]
    /\ mode \in [Streams -> {"STREAM", "POLL", "ONCE"}]
    /\ kind \in [Streams -> {"db", "nondb", "transl", "updates"}]
    /\ item \in [Streams -> Items]
    /\ recv \in [Streams -> {"off", "recv", "push", "eofwait", "close", "done"}]
    /\ disposed \in [Streams -> BOOLEAN]
    /\ q \in [Streams -> SUBSET Items]
    /\ chan \in [Streams -> {"nil", "open", "closed"}]
    /\ tok \in [Streams -> {0, 1}]
    /\ w \in [Streams -> SUBSET Routines]
    /\ run \in [Streams -> {"off", "spawn", "validate", "initial", "put",
                            "stopwait", "poll", "round", "once", "exit"}]
    /\ todo \in [Streams -> SUBSET Paths]
    /\ rnd \in [Streams -> Nat]
    /\ wrk \in [Streams -> [Paths -> {"off", "start", "put", "loop", "done"}]]
    /\ pend \in [Streams -> [Routines -> Items]]
    /\ synced \in [Streams -> SUBSET Paths]
    /\ clock \in [Streams -> Nat]
    /\ upd \in [Streams -> [Paths -> Nat]]
    /\ conn \in [Streams -> {"up", "down"}]
    /\ eof \in [Streams -> BOOLEAN]
    /\ polls \in [Streams -> Nat]
    /\ issued \in [Streams -> Nat]
    /\ got \in [Streams -> [Paths -> Nat]]
    /\ syncs \in [Streams -> Nat]

(***************************************************************************)
(* A sync_response tells the client that it has been sent every path's     *)
(* value of that round: no interleaving of the path goroutines, of their   *)
(* failures and of send puts a sync_response before a value it vouches     *)
(* for (the synced WaitGroup of StreamRun, the order of the queue).  Only  *)
(* the first one of a query with updates_only vouches for nothing.         *)
(***************************************************************************)
Vouches(s, r) == kind[s] = "updates" => r # 1

SyncComplete ==
    \A s \in Streams, p \in Paths : Vouches(s, syncs[s]) => got[s][p] >= syncs[s]

(***************************************************************************)
(* The values of a path are sent in the order they were read in: when send *)
(* holds a value of a path, no older value of that path is queued or about *)
(* to be queued.                                                           *)
(***************************************************************************)
PathInOrder ==
    \A s \in Streams, r \in Routines :
        rpc[s] = "send" =>
            \A j \in q[s] \cup {pend[s][r]} :
                (j.kind = "data" /\ j.src = item[s].src) => item[s].ts < j.ts

(***************************************************************************)
(* No goroutine of a session panics: Close runs in two goroutines of the   *)
(* session, and recv sends on the channel that Close closes.               *)
(***************************************************************************)
NoPanic == panic = "none"

(***************************************************************************)
(* However often and from wherever Close is called, a channel is closed    *)
(* once and no WaitGroup is decremented below zero.                        *)
(***************************************************************************)
ClosedOnce == panic \notin {"closeOfClosed", "negativeWaitGroup"}

(***************************************************************************)
(* "Wait until all child go routines exited": when Run has returned, the   *)
(* data goroutine and the goroutines of the paths have returned.           *)
(***************************************************************************)
ChildrenExited ==
    \A s \in Streams :
        rpc[s] \in {"unreg", "done"} =>
            /\ run[s] \in {"off", "exit"}
            /\ \A p \in Paths : wrk[s][p] \in {"off", "done"}

(***************************************************************************)
(* The registry never holds a client whose Subscribe call has returned,    *)
(* whichever of two calls from one address returns first.                  *)
(***************************************************************************)
RegistryLive ==
    \A a \in Addrs :
        clients[a] # NoStream => /\ rpc[clients[a]] \notin {"idle", "done"}
                                 /\ AddrOf[clients[a]] = a

(***************************************************************************)
(* The registry holds a client of every address with a call in progress.   *)
(* Fails: the older of two calls, when it returns, deletes the newer one's *)
(* entry.                                                                  *)
(***************************************************************************)
InProgressRegistered ==
    \A s \in Streams : rpc[s] \notin {"idle", "unreg", "done"} =>
                           clients[AddrOf[s]] # NoStream

(***************************************************************************)
(* "It will run until the stream is closed": once the connection is gone,  *)
(* every goroutine winds down and the Subscribe call returns.              *)
(***************************************************************************)
RunReturns == \A s \in Streams : (conn[s] = "down") ~> (rpc[s] = "done")

(***************************************************************************)
(* A STREAM session gets its sync_response or ends: a path that fails does *)
(* not leave the client waiting.                                           *)
(***************************************************************************)
SyncOrEnd ==
    \A s \in Streams :
        (rpc[s] = "get" /\ mode[s] = "STREAM")
            ~> (syncs[s] >= 1 \/ rpc[s] \notin {"get", "send"})

(***************************************************************************)
(* Every poll, and the one round of ONCE, is answered by the sync_response *)
(* of a round or by the end of the session; the round that Run itself asks *)
(* for is included.                                                        *)
(***************************************************************************)
PollAnswered ==
    \A s \in Streams :
        (rpc[s] = "get" /\ mode[s] # "STREAM" /\ syncs[s] <= issued[s])
            ~> (syncs[s] > issued[s] \/ rpc[s] \notin {"get", "send"})

(***************************************************************************)
(* The same, except that a value that cannot be read ends the data routine *)
(* without an answer (the return in the loops of PollRun and OnceRun).     *)
(***************************************************************************)
RoundAnswered ==
    \A s \in Streams :
        (rpc[s] = "get" /\ mode[s] # "STREAM" /\ syncs[s] <= issued[s])
            ~> \/ syncs[s] > issued[s]
               \/ rpc[s] \notin {"get", "send"}
               \/ run[s] = "exit" /\ q[s] = {}

(***************************************************************************)
(* A session implements ResponseRounds: whatever its goroutines, Close and *)
(* a client that polls ahead do, the responses that leave send are rounds  *)
(* in order, each closed once and only after a value of every path, and    *)
(* none is sent after send has returned.                                   *)
(***************************************************************************)
Phase(s) == CASE rpc[s] \in {"idle", "init"} -> "new"
              [] rpc[s] \in {"made", "get", "send"} -> "open"
              [] OTHER -> "over"

Responses == INSTANCE ResponseRounds
    WITH phase <- [s \in Streams |-> Phase(s)],
         exempt <- [s \in Streams |-> kind[s] = "updates"]

AnswersInRounds == Responses!Spec
=============================================================================
