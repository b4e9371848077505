---------------------------- MODULE DialOutServer ----------------------------
(***************************************************************************)
(* The dial-out collector (dialout_server.go): the Publish RPC with its    *)
(* registry of clients, Client.Run, which appends what it receives to the  *)
(* data store, Close, SetDataStore and Stop.                               *)
(*                                                                         *)
(* Responses of a call are numbered.  gRPC is external: it delivers what   *)
(* was sent in order, then the end of the stream; a connection that breaks *)
(* loses any number of responses.  append under sRWMu is a read of the     *)
(* slice and a write of the longer one.                                    *)
(***************************************************************************)
EXTENDS Naturals, Sequences, FiniteSets, Functions

CONSTANTS Calls, NoCall,  \* Publish calls; no call
          Addrs, AddrOf,  \* peer addresses; the one a call comes from
          SetLate,        \* whether the data store may be set while calls run
          MaxSent         \* bound: responses of one call

ASSUME ServerAssumption ==
    /\ NoCall \notin Calls
    /\ AddrOf \in [Calls -> Addrs]
    /\ SetLate \in BOOLEAN
    /\ MaxSent \in Nat

VARIABLES
    clients,  \* Server.clients: address -> call
    closed,   \* calls whose Close a later call has made
    lock,     \* the call that holds sRWMu, or NoCall
    ds,       \* whether there is a data store
    store,    \* the data store
    stopped,  \* Stop has been called
    pc,       \* control point of Publish and Run
    loc,      \* the slice append has read
    cur,      \* the response that has been received
    status,   \* what Run has returned
    conn,     \* the stream: "up", "eof" (the sender has closed it), "broken"
    sent,     \* responses the sender has sent
    printed   \* responses that have been printed

vars == <<clients, closed, lock, ds, store, stopped, pc, loc, cur, status, conn, sent, printed>>

serverVars == <<clients, closed, stopped>>
storeVars == <<lock, ds, store, loc, printed>>

-----------------------------------------------------------------------------
(* Faults, for mutation testing *)

LockFreeAlways == TRUE                           \* append without sRWMu
EndedEarly(c) == conn[c] # "up"                  \* the end before what precedes it
ErrorIgnored(c) == FALSE                         \* Run retries after an error

-----------------------------------------------------------------------------
(* Publish *)

Goto(c, l) == pc' = [pc EXCEPT ![c] = l]

\* Close of the call registered under an address.  It has no effect on it: its
\* channels stop and polled are never made.
Closed(a) == closed \cup ({clients[a]} \ {NoCall})

\* Register under the peer address, in place of another call.
Publish(c) ==
    LET a == AddrOf[c] IN
    /\ pc[c] = "idle"
    /\ ~stopped
    /\ clients' = [clients EXCEPT ![a] = c]
    /\ closed' = Closed(a)
    /\ Goto(c, "recv")
    /\ UNCHANGED <<stopped, storeVars, cur, status, conn, sent>>

Removed(c) == [clients EXCEPT ![AddrOf[c]] = NoCall]

PublishEnd(c) ==
    /\ pc[c] = "unreg"
    /\ clients' = Removed(c)
    /\ Goto(c, "done")
    /\ UNCHANGED <<closed, stopped, storeVars, cur, status, conn, sent>>

-----------------------------------------------------------------------------
(* Run *)

RunRecv(c) ==
    /\ pc[c] = "recv"
    /\ cur[c] < sent[c]
    /\ cur' = [cur EXCEPT ![c] = @ + 1]
    /\ Goto(c, "lock")
    /\ UNCHANGED <<serverVars, storeVars, status, conn, sent>>

\* io.EOF comes after the last response, any other error at any time.
Ended(c) == conn[c] = "eof" /\ cur[c] = sent[c]

Broken(c) == conn[c] = "broken"

RunEnd(c) ==
    /\ pc[c] = "recv"
    /\ \/ Ended(c) /\ status' = [status EXCEPT ![c] = "eof"]
       \/ Broken(c) /\ status' = [status EXCEPT ![c] = "error"]
    /\ Goto(c, "unreg")
    /\ UNCHANGED <<serverVars, storeVars, cur, conn, sent>>

LockFree == lock = NoCall

RunLock(c) ==
    /\ pc[c] = "lock"
    /\ LockFree
    /\ lock' = c
    /\ loc' = [loc EXCEPT ![c] = store]
    /\ Goto(c, IF ds THEN "append" ELSE "unlock")
    /\ UNCHANGED <<serverVars, ds, store, printed, cur, status, conn, sent>>

RunAppend(c) ==
    /\ pc[c] = "append"
    /\ store' = Append(loc[c], <<c, cur[c]>>)
    /\ loc' = [loc EXCEPT ![c] = <<>>]
    /\ Goto(c, "unlock")
    /\ UNCHANGED <<serverVars, lock, ds, printed, cur, status, conn, sent>>

RunUnlock(c) ==
    /\ pc[c] = "unlock"
    /\ lock' = NoCall
    /\ loc' = [loc EXCEPT ![c] = <<>>]
    /\ Goto(c, "print")
    /\ UNCHANGED <<serverVars, ds, store, printed, cur, status, conn, sent>>

\* The test for a data store is repeated without the lock.
RunPrint(c) ==
    /\ pc[c] = "print"
    /\ printed' = IF ds THEN printed ELSE printed \cup {<<c, cur[c]>>}
    /\ Goto(c, "recv")
    /\ UNCHANGED <<serverVars, lock, ds, store, loc, cur, status, conn, sent>>

-----------------------------------------------------------------------------
(* The program that runs the server, and the senders *)

SetDataStore ==
    /\ SetLate \/ \A c \in Calls : pc[c] = "idle"
    /\ ~ds
    /\ ds' = TRUE
    /\ UNCHANGED <<serverVars, lock, store, loc, printed, pc, cur, status, conn, sent>>

\* Stop closes all connections.
Stop ==
    /\ ~stopped
    /\ stopped' = TRUE
    /\ conn' = [c \in Calls |-> "broken"]
    /\ UNCHANGED <<clients, closed, storeVars, pc, cur, status, sent>>

SenderSend(c) ==
    /\ conn[c] = "up" /\ pc[c] \notin {"idle", "unreg", "done"}
    /\ sent[c] < MaxSent
    /\ sent' = [sent EXCEPT ![c] = @ + 1]
    /\ UNCHANGED <<serverVars, storeVars, pc, cur, status, conn>>

SenderEnds(c) ==
    /\ conn[c] = "up" /\ pc[c] # "idle"
    /\ \E x \in {"eof", "broken"} : conn' = [conn EXCEPT ![c] = x]
    /\ UNCHANGED <<serverVars, storeVars, pc, cur, status, sent>>

-----------------------------------------------------------------------------

Init ==
    /\ clients = [a \in Addrs |-> NoCall] /\ closed = {} /\ stopped = FALSE
    /\ lock = NoCall /\ ds = FALSE /\ store = <<>> /\ printed = {}
    /\ pc = [c \in Calls |-> "idle"] /\ cur = [c \in Calls |-> 0]
    /\ loc = [c \in Calls |-> <<>>] /\ status = [c \in Calls |-> "none"]
    /\ conn = [c \in Calls |-> "up"] /\ sent = [c \in Calls |-> 0]

Run(c) == RunRecv(c) \/ RunEnd(c) \/ RunLock(c) \/ RunAppend(c) \/ RunUnlock(c) \/ RunPrint(c)

Next ==
    \/ SetDataStore \/ Stop
    \/ \E c \in Calls : Publish(c) \/ Run(c) \/ PublishEnd(c) \/ SenderSend(c) \/ SenderEnds(c)

Spec == Init /\ [][Next]_vars

\* A handler that can run does; the mutex is given to a call that waits for
\* it again and again.
FairSpec ==
    /\ Spec
    /\ \A c \in Calls : WF_vars(Run(c) \/ PublishEnd(c)) /\ SF_vars(RunLock(c))

-----------------------------------------------------------------------------
(* Properties *)

\* Run and sRWMu: the data store implements ResponseStore.  Calls that append
\* at the same time lose, repeat and reorder nothing.
Kept(c) == Cardinality({i \in DOMAIN store : store[i][1] = c})

Abstract == INSTANCE ResponseStore WITH kept <- [c \in Calls |-> Kept(c)], list <- store

StoresInOrder == Abstract!Spec

\* Run returns Aborted at the end of a stream: all that the sender sent is in
\* the data store by then, or has been printed if there is none.  Holds while
\* the data store is not set during a call.
CompleteAtEOF ==
    \A c \in Calls : status[c] = "eof" =>
        \A n \in 1..sent[c] : <<c, n>> \in printed \cup Range(store)

\* Stop, or the end of its stream, ends a call.
CallsEnd == \A c \in Calls : (conn[c] # "up" /\ pc[c] # "idle") ~> (pc[c] = "done")

\* "It will cause ... exit": a call that is closed by a later one from its
\* address returns.  Fails: Close finds no channel to close.
ClosedEnds == \A c \in Calls : c \in closed ~> pc[c] = "done"

\* Publish: a call in progress is registered, so that a later one from its
\* address can close it.  Fails if an older call returns after it came.
InProgressRegistered ==
    \A c \in Calls \ closed : pc[c] \in {"recv", "lock"} => clients[AddrOf[c]] = c
=============================================================================
