----------------------- MODULE SubscribeSessionProofs -----------------------
(***************************************************************************)
(* Proofs about SubscribeSession, for every set of calls, addresses and    *)
(* paths and every bound.                                                  *)
(***************************************************************************)
EXTENDS SubscribeSession, TLAPS

(***************************************************************************)
(* Every call has an address, and no call is the absence of one.           *)
(***************************************************************************)
LEMMA AddrFacts == AddrOf \in [Streams -> Addrs] /\ NoStream \notin Streams
BY ConstantsAssumption

(***************************************************************************)
(* The path goroutines and the data goroutine are different.               *)
(***************************************************************************)
LEMMA RoutinesFacts == Run \in Routines /\ Paths \subseteq Routines /\ Run \notin Paths
BY ConstantsAssumption DEF Routines

(***************************************************************************)
(* What a goroutine stamps is a value of the queue, and so is no value.    *)
(***************************************************************************)
LEMMA NoItemType == NoItem \in Items
BY RoutinesFacts DEF NoItem, Items

(***************************************************************************)
(* A value is stamped with a natural number.                               *)
(***************************************************************************)
LEMMA StampedType ==
    ASSUME NEW s \in Streams, clock[s] \in Nat, rnd[s] \in Nat,
           NEW r \in Routines, NEW k \in {"data", "sync", "fatal"}
    PROVE  Stamped(s, r, k) \in Items
BY DEF Stamped, Items

(***************************************************************************)
(* The fields of a value.                                                  *)
(***************************************************************************)
LEMMA ItemType ==
    ASSUME NEW i \in Items
    PROVE  i.ts \in Nat /\ i.kind \in {"data", "sync", "fatal"}
             /\ i.src \in Routines /\ i.rnd \in Nat
BY DEF Items

(***************************************************************************)
(* What Close, Done and Put leave is typed, whichever branch they take.    *)
(***************************************************************************)
LEMMA CloseType ==
    ASSUME TypeOK, NEW s \in Streams, Close(s)
    PROVE  /\ disposed' \in [Streams -> BOOLEAN]
           /\ q' \in [Streams -> SUBSET Items]
           /\ chan' \in [Streams -> {"nil", "open", "closed"}]
           /\ panic' \in {"none", "sendOnClosed", "closeOfClosed",
                          "negativeWaitGroup"}
<1>1. CASE NotDisposed(s)
  <2>1. disposed' \in [Streams -> BOOLEAN]
    BY <1>1 DEF Close, TypeOK
  <2>2. q' \in [Streams -> SUBSET Items]
    BY <1>1 DEF Close, TypeOK
  <2>3. chan' \in [Streams -> {"nil", "open", "closed"}]
    BY <1>1 DEF Close, ClosedChan, TypeOK
  <2>4. panic' \in {"none", "sendOnClosed", "closeOfClosed", "negativeWaitGroup"}
    BY <1>1 DEF Close, TypeOK
  <2>5. QED
    BY <2>1, <2>2, <2>3, <2>4
<1>2. CASE ~NotDisposed(s)
  BY <1>2 DEF Close, closeVars, TypeOK
<1>3. QED
  BY <1>1, <1>2

(***************************************************************************)
(* Done leaves the WaitGroup and panic in their types.                     *)
(***************************************************************************)
LEMMA WDoneType ==
    ASSUME TypeOK, NEW s \in Streams, NEW r \in Routines, WDone(s, r)
    PROVE  /\ w' \in [Streams -> SUBSET Routines]
           /\ panic' \in {"none", "sendOnClosed", "closeOfClosed",
                          "negativeWaitGroup"}
<1>1. w' \in [Streams -> SUBSET Routines]
  BY DEF WDone, TypeOK
<1>2. panic' \in {"none", "sendOnClosed", "closeOfClosed", "negativeWaitGroup"}
  BY DEF WDone, TypeOK
<1>3. QED
  BY <1>1, <1>2

(***************************************************************************)
(* Put leaves a set of values.                                             *)
(***************************************************************************)
LEMMA PutType ==
    ASSUME TypeOK, NEW s \in Streams, NEW i \in Items, Put(s, i)
    PROVE  q' \in [Streams -> SUBSET Items]
BY DEF Put, TypeOK

(***************************************************************************)
(* Every variable of the sessions keeps its type.                          *)
(***************************************************************************)
THEOREM TypeCorrect == Spec => []TypeOK
<1> USE ConstantsAssumption, RoutinesFacts
<1>1. Init => TypeOK
  BY NoItemType DEF Init, TypeOK
<1>2. TypeOK /\ [Next]_vars => TypeOK'
  <2> SUFFICES ASSUME TypeOK, [Next]_vars PROVE TypeOK'
    OBVIOUS
  <2> USE DEF TypeOK, mainVars, closeVars, dataVars, envVars, histVars
  <2>1. ASSUME NEW s \in Streams, Subscribe(s) PROVE TypeOK'
    <3>1. CASE clients[AddrOf[s]] = NoStream
      BY <2>1, <3>1 DEF Subscribe
    <3>2. CASE clients[AddrOf[s]] # NoStream
      <4>1. clients[AddrOf[s]] \in Streams /\ Close(clients[AddrOf[s]])
        BY <2>1, <3>2 DEF Subscribe
      <4>2. QED
        BY <2>1, <4>1, CloseType DEF Subscribe
    <3>3. QED
      BY <3>1, <3>2
  <2>2. ASSUME NEW s \in Streams, Unregister(s) PROVE TypeOK'
    BY <2>2 DEF Unregister, Removed
  <2>3. ASSUME NEW s \in Streams, RunAborted(s) PROVE TypeOK'
    BY <2>3 DEF RunAborted
  <2>4. ASSUME NEW s \in Streams, RunRefused(s) PROVE TypeOK'
    BY <2>4 DEF RunRefused
  <2>5. ASSUME NEW s \in Streams, RunQuery(s) PROVE TypeOK'
    BY <2>5 DEF RunQuery
  <2>6. ASSUME NEW s \in Streams, RunStart(s) PROVE TypeOK'
    BY <2>6 DEF RunStart
  <2>7. ASSUME NEW s \in Streams, RunClose(s) PROVE TypeOK'
    BY <2>7, CloseType DEF RunClose
  <2>8. ASSUME NEW s \in Streams, RunWait(s) PROVE TypeOK'
    BY <2>8 DEF RunWait
  <2>9. ASSUME NEW s \in Streams, Get(s) PROVE TypeOK'
    BY <2>9 DEF Get, Oldest
  <2>10. ASSUME NEW s \in Streams, GetDisposed(s) PROVE TypeOK'
    BY <2>10 DEF GetDisposed
  <2>11. ASSUME NEW s \in Streams, Send(s) PROVE TypeOK'
    <3>1. item[s].rnd \in Nat /\ item[s].kind \in {"data", "sync", "fatal"}
      BY ItemType
    <3>2. got' \in [Streams -> [Paths -> Nat]] /\ syncs' \in [Streams -> Nat]
      <4>1. CASE item[s].kind = "sync"
        BY <2>11, <3>1, <4>1 DEF Send
      <4>2. CASE item[s].kind # "sync"
        <5>1. got[s] \in [Paths -> Nat]
          OBVIOUS
        <5>2. [got[s] EXCEPT ![item[s].src] = item[s].rnd] \in [Paths -> Nat]
          BY <3>1, <5>1
        <5>3. QED
          <6>1. got' = [got EXCEPT ![s] = [got[s] EXCEPT ![item[s].src] = item[s].rnd]]
            BY <2>11, <4>2, Zenon DEF Send
          <6>2. got' \in [Streams -> [Paths -> Nat]]
            BY <5>2, <6>1
          <6>3. QED
            BY <2>11, <4>2, <6>2 DEF Send
      <4>3. QED
        BY <4>1, <4>2
    <3>3. QED
      BY <2>11, <3>2 DEF Send
  <2>12. ASSUME NEW s \in Streams, SendError(s) PROVE TypeOK'
    BY <2>12 DEF SendError
  <2>13. ASSUME NEW s \in Streams, RecvPoll(s) PROVE TypeOK'
    BY <2>13 DEF RecvPoll
  <2>14. ASSUME NEW s \in Streams, RecvPush(s) PROVE TypeOK'
    <3>1. CASE chan[s] = "open"
      <4>1. tok[s] = 0 /\ tok' = [tok EXCEPT ![s] = tok[s] + 1]
        BY <2>14, <3>1 DEF RecvPush, PolledRoom
      <4>2. tok' \in [Streams -> {0, 1}]
        BY <4>1
      <4>3. recv' \in [Streams -> {"off", "recv", "push", "eofwait", "close", "done"}]
        <5>1. recv' = [recv EXCEPT ![s] = "recv"]
          BY <2>14, <3>1 DEF RecvPush
        <5>2. QED
          BY <5>1
      <4>4. UNCHANGED panic
        BY <2>14, <3>1 DEF RecvPush
      <4>5. QED
        BY <2>14, <4>2, <4>3, <4>4 DEF RecvPush
    <3>2. CASE chan[s] = "closed"
      BY <2>14, <3>2 DEF RecvPush
    <3>3. QED
      BY <2>14, <3>1, <3>2 DEF RecvPush
  <2>15. ASSUME NEW s \in Streams, RecvEnd(s) PROVE TypeOK'
    BY <2>15 DEF RecvEnd
  <2>16. ASSUME NEW s \in Streams, RecvEOF(s) PROVE TypeOK'
    BY <2>16 DEF RecvEOF
  <2>17. ASSUME NEW s \in Streams, RecvClose(s) PROVE TypeOK'
    BY <2>17, CloseType DEF RecvClose
  <2>18. ASSUME NEW s \in Streams, StreamUnsupported(s) PROVE TypeOK'
    BY <2>18, StampedType DEF StreamUnsupported, Tick
  <2>19. ASSUME NEW s \in Streams, StreamSync(s) PROVE TypeOK'
    BY <2>19, StampedType DEF StreamSync, Tick
  <2>20. ASSUME NEW s \in Streams, StreamPut(s) PROVE TypeOK'
    <3>1. q' \in [Streams -> SUBSET Items]
      BY <2>20, PutType DEF StreamPut
    <3>2. pend' \in [Streams -> [Routines -> Items]]
      BY <2>20, NoItemType DEF StreamPut
    <3>3. CASE pend[s][Run].kind = "sync"
      <4>1. /\ run' = [run EXCEPT ![s] = "stopwait"]
            /\ \/ wrk' = wrk
               \/ wrk' = [wrk EXCEPT ![s] = [p \in Paths |-> "loop"]]
            /\ UNCHANGED <<w, panic>>
        BY <2>20, <3>3, Zenon DEF StreamPut
      <4>2. wrk' \in [Streams -> [Paths -> {"off", "start", "put", "loop", "done"}]]
        <5>1. CASE wrk' = wrk
          BY <5>1
        <5>2. CASE wrk' = [wrk EXCEPT ![s] = [p \in Paths |-> "loop"]]
          <6>1. [p \in Paths |-> "loop"]
                  \in [Paths -> {"off", "start", "put", "loop", "done"}]
            OBVIOUS
          <6>2. QED
            BY <5>2, <6>1
        <5>3. QED
          BY <4>1, <5>1, <5>2
      <4>3. QED
        BY <2>20, <3>1, <3>2, <4>1, <4>2 DEF StreamPut
    <3>4. CASE pend[s][Run].kind # "sync"
      <4>1. run' = [run EXCEPT ![s] = "exit"] /\ WDone(s, Run) /\ UNCHANGED wrk
        BY <2>20, <3>4, Zenon DEF StreamPut
      <4>2. QED
        BY <2>20, <3>1, <3>2, <4>1, WDoneType DEF StreamPut
    <3>5. QED
      BY <3>3, <3>4
  <2>21. ASSUME NEW s \in Streams, StreamStop(s) PROVE TypeOK'
    BY <2>21 DEF StreamStop, WDone
  <2>22. ASSUME NEW s \in Streams, SampleValidated(s) PROVE TypeOK'
    BY <2>22 DEF SampleValidated
  <2>23. ASSUME NEW s \in Streams, SampleSync(s) PROVE TypeOK'
    BY <2>23, StampedType DEF SampleSync, Tick
  <2>24. ASSUME NEW s \in Streams, PollRound(s) PROVE TypeOK'
    BY <2>24 DEF PollRound
  <2>25. ASSUME NEW s \in Streams, PollStop(s) PROVE TypeOK'
    BY <2>25 DEF PollStop, WDone
  <2>26. ASSUME NEW s \in Streams, PollReadError(s) PROVE TypeOK'
    BY <2>26 DEF PollReadError, WDone
  <2>27. ASSUME NEW s \in Streams, PollSync(s) PROVE TypeOK'
    BY <2>27, StampedType DEF PollSync, Put, Tick
  <2>28. ASSUME NEW s \in Streams, OnceRun(s) PROVE TypeOK'
    BY <2>28 DEF OnceRun
  <2>29. ASSUME NEW s \in Streams, ClientPoll(s) PROVE TypeOK'
    BY <2>29 DEF ClientPoll
  <2>30. ASSUME NEW s \in Streams, ClientEOF(s) PROVE TypeOK'
    BY <2>30 DEF ClientEOF
  <2>31. ASSUME NEW s \in Streams, Disconnect(s) PROVE TypeOK'
    BY <2>31 DEF Disconnect
  <2>32. ASSUME NEW s \in Streams, NEW p \in Paths, StreamSpawn(s, p) PROVE TypeOK'
    BY <2>32 DEF StreamSpawn
  <2>33. ASSUME NEW s \in Streams, NEW p \in Paths, PathFirst(s, p) PROVE TypeOK'
    BY <2>33, StampedType DEF PathFirst, Tick
  <2>34. ASSUME NEW s \in Streams, NEW p \in Paths, PathUpdate(s, p) PROVE TypeOK'
    BY <2>34, StampedType DEF PathUpdate, Tick
  <2>35. ASSUME NEW s \in Streams, NEW p \in Paths, PathPut(s, p) PROVE TypeOK'
    <3>1. q' \in [Streams -> SUBSET Items]
      BY <2>35, PutType DEF PathPut
    <3>2. pend' \in [Streams -> [Routines -> Items]]
      BY <2>35, NoItemType DEF PathPut
    <3>3. wrk' \in [Streams -> [Paths -> {"off", "start", "put", "loop", "done"}]]
      BY <2>35 DEF PathPut
    <3>4. synced' \in [Streams -> SUBSET Paths]
      BY <2>35 DEF PathPut, Signalled
    <3>5. CASE WDone(s, p)
      BY <2>35, <3>1, <3>2, <3>3, <3>4, <3>5, WDoneType DEF PathPut
    <3>6. CASE UNCHANGED <<w, panic>>
      BY <2>35, <3>1, <3>2, <3>3, <3>4, <3>6 DEF PathPut
    <3>7. QED
      BY <2>35, <3>5, <3>6 DEF PathPut, PathReturns
  <2>36. ASSUME NEW s \in Streams, NEW p \in Paths, PathStop(s, p) PROVE TypeOK'
    <3>1. CASE WDone(s, p)
      BY <2>36, <3>1, WDoneType DEF PathStop
    <3>2. CASE UNCHANGED <<w, panic>>
      BY <2>36, <3>2 DEF PathStop
    <3>3. QED
      BY <2>36, <3>1, <3>2 DEF PathStop, PathReturns
  <2>37. ASSUME NEW s \in Streams, NEW p \in Paths, RoundValue(s, p) PROVE TypeOK'
    <3>1. q' \in [Streams -> SUBSET Items] /\ clock' \in [Streams -> Nat]
      <4>1. CASE LeftOut(s)
        BY <2>37, <4>1 DEF RoundValue
      <4>2. CASE ~LeftOut(s)
        <5>1. Put(s, Stamped(s, p, "data")) /\ Tick(s)
          BY <2>37, <4>2 DEF RoundValue
        <5>2. Stamped(s, p, "data") \in Items
          BY StampedType
        <5>3. q' \in [Streams -> SUBSET Items]
          BY <5>1, <5>2, PutType
        <5>4. clock' \in [Streams -> Nat]
          BY <5>1 DEF Tick
        <5>5. QED
          BY <5>3, <5>4
      <4>3. QED
        BY <4>1, <4>2
    <3>2. QED
      BY <2>37, <3>1 DEF RoundValue
  <2>38. CASE UNCHANGED vars
    BY <2>38 DEF vars
  <2>39. ASSUME NEW s \in Streams, OnceSync(s) PROVE TypeOK'
    <3>1. q' \in [Streams -> SUBSET Items]
      <4>1. Stamped(s, Run, "sync") \in Items
        BY StampedType
      <4>2. QED
        BY <2>39, <4>1, PutType DEF OnceSync
    <3>2. /\ w' \in [Streams -> SUBSET Routines]
          /\ panic' \in {"none", "sendOnClosed", "closeOfClosed",
                         "negativeWaitGroup"}
      BY <2>39, WDoneType DEF OnceSync
    <3>3. /\ run' = [run EXCEPT ![s] = "exit"]
          /\ clock' = [clock EXCEPT ![s] = clock[s] + 1]
          /\ UNCHANGED <<clients, mainVars, mode, kind, recv, disposed, chan, tok,
                         todo, rnd, wrk, pend, synced, upd, envVars, histVars>>
      BY <2>39, Zenon DEF OnceSync, Tick
    <3>4. QED
      BY <3>1, <3>2, <3>3
  <2>40. QED
    BY <2>1, <2>2, <2>3, <2>4, <2>5, <2>6, <2>7, <2>8, <2>9, <2>10, <2>11,
       <2>12, <2>13, <2>14, <2>15, <2>16, <2>17, <2>18, <2>19, <2>20, <2>21,
       <2>22, <2>23, <2>24, <2>25, <2>26, <2>27, <2>28, <2>29, <2>30, <2>31,
       <2>32, <2>33, <2>34, <2>35, <2>36, <2>37, <2>38, <2>39
    DEF Next, Main, Recv, Data, Path, Client
<1>3. QED
  BY <1>1, <1>2, PTL DEF Spec

(***************************************************************************)
(* What makes Close, Done and Wait safe in session s: only a disposed      *)
(* session has a closed channel; a goroutine that runs is counted in w     *)
(* (in a non-DB session, only the data goroutine); none runs before Run    *)
(* has started it; and none runs once Run has returned, but for a non-DB   *)
(* session.                                                                *)
(***************************************************************************)
Counted(s) ==
    /\ chan[s] = "closed" => disposed[s]
    /\ run[s] \notin {"off", "exit"} => Run \in w[s]
    /\ \A p \in Paths :
          kind[s] # "nondb" /\ wrk[s][p] \in {"start", "put", "loop"} => p \in w[s]
    /\ rpc[s] \in {"idle", "init", "made"} =>
          run[s] = "off" /\ \A p \in Paths : wrk[s][p] = "off"
    /\ rpc[s] \in {"unreg", "done"} /\ kind[s] # "nondb" =>
          /\ run[s] \in {"off", "exit"}
          /\ \A p \in Paths : wrk[s][p] \in {"off", "done"}

CountedInv == ClosedOnce /\ \A s \in Streams : Counted(s)

(***************************************************************************)
(* Close keeps a session counted and never closes a closed channel.        *)
(***************************************************************************)
LEMMA CloseCounted ==
    ASSUME TypeOK, CountedInv, NEW s \in Streams, Close(s)
    PROVE  /\ ClosedOnce'
           /\ \A t \in Streams : chan'[t] = "closed" => disposed'[t]
<1>1. CASE NotDisposed(s)
  <2>1. chan[s] # "closed"
    BY <1>1 DEF NotDisposed, CountedInv, Counted
  <2>2. ClosedOnce'
    BY <1>1, <2>1 DEF Close, CountedInv, ClosedOnce
  <2>3. ASSUME NEW t \in Streams, chan'[t] = "closed" PROVE disposed'[t]
    <3>1. disposed' = [disposed EXCEPT ![s] = TRUE]
      BY <1>1 DEF Close
    <3>2. CASE t = s
      BY <3>1, <3>2 DEF TypeOK
    <3>3. CASE t # s
      <4>1. chan'[t] = chan[t]
        BY <1>1, <3>3 DEF Close, TypeOK
      <4>2. disposed'[t] = disposed[t]
        BY <3>1, <3>3 DEF TypeOK
      <4>3. QED
        BY <2>3, <4>1, <4>2 DEF CountedInv, Counted
    <3>4. QED
      BY <3>2, <3>3
  <2>4. QED
    BY <2>2, <2>3
<1>2. CASE ~NotDisposed(s)
  BY <1>2 DEF Close, closeVars, TypeOK, CountedInv, Counted, ClosedOnce
<1>3. QED
  BY <1>1, <1>2

(***************************************************************************)
(* Every step keeps the sessions counted.                                  *)
(***************************************************************************)
LEMMA CountedStep == TypeOK /\ CountedInv /\ [Next]_vars => CountedInv'
<1> SUFFICES ASSUME TypeOK, CountedInv, [Next]_vars PROVE CountedInv'
  OBVIOUS
<1> USE RoutinesFacts
<1> USE DEF TypeOK, CountedInv, Counted, ClosedOnce, mainVars, closeVars, dataVars,
            envVars, histVars
<1>1. ASSUME NEW s \in Streams, Subscribe(s) PROVE CountedInv'
  <2>1. CASE clients[AddrOf[s]] = NoStream
    BY <1>1, <2>1 DEF Subscribe
  <2>2. CASE clients[AddrOf[s]] # NoStream
    <3>1. clients[AddrOf[s]] \in Streams
      BY <2>2, AddrFacts
    <3>2. Close(clients[AddrOf[s]])
      BY <1>1, <2>2 DEF Subscribe
    <3>3. ClosedOnce' /\ \A t \in Streams : chan'[t] = "closed" => disposed'[t]
      BY <3>1, <3>2, CloseCounted
    <3>4. QED
      BY <1>1, <3>3 DEF Subscribe
  <2>3. QED
    BY <2>1, <2>2
<1>2. ASSUME NEW s \in Streams, Unregister(s) PROVE CountedInv'
  BY <1>2 DEF Unregister
<1>3. ASSUME NEW s \in Streams, RunAborted(s) PROVE CountedInv'
  BY <1>3 DEF RunAborted
<1>4. ASSUME NEW s \in Streams, RunRefused(s) PROVE CountedInv'
  BY <1>4 DEF RunRefused
<1>5. ASSUME NEW s \in Streams, RunQuery(s) PROVE CountedInv'
  BY <1>5 DEF RunQuery
<1>6. ASSUME NEW s \in Streams, RunStart(s) PROVE CountedInv'
  BY <1>6 DEF RunStart
<1>7. ASSUME NEW s \in Streams, RunClose(s) PROVE CountedInv'
  <2>1. ClosedOnce' /\ \A t \in Streams : chan'[t] = "closed" => disposed'[t]
    BY <1>7, CloseCounted DEF RunClose
  <2>2. QED
    BY <1>7, <2>1 DEF RunClose
<1>8. ASSUME NEW s \in Streams, RunWait(s) PROVE CountedInv'
  <2>1. kind[s] # "nondb" =>
          /\ run[s] \in {"off", "exit"}
          /\ \A p \in Paths : wrk[s][p] \in {"off", "done"}
    <3>1. w[s] = {}
      BY <1>8 DEF RunWait, AllDone
    <3>2. run[s] \in {"off", "exit"}
      BY <3>1
    <3>3. ASSUME kind[s] # "nondb", NEW p \in Paths PROVE wrk[s][p] \in {"off", "done"}
      <4>1. wrk[s][p] \in {"off", "start", "put", "loop", "done"}
        OBVIOUS
      <4>2. QED
        BY <3>1, <3>3, <4>1
    <3>4. QED
      BY <3>2, <3>3
  <2>2. /\ \A t \in Streams : t # s => rpc'[t] = rpc[t]
        /\ rpc'[s] = "unreg"
    BY <1>8 DEF RunWait
  <2>3. UNCHANGED <<chan, disposed, run, w, kind, wrk, panic>>
    BY <1>8 DEF RunWait
  <2>4. ASSUME NEW t \in Streams PROVE Counted(t)'
    BY <2>1, <2>2, <2>3
  <2>5. QED
    BY <2>3, <2>4
<1>9. ASSUME NEW s \in Streams, Get(s) PROVE CountedInv'
  BY <1>9 DEF Get
<1>10. ASSUME NEW s \in Streams, GetDisposed(s) PROVE CountedInv'
  BY <1>10 DEF GetDisposed
<1>11. ASSUME NEW s \in Streams, Send(s) PROVE CountedInv'
  BY <1>11 DEF Send
<1>12. ASSUME NEW s \in Streams, SendError(s) PROVE CountedInv'
  BY <1>12 DEF SendError
<1>13. ASSUME NEW s \in Streams, RecvPoll(s) PROVE CountedInv'
  BY <1>13 DEF RecvPoll
<1>14. ASSUME NEW s \in Streams, RecvPush(s) PROVE CountedInv'
  BY <1>14 DEF RecvPush
<1>15. ASSUME NEW s \in Streams, RecvEnd(s) PROVE CountedInv'
  BY <1>15 DEF RecvEnd
<1>16. ASSUME NEW s \in Streams, RecvEOF(s) PROVE CountedInv'
  BY <1>16 DEF RecvEOF
<1>17. ASSUME NEW s \in Streams, RecvClose(s) PROVE CountedInv'
  <2>1. ClosedOnce' /\ \A t \in Streams : chan'[t] = "closed" => disposed'[t]
    BY <1>17, CloseCounted DEF RecvClose
  <2>2. QED
    BY <1>17, <2>1 DEF RecvClose
<1>18. ASSUME NEW s \in Streams, StreamUnsupported(s) PROVE CountedInv'
  BY <1>18 DEF StreamUnsupported
<1>19. ASSUME NEW s \in Streams, StreamSync(s) PROVE CountedInv'
  BY <1>19 DEF StreamSync
<1>20. ASSUME NEW s \in Streams, StreamPut(s) PROVE CountedInv'
  <2>1. CASE pend[s][Run].kind = "sync" /\ kind[s] # "nondb"
    BY <1>20, <2>1 DEF StreamPut
  <2>2. CASE pend[s][Run].kind = "sync" /\ kind[s] = "nondb"
    BY <1>20, <2>2 DEF StreamPut
  <2>3. CASE pend[s][Run].kind # "sync"
    <3>1. /\ panic' = panic
          /\ w' = [w EXCEPT ![s] = @ \ {Run}]
          /\ run' = [run EXCEPT ![s] = "exit"]
          /\ UNCHANGED <<wrk, chan, disposed, kind, rpc>>
      BY <1>20, <2>3 DEF StreamPut, WDone
    <3>2. run[s] = "put" /\ rpc[s] \notin {"idle", "init", "made"}
      BY <1>20 DEF StreamPut
    <3>3. QED
      BY <3>1, <3>2
  <2>4. QED
    BY <2>1, <2>2, <2>3
<1>21. ASSUME NEW s \in Streams, StreamStop(s) PROVE CountedInv'
  BY <1>21 DEF StreamStop, WDone
<1>22. ASSUME NEW s \in Streams, SampleValidated(s) PROVE CountedInv'
  BY <1>22 DEF SampleValidated
<1>23. ASSUME NEW s \in Streams, SampleSync(s) PROVE CountedInv'
  BY <1>23 DEF SampleSync
<1>24. ASSUME NEW s \in Streams, PollRound(s) PROVE CountedInv'
  BY <1>24 DEF PollRound, AwaitsToken
<1>25. ASSUME NEW s \in Streams, PollStop(s) PROVE CountedInv'
  BY <1>25 DEF PollStop, AwaitsToken, WDone
<1>26. ASSUME NEW s \in Streams, PollReadError(s) PROVE CountedInv'
  BY <1>26 DEF PollReadError, WDone
<1>27. ASSUME NEW s \in Streams, PollSync(s) PROVE CountedInv'
  BY <1>27 DEF PollSync
<1>28. ASSUME NEW s \in Streams, OnceRun(s) PROVE CountedInv'
  BY <1>28 DEF OnceRun
<1>29. ASSUME NEW s \in Streams, ClientPoll(s) PROVE CountedInv'
  BY <1>29 DEF ClientPoll
<1>30. ASSUME NEW s \in Streams, ClientEOF(s) PROVE CountedInv'
  BY <1>30 DEF ClientEOF
<1>31. ASSUME NEW s \in Streams, Disconnect(s) PROVE CountedInv'
  BY <1>31 DEF Disconnect
<1>32. ASSUME NEW s \in Streams, NEW p \in Paths, StreamSpawn(s, p) PROVE CountedInv'
  BY <1>32 DEF StreamSpawn
<1>33. ASSUME NEW s \in Streams, NEW p \in Paths, PathFirst(s, p) PROVE CountedInv'
  BY <1>33 DEF PathFirst
<1>34. ASSUME NEW s \in Streams, NEW p \in Paths, PathUpdate(s, p) PROVE CountedInv'
  BY <1>34 DEF PathUpdate
<1>35. ASSUME NEW s \in Streams, NEW p \in Paths, PathPut(s, p) PROVE CountedInv'
  BY <1>35 DEF PathPut, PathReturns, WDone
<1>36. ASSUME NEW s \in Streams, NEW p \in Paths, PathStop(s, p) PROVE CountedInv'
  BY <1>36 DEF PathStop, PathReturns, WDone
<1>37. ASSUME NEW s \in Streams, NEW p \in Paths, RoundValue(s, p) PROVE CountedInv'
  BY <1>37 DEF RoundValue
<1>38. CASE UNCHANGED vars
  BY <1>38 DEF vars
<1>39. ASSUME NEW s \in Streams, OnceSync(s) PROVE CountedInv'
  BY <1>39 DEF OnceSync, WDone
<1>40. QED
  BY <1>1, <1>2, <1>3, <1>4, <1>5, <1>6, <1>7, <1>8, <1>9, <1>10, <1>11,
     <1>12, <1>13, <1>14, <1>15, <1>16, <1>17, <1>18, <1>19, <1>20, <1>21,
     <1>22, <1>23, <1>24, <1>25, <1>26, <1>27, <1>28, <1>29, <1>30, <1>31,
     <1>32, <1>33, <1>34, <1>35, <1>36, <1>37, <1>38, <1>39
  DEF Next, Main, Recv, Data, Path, Client

(***************************************************************************)
(* Close may be called by recv, by Run and by a later Subscribe call from  *)
(* the same address, in any order: no channel is closed twice and no       *)
(* WaitGroup goes below zero.                                              *)
(***************************************************************************)
THEOREM CloseIsSafe == Spec => []ClosedOnce
<1>1. Init => CountedInv
  BY ConstantsAssumption DEF Init, CountedInv, Counted, ClosedOnce
<1>2. CountedInv => ClosedOnce
  BY DEF CountedInv
<1>3. QED
  BY <1>1, <1>2, TypeCorrect, CountedStep, PTL DEF Spec

(***************************************************************************)
(* When no data client is the non-DB one, Run returns only after every     *)
(* goroutine it has started, directly or through StreamRun, has returned.  *)
(***************************************************************************)
THEOREM ChildrenHaveExited ==
    ASSUME \A s \in Streams : \A x \in Queries[s] : x.kind # "nondb"
    PROVE  Spec => []ChildrenExited
<1> DEFINE Counts == \A s \in Streams : kind[s] # "nondb"
<1>1. Init => Counts /\ CountedInv
  BY ConstantsAssumption DEF Init, CountedInv, Counted, ClosedOnce
<1>2. TypeOK /\ Counts /\ [Next]_vars => Counts'
  <2> SUFFICES ASSUME TypeOK, Counts, [Next]_vars PROVE Counts'
    OBVIOUS
  <2>1. ASSUME NEW s \in Streams, RunQuery(s) PROVE Counts'
    BY <2>1 DEF RunQuery, TypeOK
  <2>2. CASE UNCHANGED kind
    BY <2>2
  <2>3. QED
    BY <2>1, <2>2
    DEF Next, vars, Main, Recv, Data, Path, Client, Subscribe, Unregister,
        RunAborted, RunRefused, RunStart, RunClose, RunWait, Get, GetDisposed,
        Send, SendError, RecvPoll, RecvPush, RecvEnd, RecvEOF, RecvClose,
        StreamUnsupported, StreamSync, StreamPut, StreamStop, SampleValidated,
        SampleSync, PollRound, PollStop, PollReadError, PollSync, OnceSync,
        OnceRun, ClientPoll, ClientEOF, Disconnect, StreamSpawn, PathFirst, PathUpdate,
        PathPut, PathStop, RoundValue
<1>3. Counts /\ CountedInv => ChildrenExited
  BY DEF CountedInv, Counted, ChildrenExited
<1>4. QED
  BY <1>1, <1>2, <1>3, TypeCorrect, CountedStep, PTL DEF Spec

(***************************************************************************)
(* The registry holds only clients whose Subscribe call is running, each   *)
(* under its own address: a call that returns removes the entry of its     *)
(* address, and no other entry can be the client's.                        *)
(***************************************************************************)
THEOREM RegistryIsLive == Spec => []RegistryLive
<1> USE ConstantsAssumption
<1>1. Init => RegistryLive
  BY DEF Init, RegistryLive
<1>2. TypeOK /\ RegistryLive /\ [Next]_vars => RegistryLive'
  <2> SUFFICES ASSUME TypeOK, RegistryLive, [Next]_vars PROVE RegistryLive'
    OBVIOUS
  <2>1. ASSUME NEW s \in Streams, Subscribe(s) PROVE RegistryLive'
    BY <2>1 DEF Subscribe, TypeOK, RegistryLive
  <2>2. ASSUME NEW s \in Streams, Unregister(s) PROVE RegistryLive'
    BY <2>2 DEF Unregister, Removed, TypeOK, RegistryLive
  <2>3. CASE UNCHANGED <<clients, rpc>>
    BY <2>3 DEF RegistryLive
  <2>4. ASSUME UNCHANGED clients, NEW s \in Streams,
               NEW c \in {"unreg", "made", "get", "send", "close", "wait"},
               rpc' = [rpc EXCEPT ![s] = c]
        PROVE  RegistryLive'
    BY <2>4 DEF TypeOK, RegistryLive
  <2>5. ASSUME NEW s \in Streams, Main(s) PROVE RegistryLive'
    <3>1. CASE RunAborted(s) \/ RunRefused(s) \/ RunWait(s)
      BY <2>4, <3>1 DEF RunAborted, RunRefused, RunWait
    <3>2. CASE RunQuery(s) \/ RunStart(s) \/ Send(s)
      BY <2>4, <3>2 DEF RunQuery, RunStart, Send
    <3>3. CASE Get(s)
      BY <2>4, <3>3 DEF Get
    <3>4. CASE GetDisposed(s) \/ SendError(s) \/ RunClose(s)
      BY <2>4, <3>4 DEF GetDisposed, SendError, RunClose
    <3>5. QED
      BY <2>1, <2>2, <2>5, <3>1, <3>2, <3>3, <3>4 DEF Main
  <2>6. ASSUME NEW s \in Streams, Recv(s) \/ Client(s) PROVE RegistryLive'
    BY <2>3, <2>6
    DEF mainVars, Recv, Client, RecvPoll, RecvPush, RecvEnd, RecvEOF, RecvClose,
        ClientPoll, ClientEOF, Disconnect
  <2>7. ASSUME NEW s \in Streams, Data(s) PROVE RegistryLive'
    BY <2>3, <2>7
    DEF mainVars, Data, StreamUnsupported, StreamSync, StreamPut, StreamStop,
        SampleValidated, SampleSync, PollRound, PollStop, PollReadError,
        PollSync, OnceSync, OnceRun, StreamSpawn, RoundValue
  <2>8. ASSUME NEW s \in Streams, NEW p \in Paths, Path(s, p) PROVE RegistryLive'
    BY <2>3, <2>8 DEF mainVars, Path, PathFirst, PathUpdate, PathPut, PathStop
  <2>9. QED
    BY <2>3, <2>5, <2>6, <2>7, <2>8 DEF Next, vars
<1>3. QED
  BY <1>1, <1>2, TypeCorrect, PTL DEF Spec

-----------------------------------------------------------------------------
(***************************************************************************)
(* A sync_response is complete: a client that has been sent the            *)
(* sync_response of a round has been sent the value of that round of every *)
(* path (but for the round that updates_only leaves out).                  *)
(***************************************************************************)
Unstarted(s) == rpc[s] \in {"idle", "init", "made"}

Serving(s) == rpc[s] \in {"get", "send"}

(***************************************************************************)
(* The routines that run are those of the session's mode, and none before  *)
(* Run starts them; a stream has one round.                                *)
(***************************************************************************)
Routed(s) ==
    /\ Unstarted(s) => run[s] = "off"
    /\ run[s] = "off" => /\ ~Serving(s)
                         /\ q[s] = {}
                         /\ rnd[s] = 0
                         /\ syncs[s] = 0
                         /\ \A p \in Paths : wrk[s][p] = "off"
    /\ mode[s] = "STREAM" => /\ run[s] \notin {"poll", "round", "once"}
                             /\ run[s] # "off" => rnd[s] = 1
    /\ mode[s] # "STREAM" => /\ run[s] \in {"off", "poll", "round", "once", "exit"}
                             /\ \A p \in Paths : wrk[s][p] = "off"
    /\ run[s] = "validate" => todo[s] = Paths

(***************************************************************************)
(* What the routines have stamped and not yet put.                         *)
(***************************************************************************)
Stamps(s) ==
    /\ run[s] = "put" => /\ pend[s][Run].kind \in {"sync", "fatal"}
                         /\ pend[s][Run].rnd = 1
                         /\ pend[s][Run].ts <= clock[s]
    /\ \A p \in Paths :
          wrk[s][p] = "put" => /\ pend[s][p].kind \in {"data", "fatal"}
                               /\ pend[s][p].src = p
                               /\ pend[s][p].rnd = 1
                               /\ pend[s][p].ts <= clock[s]

(***************************************************************************)
(* Rounds only go up, from what has been sent over what is being sent to   *)
(* what is queued, and in the queue with the timestamps.                   *)
(***************************************************************************)
Ordered(s) ==
    /\ \A p \in Paths : got[s][p] <= rnd[s]
    /\ \A i \in q[s] : /\ i.rnd <= rnd[s]
                       /\ i.ts <= clock[s]
                       /\ mode[s] = "STREAM" => i.rnd = 1
                       /\ i.kind = "data" => i.src \in Paths
                       /\ \A p \in Paths : got[s][p] <= i.rnd
                       /\ \A j \in q[s] : i.ts <= j.ts => i.rnd <= j.rnd
    /\ rpc[s] = "send" => /\ item[s].kind \in {"data", "sync"}
                          /\ item[s].rnd <= rnd[s]
                          /\ \A j \in q[s] : item[s].rnd <= j.rnd
                          /\ \A p \in Paths : got[s][p] <= item[s].rnd
                          /\ item[s].kind = "data" => item[s].src \in Paths

(***************************************************************************)
(* The value of round r of path p has been sent, is being sent, or is      *)
(* queued ahead of the time t (or the session ends before t is reached),   *)
(* or is a value the round is to leave out.                                *)
(***************************************************************************)
Sending(s, p, r) ==
    /\ rpc[s] = "send"
    /\ item[s].kind = "data"
    /\ item[s].src = p
    /\ item[s].rnd >= r

Queued(s, p, r, t) ==
    \E i \in q[s] : /\ i.ts < t
                    /\ \/ i.kind = "fatal"
                       \/ i.kind = "data" /\ i.src = p /\ i.rnd >= r

Ahead(s, p, r, t) ==
    ~Vouches(s, r) \/ got[s][p] >= r \/ Sending(s, p, r) \/ Queued(s, p, r, t)

(***************************************************************************)
(* A sync message that is stamped or that a routine works towards will be  *)
(* behind the values it vouches for.                                       *)
(***************************************************************************)
Vouched(s) ==
    \A p \in Paths :
       /\ run[s] = "put" /\ pend[s][Run].kind = "sync" =>
             Ahead(s, p, pend[s][Run].rnd, pend[s][Run].ts)
       /\ run[s] \in {"initial", "round"} =>
             p \in todo[s] \/ Ahead(s, p, rnd[s], clock[s] + 1)
       /\ run[s] = "spawn" =>
             p \in todo[s] \/ p \in synced[s] \/ Ahead(s, p, 1, clock[s] + 1)

(***************************************************************************)
(* A sync message, wherever it is, is behind the values it vouches for.    *)
(***************************************************************************)
Covered(s) ==
    /\ Vouches(s, syncs[s]) => \A p \in Paths : got[s][p] >= syncs[s]
    /\ rpc[s] = "send" /\ item[s].kind = "sync" /\ Vouches(s, item[s].rnd) =>
          \A p \in Paths : got[s][p] >= item[s].rnd
    /\ Serving(s) =>
          \A i \in q[s], p \in Paths : i.kind = "sync" => Ahead(s, p, i.rnd, i.ts)
    /\ Serving(s) /\ ~disposed[s] => Vouched(s)

SyncInv(s) == Routed(s) /\ Stamps(s) /\ Ordered(s) /\ Covered(s)

(***************************************************************************)
(* A step that stamps, puts and sends nothing in session s: it leaves the  *)
(* values alone or disposes of them, main stays or leaves send's loop, and *)
(* routines stay or end.                                                   *)
(***************************************************************************)
Quiet(s) ==
    /\ item'[s] = item[s] /\ mode'[s] = mode[s] /\ kind'[s] = kind[s]
    /\ todo'[s] = todo[s]
    /\ rnd'[s] = rnd[s] /\ pend'[s] = pend[s] /\ synced'[s] = synced[s]
    /\ clock'[s] = clock[s] /\ got'[s] = got[s] /\ syncs'[s] = syncs[s]
    /\ \/ rpc'[s] = rpc[s]
       \/ rpc'[s] \notin {"get", "send"} /\ (Unstarted(s)' => Unstarted(s))
    /\ \/ q'[s] = q[s] /\ disposed'[s] = disposed[s]
       \/ q'[s] = {} /\ disposed'[s] = TRUE
    /\ \/ run'[s] = run[s]
       \/ run[s] # "off" /\ run'[s] = "exit"
    /\ \A p \in Paths : \/ wrk'[s][p] = wrk[s][p]
                        \/ wrk[s][p] # "off" /\ wrk'[s][p] = "done"

(***************************************************************************)
(* Ahead in the state after the step, for a round and a time of any state. *)
(***************************************************************************)
VouchesNext(s, r) == kind'[s] = "updates" => r # 1

AheadNext(s, p, r, t) ==
    \/ ~VouchesNext(s, r)
    \/ got'[s][p] >= r
    \/ /\ rpc'[s] = "send"
       /\ item'[s].kind = "data"
       /\ item'[s].src = p
       /\ item'[s].rnd >= r
    \/ \E i \in q'[s] : /\ i.ts < t
                        /\ \/ i.kind = "fatal"
                           \/ i.kind = "data" /\ i.src = p /\ i.rnd >= r

VouchedNext(s, p) ==
    /\ run'[s] = "put" /\ pend'[s][Run].kind = "sync" =>
          AheadNext(s, p, pend'[s][Run].rnd, pend'[s][Run].ts)
    /\ run'[s] \in {"initial", "round"} =>
          p \in todo'[s] \/ AheadNext(s, p, rnd'[s], clock'[s] + 1)
    /\ run'[s] = "spawn" =>
          \/ p \in todo'[s]
          \/ p \in synced'[s]
          \/ AheadNext(s, p, 1, clock'[s] + 1)

(***************************************************************************)
(* VouchedNext is Vouched of the state after the step.                     *)
(***************************************************************************)
LEMMA VouchedPrimed ==
    ASSUME NEW s, \A p \in Paths : VouchedNext(s, p) PROVE Vouched(s)'
BY DEF Vouched, VouchedNext, Ahead, Sending, Queued, Vouches, AheadNext, VouchesNext

(***************************************************************************)
(* A quiet step keeps the invariant.                                       *)
(***************************************************************************)
LEMMA QuietStep ==
    ASSUME NEW s \in Streams, SyncInv(s), Quiet(s)
    PROVE  SyncInv(s)'
<1> USE DEF SyncInv, Quiet, Unstarted, Serving
<1>1. Routed(s)'
  BY DEF Routed
<1>2. Stamps(s)'
  BY DEF Stamps
<1>3. Ordered(s)'
  BY DEF Ordered
<1>4. Covered(s)'
  <2>1. /\ VouchesNext(s, syncs'[s]) => \A p \in Paths : got'[s][p] >= syncs'[s]
        /\ rpc'[s] = "send" /\ item'[s].kind = "sync" /\ VouchesNext(s, item'[s].rnd) =>
              \A p \in Paths : got'[s][p] >= item'[s].rnd
    BY DEF Covered, Vouches, VouchesNext
  <2>2. CASE ~Serving(s)'
    BY <2>1, <2>2 DEF Covered, Vouches, VouchesNext
  <2>3. CASE Serving(s)' /\ q'[s] = {} /\ disposed'[s] = TRUE
    BY <2>1, <2>3 DEF Covered, Vouches, VouchesNext
  <2>4. CASE Serving(s)' /\ q'[s] = q[s] /\ disposed'[s] = disposed[s]
    <3>1. rpc'[s] = rpc[s]
      BY <2>4
    <3>2. \A p, r, t : Ahead(s, p, r, t) => AheadNext(s, p, r, t)
      BY <2>4, <3>1 DEF Ahead, Sending, Queued, Vouches, AheadNext, VouchesNext
    <3>3. Serving(s)' => \A i \in q'[s], p \in Paths :
                             i.kind = "sync" => AheadNext(s, p, i.rnd, i.ts)
      BY <2>4, <3>1, <3>2 DEF Covered
    <3>4. ~disposed'[s] => \A p \in Paths : VouchedNext(s, p)
      BY <2>4, <3>1, <3>2 DEF Covered, Vouched, VouchedNext
    <3>5. ~disposed'[s] => Vouched(s)'
      BY <3>4, VouchedPrimed
    <3>6. QED
      BY <2>1, <3>3, <3>5
      DEF Covered, Ahead, Sending, Queued, Vouches, AheadNext, VouchesNext
  <2>5. QED
    BY <2>2, <2>3, <2>4
<1>5. QED
  BY <1>1, <1>2, <1>3, <1>4

(***************************************************************************)
(* A step of a routine of session s: it may stamp and put values and       *)
(* leaves main and what the client has been sent alone.                    *)
(***************************************************************************)
Feeding(s) ==
    /\ rpc'[s] = rpc[s] /\ item'[s] = item[s]
    /\ mode'[s] = mode[s] /\ kind'[s] = kind[s]
    /\ disposed'[s] = disposed[s] /\ got'[s] = got[s] /\ syncs'[s] = syncs[s]
    /\ q[s] \subseteq q'[s]
    /\ clock[s] <= clock'[s]

(***************************************************************************)
(* What is ahead of a sync message stays ahead of it when values are put,  *)
(* whatever their timestamps.                                              *)
(***************************************************************************)
LEMMA AheadFeeding ==
    ASSUME TypeOK, NEW s \in Streams, Feeding(s),
           NEW p, NEW r, NEW t \in Nat, NEW u \in Nat, t <= u, Ahead(s, p, r, t)
    PROVE  AheadNext(s, p, r, u)
<1>1. CASE ~Vouches(s, r) \/ got[s][p] >= r \/ Sending(s, p, r)
  BY <1>1 DEF Feeding, AheadNext, VouchesNext, Vouches, Sending
<1>2. CASE Queued(s, p, r, t)
  <2>1. PICK i \in q[s] : /\ i.ts < t
                          /\ \/ i.kind = "fatal"
                             \/ i.kind = "data" /\ i.src = p /\ i.rnd >= r
    BY <1>2 DEF Queued
  <2>2. i.ts \in Nat /\ i \in q'[s]
    BY ItemType DEF Feeding, TypeOK
  <2>3. i.ts < u
    BY <2>1, <2>2
  <2>4. QED
    BY <2>1, <2>2, <2>3 DEF AheadNext
<1>3. QED
  BY <1>1, <1>2 DEF Ahead

(***************************************************************************)
(* Putting a value that is new, or that a stream stamped earlier, keeps    *)
(* the queue ordered.                                                      *)
(***************************************************************************)
LEMMA OrderedPut ==
    ASSUME TypeOK, NEW s \in Streams, SyncInv(s), Feeding(s),
           run[s] # "off", rnd'[s] = rnd[s], clock'[s] \in Nat,
           NEW i \in Items, i.kind = "data" => i.src \in Paths,
           i.rnd = rnd[s], i.ts <= clock'[s],
           mode[s] = "STREAM" \/ i.ts = clock[s] + 1,
           q'[s] = q[s] \/ q'[s] = q[s] \cup {i}
    PROVE  Ordered(s)'
<1>1. /\ i.ts \in Nat /\ i.rnd \in Nat /\ rnd[s] \in Nat /\ clock[s] \in Nat
      /\ \A j \in q[s] : j.ts \in Nat /\ j.rnd \in Nat
      /\ \A p \in Paths : got[s][p] \in Nat
      /\ item[s].rnd \in Nat
  BY ItemType DEF TypeOK
<1>2. mode[s] = "STREAM" => i.rnd = 1
  BY DEF SyncInv, Routed
<1>3. ASSUME NEW j \in q'[s]
      PROVE  /\ j.rnd <= rnd[s]
             /\ j.ts <= clock'[s]
             /\ mode[s] = "STREAM" => j.rnd = 1
             /\ j.kind = "data" => j.src \in Paths
             /\ \A p \in Paths : got[s][p] <= j.rnd
  BY <1>1, <1>2, <1>3 DEF SyncInv, Ordered, Feeding
<1>4. ASSUME NEW j \in q'[s], NEW k \in q'[s], j.ts <= k.ts PROVE j.rnd <= k.rnd
  <2>1. CASE mode[s] = "STREAM"
    BY <1>1, <1>3, <2>1
  <2>2. CASE i.ts = clock[s] + 1
    BY <1>1, <1>4, <2>2 DEF SyncInv, Ordered
  <2>3. QED
    BY <2>1, <2>2
<1>5. rpc[s] = "send" => \A j \in q'[s] : item[s].rnd <= j.rnd
  BY <1>1 DEF SyncInv, Ordered
<1>6. QED
  BY <1>3, <1>4, <1>5 DEF SyncInv, Ordered, Feeding

(***************************************************************************)
(* A routine's step keeps sync messages covered when the ones it puts are  *)
(* covered and the ones it works towards are vouched for.                  *)
(***************************************************************************)
LEMMA CoveredFeeding ==
    ASSUME TypeOK, NEW s \in Streams, SyncInv(s), Feeding(s),
           Serving(s) => \A i \in q'[s] \ q[s], p \in Paths :
                             i.kind = "sync" => AheadNext(s, p, i.rnd, i.ts),
           Serving(s) /\ ~disposed[s] => \A p \in Paths : VouchedNext(s, p)
    PROVE  Covered(s)'
<1>1. ASSUME Serving(s), NEW i \in q'[s], NEW p \in Paths, i.kind = "sync"
      PROVE  AheadNext(s, p, i.rnd, i.ts)
  <2>1. CASE i \in q[s]
    <3>1. i.ts \in Nat
      BY <2>1, ItemType DEF TypeOK
    <3>2. Ahead(s, p, i.rnd, i.ts)
      BY <1>1, <2>1 DEF SyncInv, Covered
    <3>3. i.ts <= i.ts
      BY <3>1
    <3>4. QED
      BY <3>1, <3>2, <3>3, AheadFeeding
  <2>2. CASE i \notin q[s]
    BY <1>1, <2>2
  <2>3. QED
    BY <2>1, <2>2
<1>2. Serving(s)' <=> Serving(s)
  BY DEF Feeding, Serving
<1>3. /\ VouchesNext(s, syncs'[s]) => \A p \in Paths : got'[s][p] >= syncs'[s]
      /\ rpc'[s] = "send" /\ item'[s].kind = "sync" /\ VouchesNext(s, item'[s].rnd) =>
            \A p \in Paths : got'[s][p] >= item'[s].rnd
  BY DEF Feeding, SyncInv, Covered, Vouches, VouchesNext
<1>4. Serving(s)' /\ ~disposed'[s] => Vouched(s)'
  BY <1>2, VouchedPrimed DEF Feeding
<1>5. QED
  BY <1>1, <1>2, <1>3, <1>4
  DEF Covered, Ahead, Sending, Queued, Vouches, AheadNext, VouchesNext

-----------------------------------------------------------------------------
(* The routines' steps, one lemma for each *)

(***************************************************************************)
(* A routine's step that queues nothing keeps the queue ordered.           *)
(***************************************************************************)
LEMMA OrderedStays ==
    ASSUME TypeOK, NEW s \in Streams, SyncInv(s), Feeding(s), q'[s] = q[s],
           rnd'[s] \in Nat, rnd[s] <= rnd'[s], clock'[s] \in Nat
    PROVE  Ordered(s)'
<1>1. /\ rnd[s] \in Nat /\ clock[s] \in Nat
      /\ \A j \in q[s] : j.ts \in Nat /\ j.rnd \in Nat
      /\ \A p \in Paths : got[s][p] \in Nat
      /\ item[s].rnd \in Nat
  BY ItemType DEF TypeOK
<1>2. QED
  BY <1>1 DEF SyncInv, Ordered, Feeding

(***************************************************************************)
(* StreamRun starts the goroutine of a path, which has yet to signal.      *)
(***************************************************************************)
LEMMA SpawnStep ==
    ASSUME TypeOK, NEW s \in Streams, SyncInv(s), NEW p \in Paths, StreamSpawn(s, p)
    PROVE  SyncInv(s)'
<1>1. /\ run[s] = "spawn" /\ run'[s] = run[s] /\ rnd'[s] = rnd[s]
      /\ pend'[s] = pend[s] /\ clock'[s] = clock[s] /\ q'[s] = q[s]
      /\ todo'[s] = todo[s] \ {p} /\ synced'[s] = synced[s] \cup {p}
      /\ wrk'[s][p] = "start"
      /\ \A x \in Paths : x # p => wrk'[s][x] = wrk[s][x]
      /\ clock[s] \in Nat /\ rnd[s] \in Nat
  BY DEF StreamSpawn, TypeOK, closeVars
<1>2. Feeding(s)
  BY <1>1 DEF StreamSpawn, Feeding, mainVars, closeVars, histVars
<1>3. Routed(s)'
  BY <1>1, <1>2 DEF SyncInv, Routed, Unstarted, Serving, Feeding
<1>4. Stamps(s)'
  BY <1>1 DEF SyncInv, Stamps
<1>5. Ordered(s)'
  BY <1>1, <1>2, OrderedStays
<1>6. ASSUME Serving(s), ~disposed[s], NEW x \in Paths PROVE VouchedNext(s, x)
  <2>1. x \in todo'[s] \/ x \in synced'[s] \/ Ahead(s, x, 1, clock[s] + 1)
    BY <1>1, <1>6 DEF SyncInv, Covered, Vouched
  <2>2. QED
    BY <1>1, <1>2, <2>1, AheadFeeding DEF VouchedNext
<1>7. Covered(s)'
  BY <1>1, <1>2, <1>6, CoveredFeeding
<1>8. QED
  BY <1>3, <1>4, <1>5, <1>7 DEF SyncInv

(***************************************************************************)
(* A path that cannot be served: a fatal value is stamped, no sync message.*)
(***************************************************************************)
LEMMA UnsupportedStep ==
    ASSUME TypeOK, NEW s \in Streams, SyncInv(s), StreamUnsupported(s)
    PROVE  SyncInv(s)'
<1>1. /\ run[s] \in {"spawn", "validate"} /\ run'[s] = "put" /\ rnd'[s] = rnd[s]
      /\ pend'[s][Run] = Stamped(s, Run, "fatal")
      /\ \A x \in Paths : pend'[s][x] = pend[s][x]
      /\ clock'[s] = clock[s] + 1 /\ q'[s] = q[s] /\ wrk'[s] = wrk[s]
      /\ clock[s] \in Nat /\ rnd[s] \in Nat
      /\ \A x \in Paths : pend[s][x].ts \in Nat
  BY RoutinesFacts, ItemType DEF StreamUnsupported, Tick, TypeOK, closeVars
<1>2. Feeding(s)
  BY <1>1 DEF StreamUnsupported, Feeding, mainVars, closeVars, histVars
<1>3. Routed(s)'
  BY <1>1, <1>2 DEF SyncInv, Routed, Unstarted, Serving, Feeding
<1>4. Stamps(s)'
  BY <1>1 DEF SyncInv, Routed, Stamps, Stamped
<1>5. Ordered(s)'
  BY <1>1, <1>2, OrderedStays
<1>6. Covered(s)'
  <2>1. \A x \in Paths : VouchedNext(s, x)
    BY <1>1 DEF VouchedNext, Stamped
  <2>2. QED
    BY <1>1, <1>2, <2>1, CoveredFeeding
<1>7. QED
  BY <1>3, <1>4, <1>5, <1>6 DEF SyncInv

(***************************************************************************)
(* StreamRun stamps the sync message when every path has signalled.        *)
(***************************************************************************)
LEMMA StreamSyncStep ==
    ASSUME TypeOK, NEW s \in Streams, SyncInv(s), StreamSync(s)
    PROVE  SyncInv(s)'
<1>1. /\ run[s] = "spawn" /\ run'[s] = "put" /\ rnd'[s] = rnd[s]
      /\ todo[s] = {} /\ synced[s] = {}
      /\ pend'[s][Run] = Stamped(s, Run, "sync")
      /\ \A x \in Paths : pend'[s][x] = pend[s][x]
      /\ clock'[s] = clock[s] + 1 /\ q'[s] = q[s] /\ wrk'[s] = wrk[s]
      /\ clock[s] \in Nat /\ rnd[s] \in Nat
      /\ \A x \in Paths : pend[s][x].ts \in Nat
  BY RoutinesFacts, ItemType DEF StreamSync, AllSignalled, Tick, TypeOK, closeVars
<1>2. Feeding(s)
  BY <1>1 DEF StreamSync, Feeding, mainVars, closeVars, histVars
<1>3. Routed(s)' /\ rnd[s] = 1
  BY <1>1, <1>2 DEF SyncInv, Routed, Unstarted, Serving, Feeding
<1>4. Stamps(s)'
  BY <1>1, <1>3 DEF SyncInv, Stamps, Stamped
<1>5. Ordered(s)'
  BY <1>1, <1>2, OrderedStays
<1>6. ASSUME Serving(s), ~disposed[s], NEW x \in Paths PROVE VouchedNext(s, x)
  <2>1. Ahead(s, x, 1, clock[s] + 1)
    BY <1>1, <1>6 DEF SyncInv, Covered, Vouched
  <2>2. AheadNext(s, x, 1, clock[s] + 1)
    BY <1>1, <1>2, <2>1, AheadFeeding
  <2>3. QED
    BY <1>1, <1>3, <2>2 DEF VouchedNext, Stamped
<1>7. Covered(s)'
  BY <1>1, <1>2, <1>6, CoveredFeeding
<1>8. QED
  BY <1>3, <1>4, <1>5, <1>7 DEF SyncInv

(***************************************************************************)
(* The non-DB client stamps it after the first value of every path.        *)
(***************************************************************************)
LEMMA SampleSyncStep ==
    ASSUME TypeOK, NEW s \in Streams, SyncInv(s), SampleSync(s)
    PROVE  SyncInv(s)'
<1>1. /\ run[s] = "initial" /\ run'[s] = "put" /\ rnd'[s] = rnd[s] /\ todo[s] = {}
      /\ pend'[s][Run] = Stamped(s, Run, "sync")
      /\ \A x \in Paths : pend'[s][x] = pend[s][x]
      /\ clock'[s] = clock[s] + 1 /\ q'[s] = q[s] /\ wrk'[s] = wrk[s]
      /\ clock[s] \in Nat /\ rnd[s] \in Nat
      /\ \A x \in Paths : pend[s][x].ts \in Nat
  BY RoutinesFacts, ItemType DEF SampleSync, RoundOver, Tick, TypeOK, closeVars
<1>2. Feeding(s)
  BY <1>1 DEF SampleSync, Feeding, mainVars, closeVars, histVars
<1>3. Routed(s)' /\ rnd[s] = 1
  BY <1>1, <1>2 DEF SyncInv, Routed, Unstarted, Serving, Feeding
<1>4. Stamps(s)'
  BY <1>1, <1>3 DEF SyncInv, Stamps, Stamped
<1>5. Ordered(s)'
  BY <1>1, <1>2, OrderedStays
<1>6. ASSUME Serving(s), ~disposed[s], NEW x \in Paths PROVE VouchedNext(s, x)
  <2>1. Ahead(s, x, rnd[s], clock[s] + 1)
    BY <1>1, <1>6 DEF SyncInv, Covered, Vouched
  <2>2. AheadNext(s, x, rnd[s], clock[s] + 1)
    BY <1>1, <1>2, <2>1, AheadFeeding
  <2>3. QED
    BY <1>1, <2>2 DEF VouchedNext, Stamped
<1>7. Covered(s)'
  BY <1>1, <1>2, <1>6, CoveredFeeding
<1>8. QED
  BY <1>3, <1>4, <1>5, <1>7 DEF SyncInv

(***************************************************************************)
(* A path stamps a value: the first one, or a later one.                   *)
(***************************************************************************)
LEMMA StampStep ==
    ASSUME TypeOK, NEW s \in Streams, SyncInv(s), NEW p \in Paths,
           PathFirst(s, p) \/ PathUpdate(s, p)
    PROVE  SyncInv(s)'
<1>1. PICK k \in {"data", "fatal"} : pend' = [pend EXCEPT ![s][p] = Stamped(s, p, k)]
  BY DEF PathFirst, PathUpdate
<1>2. /\ wrk[s][p] \in {"start", "loop"} /\ wrk'[s][p] = "put"
      /\ \A x \in Paths : x # p => wrk'[s][x] = wrk[s][x]
      /\ run'[s] = run[s] /\ rnd'[s] = rnd[s] /\ todo'[s] = todo[s]
      /\ synced'[s] = synced[s] /\ clock'[s] = clock[s] + 1 /\ q'[s] = q[s]
      /\ clock[s] \in Nat /\ rnd[s] \in Nat
  BY DEF PathFirst, PathUpdate, Tick, TypeOK, closeVars
<1>3. /\ pend'[s][p] = Stamped(s, p, k)
      /\ \A r \in Routines : r # p => pend'[s][r] = pend[s][r]
      /\ \A r \in Routines : pend[s][r].ts \in Nat
  BY <1>1, RoutinesFacts, ItemType DEF TypeOK
<1>4. Feeding(s)
  BY <1>2 DEF PathFirst, PathUpdate, Feeding, mainVars, closeVars, histVars
<1>5. Routed(s)' /\ rnd[s] = 1
  BY <1>2, <1>4 DEF SyncInv, Routed, Unstarted, Serving, Feeding
<1>6. Stamps(s)'
  BY <1>2, <1>3, <1>5, RoutinesFacts DEF SyncInv, Stamps, Stamped
<1>7. Ordered(s)'
  BY <1>2, <1>4, OrderedStays
<1>8. ASSUME Serving(s), ~disposed[s], NEW x \in Paths PROVE VouchedNext(s, x)
  <2>1. pend'[s][Run] = pend[s][Run] /\ pend[s][Run].ts \in Nat
    BY <1>3, RoutinesFacts
  <2>2. /\ run[s] = "put" /\ pend[s][Run].kind = "sync" =>
              Ahead(s, x, pend[s][Run].rnd, pend[s][Run].ts)
        /\ run[s] \in {"initial", "round"} =>
              x \in todo[s] \/ Ahead(s, x, rnd[s], clock[s] + 1)
        /\ run[s] = "spawn" =>
              x \in todo[s] \/ x \in synced[s] \/ Ahead(s, x, 1, clock[s] + 1)
    BY <1>8 DEF SyncInv, Covered, Vouched
  <2>3. /\ clock[s] + 1 \in Nat /\ clock'[s] + 1 \in Nat
        /\ clock[s] + 1 <= clock'[s] + 1
        /\ pend[s][Run].ts <= pend[s][Run].ts
    BY <1>2, <2>1
  <2>4. /\ run[s] = "put" /\ pend[s][Run].kind = "sync" =>
              AheadNext(s, x, pend[s][Run].rnd, pend[s][Run].ts)
        /\ run[s] \in {"initial", "round"} =>
              x \in todo[s] \/ AheadNext(s, x, rnd[s], clock'[s] + 1)
        /\ run[s] = "spawn" =>
              x \in todo[s] \/ x \in synced[s] \/ AheadNext(s, x, 1, clock'[s] + 1)
    BY <1>4, <2>1, <2>2, <2>3, AheadFeeding
  <2>5. QED
    BY <1>2, <2>1, <2>4 DEF VouchedNext
<1>9. Covered(s)'
  BY <1>2, <1>4, <1>8, CoveredFeeding
<1>10. QED
  BY <1>5, <1>6, <1>7, <1>9 DEF SyncInv

(***************************************************************************)
(* The non-DB client goes on to the first values: all are still to come.   *)
(***************************************************************************)
LEMMA ValidatedStep ==
    ASSUME TypeOK, NEW s \in Streams, SyncInv(s), SampleValidated(s)
    PROVE  SyncInv(s)'
<1>1. /\ run[s] = "validate" /\ run'[s] = "initial" /\ rnd'[s] = rnd[s]
      /\ todo'[s] = todo[s] /\ pend'[s] = pend[s] /\ clock'[s] = clock[s]
      /\ q'[s] = q[s] /\ wrk'[s] = wrk[s] /\ clock[s] \in Nat /\ rnd[s] \in Nat
  BY DEF SampleValidated, TypeOK, closeVars
<1>2. Feeding(s)
  BY <1>1 DEF SampleValidated, Feeding, mainVars, closeVars, histVars
<1>3. Routed(s)'
  BY <1>1, <1>2 DEF SyncInv, Routed, Unstarted, Serving, Feeding
<1>4. Stamps(s)'
  BY <1>1 DEF SyncInv, Stamps
<1>5. Ordered(s)'
  BY <1>1, <1>2, OrderedStays
<1>6. Covered(s)'
  <2>1. \A x \in Paths : VouchedNext(s, x)
    BY <1>1 DEF VouchedNext, SyncInv, Routed
  <2>2. QED
    BY <1>1, <1>2, <2>1, CoveredFeeding
<1>7. QED
  BY <1>3, <1>4, <1>5, <1>6 DEF SyncInv

(***************************************************************************)
(* A token begins a round: all its values are still to come.               *)
(***************************************************************************)
LEMMA PollRoundStep ==
    ASSUME TypeOK, NEW s \in Streams, SyncInv(s), PollRound(s)
    PROVE  SyncInv(s)'
<1>1. /\ run[s] \in {"poll", "once"} /\ run'[s] = "round" /\ rnd'[s] = rnd[s] + 1
      /\ todo'[s] = Paths /\ pend'[s] = pend[s] /\ clock'[s] = clock[s]
      /\ q'[s] = q[s] /\ wrk'[s] = wrk[s] /\ clock[s] \in Nat /\ rnd[s] \in Nat
  BY DEF PollRound, AwaitsToken, TypeOK, closeVars
<1>2. Feeding(s)
  BY <1>1 DEF PollRound, Feeding, mainVars, closeVars, histVars
<1>3. Routed(s)'
  BY <1>1, <1>2 DEF SyncInv, Routed, Unstarted, Serving, Feeding
<1>4. Stamps(s)'
  BY <1>1 DEF SyncInv, Stamps
<1>5. Ordered(s)'
  BY <1>1, <1>2, OrderedStays
<1>6. Covered(s)'
  <2>1. \A x \in Paths : VouchedNext(s, x)
    BY <1>1 DEF VouchedNext
  <2>2. QED
    BY <1>1, <1>2, <2>1, CoveredFeeding
<1>7. QED
  BY <1>3, <1>4, <1>5, <1>6 DEF SyncInv

(***************************************************************************)
(* A value of the round is queued, and its path is no longer to do.        *)
(***************************************************************************)
LEMMA RoundValueStep ==
    ASSUME TypeOK, NEW s \in Streams, SyncInv(s), NEW p \in Paths, RoundValue(s, p),
           ~LeftOut(s)
    PROVE  SyncInv(s)'
<1> DEFINE i == Stamped(s, p, "data")
<1>1. /\ run[s] \in {"initial", "round"} /\ run'[s] = run[s] /\ rnd'[s] = rnd[s]
      /\ todo'[s] = todo[s] \ {p} /\ pend'[s] = pend[s]
      /\ clock'[s] = clock[s] + 1 /\ wrk'[s] = wrk[s]
      /\ clock[s] \in Nat /\ rnd[s] \in Nat
  BY DEF RoundValue, Tick, TypeOK
<1>2. /\ q'[s] = q[s] \/ q'[s] = q[s] \cup {i}
      /\ ~disposed[s] => i \in q'[s]
  BY DEF RoundValue, Put, TypeOK
<1>3. /\ i \in Items /\ i.kind = "data" /\ i.src = p /\ i.rnd = rnd[s]
      /\ i.ts = clock[s] + 1
  BY <1>1, StampedType, RoutinesFacts DEF Stamped
<1> HIDE DEF i
<1>4. Feeding(s)
  BY <1>1, <1>2 DEF RoundValue, Feeding, mainVars, histVars
<1>5. Routed(s)'
  BY <1>1, <1>4 DEF SyncInv, Routed, Unstarted, Serving, Feeding
<1>6. Stamps(s)'
  <2>1. \A x \in Routines : pend[s][x].ts \in Nat
    BY ItemType DEF TypeOK
  <2>2. QED
    BY <1>1, <2>1, RoutinesFacts DEF SyncInv, Stamps
<1>7. Ordered(s)'
  BY <1>1, <1>2, <1>3, <1>4, OrderedPut
<1>8. ASSUME Serving(s), ~disposed[s], NEW x \in Paths PROVE VouchedNext(s, x)
  <2>1. CASE x = p
    <3>1. AheadNext(s, p, rnd[s], clock'[s] + 1)
      BY <1>1, <1>2, <1>3, <1>8 DEF AheadNext
    <3>2. QED
      BY <1>1, <2>1, <3>1 DEF VouchedNext
  <2>2. CASE x # p
    <3>1. x \in todo'[s] \/ Ahead(s, x, rnd[s], clock[s] + 1)
      BY <1>1, <1>8, <2>2 DEF SyncInv, Covered, Vouched
    <3>2. x \in todo'[s] \/ AheadNext(s, x, rnd[s], clock'[s] + 1)
      BY <1>1, <1>4, <3>1, AheadFeeding
    <3>3. QED
      BY <1>1, <3>2 DEF VouchedNext
  <2>3. QED
    BY <2>1, <2>2
<1>9. Covered(s)'
  BY <1>2, <1>3, <1>4, <1>8, CoveredFeeding
<1>10. QED
  BY <1>5, <1>6, <1>7, <1>9 DEF SyncInv

(***************************************************************************)
(* A value that the first round leaves out is not vouched for.             *)
(***************************************************************************)
LEMMA LeftOutStep ==
    ASSUME TypeOK, NEW s \in Streams, SyncInv(s), NEW p \in Paths, RoundValue(s, p),
           LeftOut(s)
    PROVE  SyncInv(s)'
<1>1. /\ run[s] \in {"initial", "round"} /\ run'[s] = run[s] /\ rnd'[s] = rnd[s]
      /\ todo'[s] = todo[s] \ {p} /\ pend'[s] = pend[s] /\ q'[s] = q[s]
      /\ clock'[s] = clock[s] /\ wrk'[s] = wrk[s]
      /\ clock[s] \in Nat /\ rnd[s] \in Nat
  BY DEF RoundValue, TypeOK
<1>2. Feeding(s)
  BY <1>1 DEF RoundValue, Feeding, mainVars, histVars
<1>3. Routed(s)'
  BY <1>1, <1>2 DEF SyncInv, Routed, Unstarted, Serving, Feeding
<1>4. Stamps(s)'
  BY <1>1 DEF SyncInv, Stamps
<1>5. Ordered(s)'
  BY <1>1, <1>2, OrderedStays
<1>6. ASSUME NEW x \in Paths PROVE VouchedNext(s, x)
  <2>1. ~VouchesNext(s, rnd'[s])
    BY <1>1, <1>2 DEF LeftOut, Feeding, VouchesNext
  <2>2. QED
    BY <1>1, <2>1 DEF VouchedNext, AheadNext
<1>7. Covered(s)'
  BY <1>1, <1>2, <1>6, CoveredFeeding
<1>8. QED
  BY <1>3, <1>4, <1>5, <1>7 DEF SyncInv

(***************************************************************************)
(* The sync message of a round is queued behind its values.                *)
(***************************************************************************)
LEMMA PollSyncStep ==
    ASSUME TypeOK, NEW s \in Streams, SyncInv(s), PollSync(s) \/ OnceSync(s)
    PROVE  SyncInv(s)'
<1> DEFINE i == Stamped(s, Run, "sync")
<1>1. /\ run[s] = "round" /\ run'[s] \in {"poll", "exit"} /\ rnd'[s] = rnd[s]
      /\ todo[s] = {} /\ pend'[s] = pend[s]
      /\ clock'[s] = clock[s] + 1 /\ wrk'[s] = wrk[s]
      /\ clock[s] \in Nat /\ rnd[s] \in Nat
  BY DEF PollSync, OnceSync, RoundOver, Tick, TypeOK
<1>2. IF disposed[s] THEN q'[s] = q[s] ELSE q'[s] = q[s] \cup {i}
  BY DEF PollSync, OnceSync, Put, TypeOK
<1>3. /\ i \in Items /\ i.kind = "sync" /\ i.rnd = rnd[s] /\ i.ts = clock[s] + 1
  BY <1>1, StampedType, RoutinesFacts DEF Stamped
<1> HIDE DEF i
<1>4. Feeding(s)
  BY <1>1, <1>2 DEF PollSync, OnceSync, Feeding, mainVars, histVars
<1>5. Routed(s)'
  BY <1>1, <1>4 DEF SyncInv, Routed, Unstarted, Serving, Feeding
<1>6. Stamps(s)'
  <2>1. \A x \in Routines : pend[s][x].ts \in Nat
    BY ItemType DEF TypeOK
  <2>2. QED
    BY <1>1, <2>1, RoutinesFacts DEF SyncInv, Stamps
<1>7. Ordered(s)'
  BY <1>1, <1>2, <1>3, <1>4, OrderedPut
<1>8. ASSUME Serving(s), NEW j \in q'[s] \ q[s], NEW x \in Paths
      PROVE  AheadNext(s, x, j.rnd, j.ts)
  <2>1. j = i /\ ~disposed[s]
    BY <1>2, <1>8
  <2>2. Ahead(s, x, rnd[s], clock[s] + 1)
    BY <1>1, <1>8, <2>1 DEF SyncInv, Covered, Vouched
  <2>3. QED
    BY <1>1, <1>3, <1>4, <2>1, <2>2, AheadFeeding
<1>9. \A x \in Paths : VouchedNext(s, x)
  BY <1>1 DEF VouchedNext
<1>10. Covered(s)'
  BY <1>4, <1>8, <1>9, CoveredFeeding
<1>11. QED
  BY <1>5, <1>6, <1>7, <1>10 DEF SyncInv

(***************************************************************************)
(* StreamRun queues what it has stamped.                                   *)
(***************************************************************************)
LEMMA StreamPutStep ==
    ASSUME TypeOK, NEW s \in Streams, SyncInv(s), StreamPut(s)
    PROVE  SyncInv(s)'
<1> DEFINE i == pend[s][Run]
<1>1. /\ run[s] = "put" /\ run'[s] \in {"stopwait", "exit"} /\ rnd'[s] = rnd[s]
      /\ \A x \in Paths : pend'[s][x] = pend[s][x]
      /\ clock'[s] = clock[s] /\ clock[s] \in Nat /\ rnd[s] \in Nat
  BY RoutinesFacts DEF StreamPut, TypeOK
<1>2. IF disposed[s] THEN q'[s] = q[s] ELSE q'[s] = q[s] \cup {i}
  BY DEF StreamPut, Put, TypeOK
<1>3. \A x \in Paths : wrk'[s][x] = wrk[s][x] \/ wrk'[s][x] = "loop"
  <2>1. \/ wrk' = wrk
        \/ wrk' = [wrk EXCEPT ![s] = [x \in Paths |-> "loop"]]
    BY Zenon DEF StreamPut
  <2>2. QED
    BY <2>1 DEF TypeOK
<1>4. i \in Items /\ i.kind \in {"sync", "fatal"} /\ i.rnd = 1 /\ i.ts <= clock[s]
  BY <1>1, RoutinesFacts DEF SyncInv, Stamps, TypeOK
<1>5. mode[s] = "STREAM" /\ rnd[s] = 1
  BY <1>1 DEF SyncInv, Routed
<1> HIDE DEF i
<1>6. Feeding(s)
  BY <1>1, <1>2 DEF StreamPut, Feeding, mainVars, histVars
<1>7. Routed(s)'
  BY <1>1, <1>3, <1>5, <1>6 DEF SyncInv, Routed, Unstarted, Serving, Feeding
<1>8. Stamps(s)'
  BY <1>1, <1>3 DEF SyncInv, Stamps
<1>9. Ordered(s)'
  BY <1>1, <1>2, <1>4, <1>5, <1>6, OrderedPut
<1>10. ASSUME Serving(s), NEW j \in q'[s] \ q[s], j.kind = "sync", NEW x \in Paths
       PROVE  AheadNext(s, x, j.rnd, j.ts)
  <2>1. j = i /\ ~disposed[s]
    BY <1>2, <1>10
  <2>2. Ahead(s, x, i.rnd, i.ts)
    BY <1>1, <1>10, <2>1 DEF SyncInv, Covered, Vouched, i
  <2>3. i.ts \in Nat /\ i.ts <= i.ts
    BY <1>4, ItemType
  <2>4. QED
    BY <1>6, <2>1, <2>2, <2>3, AheadFeeding
<1>11. \A x \in Paths : VouchedNext(s, x)
  BY <1>1 DEF VouchedNext
<1>12. Covered(s)'
  BY <1>6, <1>10, <1>11, CoveredFeeding
<1>13. QED
  BY <1>7, <1>8, <1>9, <1>12 DEF SyncInv

(***************************************************************************)
(* A path's goroutine queues its value, and signals if it is the first.    *)
(***************************************************************************)
LEMMA PathPutStep ==
    ASSUME TypeOK, NEW s \in Streams, SyncInv(s), NEW p \in Paths, PathPut(s, p)
    PROVE  SyncInv(s)'
<1> DEFINE i == pend[s][p]
<1>1. /\ wrk[s][p] = "put" /\ wrk'[s][p] \in {"done", "loop"}
      /\ \A x \in Paths : x # p => wrk'[s][x] = wrk[s][x]
      /\ \A r \in Routines : r # p => pend'[s][r] = pend[s][r]
      /\ run'[s] = run[s] /\ rnd'[s] = rnd[s] /\ todo'[s] = todo[s]
      /\ synced'[s] = synced[s] \ {p}
      /\ clock'[s] = clock[s] /\ clock[s] \in Nat /\ rnd[s] \in Nat
  BY RoutinesFacts DEF PathPut, Signalled, TypeOK
<1>2. IF disposed[s] THEN q'[s] = q[s] ELSE q'[s] = q[s] \cup {i}
  BY DEF PathPut, Put, TypeOK
<1>3. /\ i \in Items /\ i.kind \in {"data", "fatal"} /\ i.src = p /\ i.rnd = 1
      /\ i.ts <= clock[s]
  BY <1>1, RoutinesFacts DEF SyncInv, Stamps, TypeOK
<1>4. mode[s] = "STREAM" /\ rnd[s] = 1 /\ run[s] # "off"
  BY <1>1 DEF SyncInv, Routed
<1> HIDE DEF i
<1>5. Feeding(s)
  BY <1>1, <1>2 DEF PathPut, Feeding, mainVars, histVars
<1>6. Routed(s)'
  BY <1>1, <1>4, <1>5 DEF SyncInv, Routed, Unstarted, Serving, Feeding
<1>7. Stamps(s)'
  BY <1>1, RoutinesFacts DEF SyncInv, Stamps
<1>8. Ordered(s)'
  BY <1>1, <1>2, <1>3, <1>4, <1>5, OrderedPut
<1>9. ASSUME Serving(s), ~disposed[s], NEW x \in Paths PROVE VouchedNext(s, x)
  <2>1. pend'[s][Run] = pend[s][Run] /\ pend[s][Run].ts \in Nat
    BY <1>1, RoutinesFacts, ItemType DEF TypeOK
  <2>2. /\ run[s] = "put" /\ pend[s][Run].kind = "sync" =>
              Ahead(s, x, pend[s][Run].rnd, pend[s][Run].ts)
        /\ run[s] \in {"initial", "round"} =>
              x \in todo[s] \/ Ahead(s, x, rnd[s], clock[s] + 1)
        /\ run[s] = "spawn" =>
              x \in todo[s] \/ x \in synced[s] \/ Ahead(s, x, 1, clock[s] + 1)
    BY <1>9 DEF SyncInv, Covered, Vouched
  <2>3. clock[s] + 1 \in Nat /\ clock[s] + 1 <= clock[s] + 1
          /\ pend[s][Run].ts <= pend[s][Run].ts
    BY <1>1, <2>1
  <2>4. /\ run[s] = "put" /\ pend[s][Run].kind = "sync" =>
              AheadNext(s, x, pend[s][Run].rnd, pend[s][Run].ts)
        /\ run[s] \in {"initial", "round"} =>
              x \in todo[s] \/ AheadNext(s, x, rnd[s], clock[s] + 1)
        /\ run[s] = "spawn" =>
              x \in todo[s] \/ x \in synced[s] \/ AheadNext(s, x, 1, clock[s] + 1)
    BY <1>5, <2>1, <2>2, <2>3, AheadFeeding
  <2>5. AheadNext(s, p, 1, clock[s] + 1)
    <3>1. i \in q'[s] /\ i.ts \in Nat /\ i.ts < clock[s] + 1
      BY <1>1, <1>2, <1>3, <1>9, ItemType
    <3>2. QED
      BY <1>3, <3>1 DEF AheadNext
  <2>6. QED
    BY <1>1, <2>1, <2>4, <2>5 DEF VouchedNext
<1>10. Covered(s)'
  BY <1>2, <1>3, <1>5, <1>9, CoveredFeeding
<1>11. QED
  BY <1>6, <1>7, <1>8, <1>10 DEF SyncInv

-----------------------------------------------------------------------------
(* Main's steps that are not quiet *)

(***************************************************************************)
(* The query arrives: nothing has been queued or sent.                     *)
(***************************************************************************)
LEMMA QueryStep ==
    ASSUME TypeOK, NEW s \in Streams, SyncInv(s), RunQuery(s)
    PROVE  SyncInv(s)'
<1>1. /\ rpc[s] = "init" /\ rpc'[s] = "made"
      /\ q'[s] = q[s] /\ run'[s] = run[s] /\ rnd'[s] = rnd[s] /\ wrk'[s] = wrk[s]
      /\ pend'[s] = pend[s] /\ clock'[s] = clock[s] /\ got'[s] = got[s]
      /\ syncs'[s] = syncs[s] /\ todo'[s] = todo[s]
  BY DEF RunQuery, TypeOK, dataVars, histVars
<1>2. /\ run[s] = "off" /\ q[s] = {} /\ syncs[s] = 0
      /\ \A p \in Paths : wrk[s][p] = "off" /\ got[s][p] >= 0
  BY <1>1 DEF SyncInv, Routed, Unstarted, TypeOK
<1>3. Routed(s)' /\ Stamps(s)' /\ Ordered(s)' /\ Covered(s)'
  BY <1>1, <1>2
  DEF SyncInv, Routed, Stamps, Ordered, Covered, Unstarted, Serving
<1>4. QED
  BY <1>3 DEF SyncInv

(***************************************************************************)
(* The routine starts: nothing has been queued or sent.                    *)
(***************************************************************************)
LEMMA StartStep ==
    ASSUME TypeOK, NEW s \in Streams, SyncInv(s), RunStart(s)
    PROVE  SyncInv(s)'
<1>1. /\ rpc[s] = "made" /\ rpc'[s] = "get"
      /\ mode'[s] = mode[s] /\ kind'[s] = kind[s]
      /\ q'[s] = q[s] /\ rnd'[s] = IF mode[s] = "STREAM" THEN 1 ELSE 0
      /\ wrk'[s] = wrk[s] /\ pend'[s] = pend[s] /\ clock'[s] = clock[s]
      /\ got'[s] = got[s] /\ syncs'[s] = syncs[s] /\ todo'[s] = Paths
  BY DEF RunStart, TypeOK, histVars
<1>2. IF mode[s] = "STREAM" THEN run'[s] \in {"spawn", "validate"}
                            ELSE run'[s] \in {"poll", "once"}
  BY DEF RunStart, TypeOK
<1>3. /\ run[s] = "off" /\ q[s] = {} /\ rnd[s] = 0
      /\ \A p \in Paths : wrk[s][p] = "off"
  BY <1>1 DEF SyncInv, Routed, Unstarted
<1>4. Routed(s)'
  BY <1>1, <1>2, <1>3 DEF Routed, Unstarted, Serving
<1>5. Stamps(s)'
  BY <1>1, <1>2, <1>3 DEF Stamps
<1>6. Ordered(s)'
  BY <1>1, <1>3 DEF SyncInv, Ordered, TypeOK
<1>7. Covered(s)'
  BY <1>1, <1>2, <1>3 DEF SyncInv, Covered, Vouched, Vouches, Serving
<1>8. QED
  BY <1>4, <1>5, <1>6, <1>7 DEF SyncInv

(***************************************************************************)
(* Main's step in send's loop keeps sync messages covered when what was    *)
(* ahead of a time stays ahead of it.                                      *)
(***************************************************************************)
LEMMA CoveredServing ==
    ASSUME TypeOK, NEW s \in Streams, SyncInv(s), Serving(s),
           run'[s] = run[s], todo'[s] = todo[s], rnd'[s] = rnd[s],
           pend'[s] = pend[s], synced'[s] = synced[s], clock'[s] = clock[s],
           disposed'[s] = disposed[s], q'[s] \subseteq q[s],
           VouchesNext(s, syncs'[s]) => \A p \in Paths : got'[s][p] >= syncs'[s],
           rpc'[s] = "send" /\ item'[s].kind = "sync" /\ VouchesNext(s, item'[s].rnd) =>
              \A p \in Paths : got'[s][p] >= item'[s].rnd,
           \A p \in Paths, r \in Nat : \A t :
              Ahead(s, p, r, t) => AheadNext(s, p, r, t)
    PROVE  Covered(s)'
<1>1. \A i \in q'[s], p \in Paths : i.kind = "sync" => AheadNext(s, p, i.rnd, i.ts)
  <2>1. \A i \in q[s] : i.rnd \in Nat
    BY ItemType DEF TypeOK
  <2>2. QED
    BY <2>1 DEF SyncInv, Covered
<1>2. ASSUME ~disposed[s], NEW p \in Paths PROVE VouchedNext(s, p)
  <2>1. pend[s][Run].rnd \in Nat /\ rnd[s] \in Nat
    BY RoutinesFacts, ItemType DEF TypeOK
  <2>2. QED
    BY <1>2, <2>1 DEF SyncInv, Covered, Vouched, VouchedNext
<1>3. ~disposed'[s] => Vouched(s)'
  BY <1>2, VouchedPrimed
<1>4. QED
  BY <1>1, <1>3
  DEF Covered, Ahead, Sending, Queued, Vouches, AheadNext, VouchesNext

(***************************************************************************)
(* send takes the oldest value: what it vouches for has been taken before. *)
(***************************************************************************)
LEMMA GetStep ==
    ASSUME TypeOK, NEW s \in Streams, SyncInv(s), Get(s)
    PROVE  SyncInv(s)'
<1>1. PICK i \in Oldest(s) :
         /\ q' = [q EXCEPT ![s] = @ \ {i}]
         /\ item' = [item EXCEPT ![s] = i]
         /\ rpc' = [rpc EXCEPT ![s] = IF i.kind = "fatal" THEN "close" ELSE "send"]
  BY DEF Get
<1>2. /\ i \in q[s] /\ i \in Items /\ q[s] \subseteq Items
      /\ \A j \in q[s] : i.ts <= j.ts
  BY DEF Oldest, TypeOK
<1>3. /\ q'[s] = q[s] \ {i} /\ item'[s] = i
      /\ rpc'[s] = IF i.kind = "fatal" THEN "close" ELSE "send"
  BY <1>1 DEF TypeOK
<1>4. /\ rpc[s] = "get" /\ mode'[s] = mode[s] /\ kind'[s] = kind[s]
      /\ disposed'[s] = disposed[s]
      /\ run'[s] = run[s] /\ todo'[s] = todo[s] /\ rnd'[s] = rnd[s]
      /\ wrk'[s] = wrk[s] /\ pend'[s] = pend[s] /\ synced'[s] = synced[s]
      /\ clock'[s] = clock[s] /\ got'[s] = got[s] /\ syncs'[s] = syncs[s]
  BY DEF Get, dataVars, histVars
<1>5. Routed(s)'
  BY <1>2, <1>3, <1>4 DEF SyncInv, Routed, Unstarted, Serving
<1>6. Stamps(s)'
  BY <1>4 DEF SyncInv, Stamps
<1>7. Ordered(s)'
  <2>1. i.kind \in {"data", "sync", "fatal"}
    BY <1>2, ItemType
  <2>2. QED
    BY <1>2, <1>3, <1>4, <2>1 DEF SyncInv, Ordered
<1>8. Covered(s)'
  <2>1. CASE i.kind = "fatal"
    BY <1>3, <1>4, <2>1 DEF SyncInv, Covered, Vouches, Serving
  <2>2. CASE i.kind # "fatal"
    <3>1. ASSUME i.kind = "sync", VouchesNext(s, i.rnd), NEW p \in Paths
          PROVE  got[s][p] >= i.rnd
      <4>1. Ahead(s, p, i.rnd, i.ts)
        BY <1>2, <1>4, <3>1 DEF SyncInv, Covered, Serving
      <4>2. \A j \in q[s] : ~(j.ts < i.ts)
        BY <1>2, ItemType
      <4>3. QED
        BY <1>4, <3>1, <4>1, <4>2 DEF Ahead, Sending, Queued, Vouches, VouchesNext
    <3>2. ASSUME NEW p \in Paths, NEW r \in Nat, NEW t, Ahead(s, p, r, t)
          PROVE  AheadNext(s, p, r, t)
      BY <1>3, <1>4, <2>2, <3>2
      DEF Ahead, Sending, Queued, Vouches, AheadNext, VouchesNext
    <3>3. /\ Serving(s)
          /\ VouchesNext(s, syncs[s]) => \A p \in Paths : got[s][p] >= syncs[s]
      BY <1>4 DEF SyncInv, Covered, Serving, Vouches, VouchesNext
    <3>4. QED
      BY <1>3, <1>4, <3>1, <3>2, <3>3, CoveredServing
  <2>3. QED
    BY <2>1, <2>2
<1>9. QED
  BY <1>5, <1>6, <1>7, <1>8 DEF SyncInv

(***************************************************************************)
(* A value is sent: a sync message vouches for what was sent before it.    *)
(***************************************************************************)
LEMMA SendStep ==
    ASSUME TypeOK, NEW s \in Streams, SyncInv(s), Send(s)
    PROVE  SyncInv(s)'
<1>1. /\ rpc[s] = "send" /\ rpc'[s] = "get" /\ item'[s] = item[s]
      /\ mode'[s] = mode[s] /\ kind'[s] = kind[s]
      /\ disposed'[s] = disposed[s] /\ q'[s] = q[s]
      /\ run'[s] = run[s] /\ todo'[s] = todo[s] /\ rnd'[s] = rnd[s]
      /\ wrk'[s] = wrk[s] /\ pend'[s] = pend[s] /\ synced'[s] = synced[s]
      /\ clock'[s] = clock[s]
  BY DEF Send, TypeOK, closeVars, dataVars
<1>2. /\ item[s].rnd \in Nat /\ item[s].kind \in {"data", "sync"}
      /\ \A p \in Paths : got[s][p] \in Nat
      /\ syncs[s] \in Nat
  BY <1>1, ItemType DEF SyncInv, Ordered, TypeOK
<1>3. \/ /\ item[s].kind = "sync"
         /\ syncs'[s] = item[s].rnd
         /\ \A p \in Paths : got'[s][p] = got[s][p]
      \/ /\ item[s].kind = "data"
         /\ syncs'[s] = syncs[s]
         /\ \A p \in Paths :
               got'[s][p] = IF p = item[s].src THEN item[s].rnd ELSE got[s][p]
  <2>1. CASE item[s].kind = "sync"
    BY <2>1 DEF Send, TypeOK
  <2>2. CASE item[s].kind = "data"
    <3>1. got' = [got EXCEPT ![s][item[s].src] = item[s].rnd] /\ syncs' = syncs
      BY <2>2 DEF Send
    <3>2. QED
      BY <2>2, <3>1 DEF TypeOK
  <2>3. QED
    BY <1>2, <2>1, <2>2
<1>4. \A p \in Paths : got[s][p] <= got'[s][p] /\ got'[s][p] <= item[s].rnd
  BY <1>1, <1>2, <1>3 DEF SyncInv, Ordered
<1>5. Routed(s)'
  BY <1>1 DEF SyncInv, Routed, Unstarted, Serving
<1>6. Stamps(s)'
  BY <1>1 DEF SyncInv, Stamps
<1>7. Ordered(s)'
  <2>1. /\ \A j \in q[s] : j.rnd \in Nat
        /\ rnd[s] \in Nat
        /\ \A p \in Paths : got'[s][p] \in Nat
    BY <1>2, <1>3, ItemType DEF TypeOK
  <2>2. \A p \in Paths : got'[s][p] <= rnd[s] /\ \A j \in q[s] : got'[s][p] <= j.rnd
    BY <1>1, <1>2, <1>4, <2>1 DEF SyncInv, Ordered
  <2>3. QED
    BY <1>1, <2>2 DEF SyncInv, Ordered
<1>8. Covered(s)'
  <2>1. VouchesNext(s, syncs'[s]) => \A p \in Paths : got'[s][p] >= syncs'[s]
    BY <1>1, <1>2, <1>3, <1>4 DEF SyncInv, Covered, Vouches, VouchesNext
  <2>2. Serving(s) /\ q'[s] \subseteq q[s] /\ rpc'[s] # "send"
    BY <1>1 DEF Serving
  <2>3. ASSUME NEW p \in Paths, NEW r \in Nat, NEW t, Ahead(s, p, r, t)
        PROVE  AheadNext(s, p, r, t)
    BY <1>1, <1>2, <1>3, <1>4, <2>3
    DEF Ahead, Sending, Queued, Vouches, AheadNext, VouchesNext
  <2>4. QED
    BY <1>1, <2>1, <2>2, <2>3, CoveredServing
<1>9. QED
  BY <1>5, <1>6, <1>7, <1>8 DEF SyncInv

-----------------------------------------------------------------------------
(* The theorem *)

(***************************************************************************)
(* A step of session s leaves every other session alone, except that a     *)
(* Subscribe call may close the client it replaces.                        *)
(***************************************************************************)
LEMMA CloseQuiet ==
    ASSUME TypeOK, NEW c \in Streams, Close(c), NEW t \in Streams
    PROVE  \/ q'[t] = q[t] /\ disposed'[t] = disposed[t]
           \/ q'[t] = {} /\ disposed'[t] = TRUE
<1>1. CASE NotDisposed(c)
  <2>1. /\ disposed' = [disposed EXCEPT ![c] = TRUE]
        /\ q' = [q EXCEPT ![c] = {}]
    BY <1>1 DEF Close
  <2>2. QED
    BY <2>1 DEF TypeOK
<1>2. CASE ~NotDisposed(c)
  BY <1>2 DEF Close, closeVars
<1>3. QED
  BY <1>1, <1>2

(***************************************************************************)
(* The other steps of the goroutine in Subscribe are quiet,                *)
(***************************************************************************)
LEMMA MainQuiet ==
    ASSUME TypeOK, NEW s \in Streams, NEW t \in Streams,
           \/ Subscribe(s) \/ Unregister(s) \/ RunAborted(s) \/ RunRefused(s)
           \/ RunClose(s) \/ RunWait(s) \/ GetDisposed(s) \/ SendError(s)
    PROVE  Quiet(t)
<1> USE DEF TypeOK, Quiet, Unstarted, mainVars, closeVars, dataVars, envVars, histVars
<1>1. CASE Subscribe(s)
  <2>1. CASE clients[AddrOf[s]] = NoStream
    BY <1>1, <2>1 DEF Subscribe
  <2>2. CASE clients[AddrOf[s]] # NoStream
    <3>1. clients[AddrOf[s]] \in Streams /\ Close(clients[AddrOf[s]])
      <4>1. AddrOf[s] \in Addrs
        BY ConstantsAssumption
      <4>2. QED
        BY <1>1, <2>2, <4>1 DEF Subscribe
    <3>2. \/ q'[t] = q[t] /\ disposed'[t] = disposed[t]
          \/ q'[t] = {} /\ disposed'[t] = TRUE
      BY <3>1, CloseQuiet
    <3>3. QED
      BY <1>1, <3>2 DEF Subscribe
  <2>3. QED
    BY <2>1, <2>2
<1>2. CASE RunClose(s)
  <2>1. \/ q'[t] = q[t] /\ disposed'[t] = disposed[t]
        \/ q'[t] = {} /\ disposed'[t] = TRUE
    BY <1>2, CloseQuiet DEF RunClose
  <2>2. QED
    BY <1>2, <2>1 DEF RunClose
<1>3. CASE Unregister(s) \/ RunAborted(s) \/ RunRefused(s) \/ RunWait(s)
  BY <1>3 DEF Unregister, RunAborted, RunRefused, RunWait
<1>4. CASE GetDisposed(s) \/ SendError(s)
  BY <1>4 DEF GetDisposed, SendError
<1>5. QED
  BY <1>1, <1>2, <1>3, <1>4

(***************************************************************************)
(* so are those of recv and of the client,                                 *)
(***************************************************************************)
LEMMA RecvClientQuiet ==
    ASSUME TypeOK, NEW s \in Streams, NEW t \in Streams, Recv(s) \/ Client(s)
    PROVE  Quiet(t)
<1> USE DEF Quiet, Unstarted, mainVars, closeVars, dataVars, envVars, histVars
<1>1. CASE RecvClose(s)
  <2>1. \/ q'[t] = q[t] /\ disposed'[t] = disposed[t]
        \/ q'[t] = {} /\ disposed'[t] = TRUE
    BY <1>1, CloseQuiet DEF RecvClose
  <2>2. QED
    BY <1>1, <2>1 DEF RecvClose
<1>2. CASE RecvPoll(s) \/ RecvPush(s) \/ RecvEnd(s) \/ RecvEOF(s)
  BY <1>2 DEF RecvPoll, RecvPush, RecvEnd, RecvEOF
<1>3. CASE Client(s)
  BY <1>3 DEF Client, ClientPoll, ClientEOF, Disconnect
<1>4. QED
  BY <1>1, <1>2, <1>3 DEF Recv

(***************************************************************************)
(* and so is the end of a data goroutine.                                  *)
(***************************************************************************)
LEMMA EndQuiet ==
    ASSUME TypeOK, NEW s \in Streams, NEW t \in Streams,
           \/ StreamStop(s) \/ PollStop(s) \/ PollReadError(s) \/ OnceRun(s)
           \/ \E p \in Paths : PathStop(s, p)
    PROVE  Quiet(t)
<1> USE DEF TypeOK, Quiet, Unstarted, mainVars, closeVars, dataVars, envVars, histVars
<1>1. CASE StreamStop(s) \/ PollStop(s) \/ PollReadError(s) \/ OnceRun(s)
  BY <1>1 DEF StreamStop, PollStop, AwaitsToken, PollReadError, OnceRun
<1>2. ASSUME NEW p \in Paths, PathStop(s, p) PROVE Quiet(t)
  BY <1>2 DEF PathStop
<1>3. QED
  BY <1>1, <1>2

(***************************************************************************)
(* The other steps of session s change nothing in another session.         *)
(***************************************************************************)
LEMMA OthersQuiet ==
    ASSUME TypeOK, NEW s \in Streams, NEW t \in Streams, t # s,
           \/ RunQuery(s) \/ RunStart(s) \/ Get(s) \/ Send(s)
           \/ StreamUnsupported(s) \/ StreamSync(s) \/ StreamPut(s)
           \/ SampleValidated(s) \/ SampleSync(s) \/ PollRound(s) \/ PollSync(s)
           \/ OnceSync(s)
           \/ \E p \in Paths : \/ StreamSpawn(s, p) \/ RoundValue(s, p)
                               \/ PathFirst(s, p) \/ PathUpdate(s, p)
                               \/ PathPut(s, p)
    PROVE  Quiet(t)
<1> USE DEF TypeOK, Quiet, Unstarted, mainVars, closeVars, dataVars,
            envVars, histVars
<1>1. CASE RunQuery(s) \/ RunStart(s) \/ Send(s)
  BY <1>1 DEF RunQuery, RunStart, Send
<1>2. CASE Get(s)
  BY <1>2 DEF Get
<1>3. CASE StreamUnsupported(s) \/ StreamSync(s) \/ SampleSync(s)
  BY <1>3 DEF StreamUnsupported, StreamSync, SampleSync, Tick
<1>4. CASE StreamPut(s)
  <2>1. \/ wrk' = wrk
        \/ wrk' = [wrk EXCEPT ![s] = [x \in Paths |-> "loop"]]
    BY <1>4, Zenon DEF StreamPut
  <2>2. wrk'[t] = wrk[t]
    BY <2>1
  <2>3. QED
    BY <1>4, <2>2 DEF StreamPut, Put
<1>5. CASE SampleValidated(s) \/ PollRound(s) \/ PollSync(s) \/ OnceSync(s)
  BY <1>5 DEF SampleValidated, PollRound, PollSync, OnceSync, Put, Tick
<1>6. ASSUME NEW p \in Paths, StreamSpawn(s, p) \/ RoundValue(s, p) PROVE Quiet(t)
  BY <1>6 DEF StreamSpawn, RoundValue, Put, Tick
<1>7. ASSUME NEW p \in Paths, PathFirst(s, p) \/ PathUpdate(s, p) PROVE Quiet(t)
  BY <1>7 DEF PathFirst, PathUpdate, Tick
<1>8. ASSUME NEW p \in Paths, PathPut(s, p) PROVE Quiet(t)
  BY <1>8 DEF PathPut, Put
<1>9. QED
  BY <1>1, <1>2, <1>3, <1>4, <1>5, <1>6, <1>7, <1>8

(***************************************************************************)
(* The invariant holds of every session in every reachable state.          *)
(***************************************************************************)
SyncsInv == \A s \in Streams : SyncInv(s)

(***************************************************************************)
(* Every session keeps the invariant.                                      *)
(***************************************************************************)
LEMMA SyncsKept == Spec => []SyncsInv
<1>1. Init => SyncsInv
  <2> SUFFICES ASSUME Init, NEW s \in Streams PROVE SyncInv(s)
    BY DEF SyncsInv
  <2>1. /\ rpc[s] = "idle" /\ mode[s] = "STREAM" /\ q[s] = {} /\ run[s] = "off"
        /\ rnd[s] = 0 /\ syncs[s] = 0
        /\ \A p \in Paths : wrk[s][p] = "off" /\ got[s][p] = 0
    BY DEF Init
  <2>2. Routed(s) /\ Stamps(s) /\ Ordered(s) /\ Covered(s)
    BY <2>1 DEF Routed, Stamps, Ordered, Covered, Unstarted, Serving
  <2>3. QED
    BY <2>2 DEF SyncInv
<1>2. TypeOK /\ SyncsInv /\ [Next]_vars => SyncsInv'
  <2> SUFFICES ASSUME TypeOK, SyncsInv, [Next]_vars, NEW t \in Streams
               PROVE  SyncInv(t)'
    BY DEF SyncsInv
  <2>1. SyncInv(t)
    BY DEF SyncsInv
  <2>2. CASE Quiet(t)
    BY <2>1, <2>2, QuietStep
  <2>3. CASE UNCHANGED vars
    BY <2>2, <2>3 DEF Quiet, Unstarted, vars
  <2>4. ASSUME NEW s \in Streams, Main(s) PROVE SyncInv(t)'
    <3>1. CASE t = s
      BY <2>1, <2>2, <2>4, <3>1, MainQuiet, QueryStep, StartStep, GetStep, SendStep
      DEF Main
    <3>2. CASE t # s
      BY <2>2, <2>4, <3>2, MainQuiet, OthersQuiet DEF Main
    <3>3. QED
      BY <3>1, <3>2
  <2>5. ASSUME NEW s \in Streams, Recv(s) \/ Client(s) PROVE SyncInv(t)'
    BY <2>2, <2>5, RecvClientQuiet
  <2>6. ASSUME NEW s \in Streams, Data(s) PROVE SyncInv(t)'
    <3>1. CASE t = s
      BY <2>1, <2>2, <2>6, <3>1, EndQuiet, UnsupportedStep, StreamSyncStep,
         StreamPutStep, ValidatedStep, SampleSyncStep, PollRoundStep,
         PollSyncStep, SpawnStep, RoundValueStep, LeftOutStep
      DEF Data
    <3>2. CASE t # s
      BY <2>2, <2>6, <3>2, EndQuiet, OthersQuiet DEF Data
    <3>3. QED
      BY <3>1, <3>2
  <2>7. ASSUME NEW s \in Streams, NEW p \in Paths, Path(s, p) PROVE SyncInv(t)'
    <3>1. CASE t = s
      BY <2>1, <2>2, <2>7, <3>1, EndQuiet, StampStep, PathPutStep DEF Path
    <3>2. CASE t # s
      BY <2>2, <2>7, <3>2, EndQuiet, OthersQuiet DEF Path
    <3>3. QED
      BY <3>1, <3>2
  <2>8. QED
    BY <2>3, <2>4, <2>5, <2>6, <2>7 DEF Next
<1>3. QED
  BY <1>1, <1>2, TypeCorrect, PTL DEF Spec

(***************************************************************************)
(* A client that has been sent the sync_response of a round has been sent  *)
(* every path's value of that round (unless updates_only asked to leave    *)
(* that round's values out), whatever the number of sessions, of paths and *)
(* of values, and however the goroutines interleave and fail.              *)
(***************************************************************************)
THEOREM SyncIsComplete == Spec => []SyncComplete
<1>1. SyncsInv => SyncComplete
  BY DEF SyncsInv, SyncInv, Covered, SyncComplete
<1>2. QED
  BY <1>1, SyncsKept, PTL

-----------------------------------------------------------------------------
(***************************************************************************)
(* The proofs that the values of a path are sent in the order they were    *)
(* read in, that a session implements ResponseRounds, and that no          *)
(* goroutine of it panics while its client waits for its answers and no    *)
(* other call comes from its address.                                      *)
(***************************************************************************)

(***************************************************************************)
(* Values of one path go through the queue in the order they are stamped   *)
(* in: what a path's goroutine has stamped is younger than what it has     *)
(* queued, and only one goroutine at a time stamps values of a path.       *)
(***************************************************************************)
Younger(s, p, t) == \A i \in q[s] : i.kind = "data" /\ i.src = p => i.ts < t

Timely(s) ==
    /\ run[s] \in {"validate", "initial"} => \A p \in Paths : wrk[s][p] = "off"
    /\ pend[s][Run].kind # "data" /\ pend[s][Run].src = Run
    /\ \A i \in q[s] : i.kind = "sync" => i.src = Run
    /\ \A p \in Paths :
          /\ wrk[s][p] = "off" => pend[s][p].kind # "data"
          /\ pend[s][p].kind = "data" => /\ pend[s][p].src = p
                                         /\ pend[s][p].ts <= clock[s]
                                         /\ Younger(s, p, pend[s][p].ts)
    /\ \A i, j \in q[s] :
          i.kind = "data" /\ j.kind = "data" /\ i.src = j.src /\ i.ts = j.ts => i = j
    /\ rpc[s] = "send" =>
          /\ item[s].ts <= clock[s]
          /\ \A j \in q[s] : j.kind = "data" /\ j.src = item[s].src => item[s].ts < j.ts
          /\ \A p \in Paths : pend[s][p].kind = "data" /\ p = item[s].src =>
                                  item[s].ts < pend[s][p].ts

(***************************************************************************)
(* The sync message of round r is queued or being sent.                    *)
(***************************************************************************)
SyncDue(s, r) ==
    \/ \E i \in q[s] : i.kind = "sync" /\ i.rnd = r
    \/ rpc[s] = "send" /\ item[s].kind = "sync" /\ item[s].rnd = r

(***************************************************************************)
(* POLL and ONCE: every round begun before this one ends in the queue with *)
(* a sync message that is its last, so that what is sent is always of the  *)
(* round after the last one closed.                                        *)
(***************************************************************************)
Numbered(s) ==
    /\ syncs[s] <= rnd[s]
    /\ \A i \in q[s] : i.rnd > syncs[s] /\ i.kind # "fatal"
    /\ \A i, j \in q[s] : i.kind = "sync" /\ j.rnd = i.rnd /\ j # i => j.ts < i.ts
    /\ run[s] = "round" => /\ syncs[s] < rnd[s]
                           /\ \A i \in q[s] : i.kind = "sync" => i.rnd < rnd[s]
    /\ rpc[s] = "send" =>
          /\ item[s].rnd = syncs[s] + 1
          /\ item[s].kind = "sync" => /\ \A j \in q[s] : j.rnd > item[s].rnd
                                      /\ run[s] = "round" => item[s].rnd < rnd[s]
    /\ Serving(s) /\ ~disposed[s] =>
          \A r \in 1..rnd[s] : syncs[s] < r /\ (r < rnd[s] \/ run[s] = "poll")
                             => SyncDue(s, r)
    /\ run[s] \in {"off", "once"} => rnd[s] = 0
    /\ mode[s] = "ONCE" => rnd[s] <= 1 /\ run[s] # "poll"

(***************************************************************************)
(* STREAM: there is one sync message.                                      *)
(***************************************************************************)
Unsynced(s) ==
    /\ syncs[s] = 0
    /\ \A i \in q[s] : i.kind # "sync"
    /\ rpc[s] = "send" => item[s].kind # "sync"

Single(s) ==
    /\ \/ run[s] \in {"off", "spawn", "validate", "initial"}
       \/ run[s] = "put" /\ pend[s][Run].kind = "sync"
       => Unsynced(s)
    /\ \A i, j \in q[s] : i.kind = "sync" /\ j.kind = "sync" => i = j /\ syncs[s] = 0
    /\ rpc[s] = "send" =>
          /\ item[s].rnd = 1
          /\ item[s].kind = "sync" => syncs[s] = 0 /\ \A j \in q[s] : j.kind # "sync"

RoundsInv(s) ==
    /\ Timely(s)
    /\ mode[s] = "STREAM" => Single(s)
    /\ mode[s] # "STREAM" => Numbered(s)

(***************************************************************************)
(* The numbers of a session.                                               *)
(***************************************************************************)
LEMMA Numbers ==
    ASSUME TypeOK, NEW s \in Streams
    PROVE  /\ clock[s] \in Nat /\ rnd[s] \in Nat /\ syncs[s] \in Nat
           /\ item[s].ts \in Nat /\ item[s].rnd \in Nat
           /\ \A i \in q[s] : i.ts \in Nat /\ i.rnd \in Nat
                                /\ i.kind \in {"data", "sync", "fatal"}
           /\ \A r \in Routines : pend[s][r].ts \in Nat
BY ItemType DEF TypeOK

(***************************************************************************)
(* Which routine runs tells the mode.                                      *)
(***************************************************************************)
LEMMA ModeFacts ==
    ASSUME NEW s \in Streams, SyncInv(s)
    PROVE  /\ run[s] \in {"spawn", "validate", "initial", "put"} => mode[s] = "STREAM"
           /\ run[s] \in {"poll", "round", "once"} => mode[s] # "STREAM"
           /\ \A p \in Paths : wrk[s][p] # "off" => mode[s] = "STREAM"
BY DEF SyncInv, Routed

(***************************************************************************)
(* A quiet step keeps the invariant.                                       *)
(***************************************************************************)
LEMMA QuietRounds ==
    ASSUME NEW s \in Streams, RoundsInv(s), SyncInv(s), Quiet(s)
    PROVE  RoundsInv(s)'
<1> USE DEF RoundsInv, Quiet
<1>1. /\ q'[s] \subseteq q[s] /\ (rpc'[s] = "send" => rpc[s] = "send")
      /\ run'[s] = run[s] \/ run'[s] = "exit"
  OBVIOUS
<1>2. Timely(s)'
  BY <1>1 DEF Timely, Younger
<1>3. mode[s] = "STREAM" => Single(s)'
  BY <1>1 DEF Single, Unsynced
<1>4. mode[s] # "STREAM" => Numbered(s)'
  <2>1. SUFFICES ASSUME mode[s] # "STREAM" PROVE Numbered(s)'
    OBVIOUS
  <2>2. ASSUME Serving(s)', ~disposed'[s], NEW r \in 1..rnd[s], syncs[s] < r,
               r < rnd[s] \/ run'[s] = "poll"
        PROVE  SyncDue(s, r)'
    <3>1. q'[s] = q[s] /\ rpc'[s] = rpc[s] /\ disposed'[s] = disposed[s]
      BY <2>2 DEF Serving
    <3>2. SyncDue(s, r)
      BY <1>1, <2>1, <2>2, <3>1 DEF Numbered, Serving
    <3>. QED  BY <3>1, <3>2 DEF SyncDue
  <2>3. \A r \in 1..rnd'[s] : Serving(s)' /\ ~disposed'[s] /\ syncs'[s] < r
            /\ (r < rnd'[s] \/ run'[s] = "poll") => SyncDue(s, r)'
    BY <2>2
  <2>. QED  BY <1>1, <2>1, <2>3 DEF Numbered
<1>. QED  BY <1>2, <1>3, <1>4

-----------------------------------------------------------------------------
(* The routines' steps *)

(***************************************************************************)
(* StreamRun starts a path's goroutine.                                    *)
(***************************************************************************)
LEMMA SpawnRounds ==
    ASSUME TypeOK, NEW s \in Streams, SyncInv(s), RoundsInv(s), NEW p \in Paths,
           StreamSpawn(s, p)
    PROVE  RoundsInv(s)'
<1>1. /\ run[s] = "spawn" /\ run'[s] = run[s] /\ rnd'[s] = rnd[s]
      /\ pend'[s] = pend[s] /\ clock'[s] = clock[s] /\ q'[s] = q[s]
      /\ \A x \in Paths : wrk'[s][x] = "off" => wrk[s][x] = "off"
  BY DEF StreamSpawn, TypeOK, closeVars
<1>2. Feeding(s)
  BY <1>1, Numbers DEF StreamSpawn, Feeding, mainVars, closeVars, histVars
<1>3. mode[s] = "STREAM" /\ mode'[s] = "STREAM"
  BY <1>1, <1>2, ModeFacts DEF Feeding
<1>4. Timely(s)'
  BY <1>1, <1>2 DEF RoundsInv, Timely, Younger, Feeding
<1>5. Single(s)'
  BY <1>1, <1>2, <1>3 DEF RoundsInv, Single, Unsynced, Feeding
<1>. QED  BY <1>3, <1>4, <1>5 DEF RoundsInv

(***************************************************************************)
(* StreamRun stamps its one message, the sync or the fatal one.            *)
(***************************************************************************)
LEMMA StreamStampRounds ==
    ASSUME TypeOK, NEW s \in Streams, SyncInv(s), RoundsInv(s),
           StreamUnsupported(s) \/ StreamSync(s) \/ SampleSync(s)
    PROVE  RoundsInv(s)'
<1>1. /\ run[s] \in {"spawn", "validate", "initial"} /\ run'[s] = "put"
      /\ rnd'[s] = rnd[s] /\ clock'[s] = clock[s] + 1 /\ q'[s] = q[s]
      /\ wrk'[s] = wrk[s]
      /\ \A x \in Paths : pend'[s][x] = pend[s][x]
      /\ pend'[s][Run].kind # "data" /\ pend'[s][Run].src = Run
  BY RoutinesFacts
  DEF StreamUnsupported, StreamSync, SampleSync, Stamped, Tick, TypeOK, closeVars
<1>2. Feeding(s)
  BY <1>1, Numbers
  DEF StreamUnsupported, StreamSync, SampleSync, Feeding, mainVars, closeVars, histVars
<1>3. mode[s] = "STREAM" /\ mode'[s] = "STREAM"
  BY <1>1, <1>2, ModeFacts DEF Feeding
<1>4. Timely(s)'
  <2>1. \A x \in Paths : pend[s][x].ts \in Nat
    BY Numbers, RoutinesFacts
  <2>. QED  BY <1>1, <1>2, <2>1, Numbers DEF RoundsInv, Timely, Younger, Feeding
<1>5. Single(s)'
  BY <1>1, <1>2, <1>3 DEF RoundsInv, Single, Unsynced, Feeding
<1>. QED  BY <1>3, <1>4, <1>5 DEF RoundsInv

(***************************************************************************)
(* A path's goroutine stamps a value: it is the youngest of the session.   *)
(***************************************************************************)
LEMMA PathStampRounds ==
    ASSUME TypeOK, NEW s \in Streams, SyncInv(s), RoundsInv(s), NEW p \in Paths,
           PathFirst(s, p) \/ PathUpdate(s, p)
    PROVE  RoundsInv(s)'
<1>1. PICK k \in {"data", "fatal"} : pend' = [pend EXCEPT ![s][p] = Stamped(s, p, k)]
  BY DEF PathFirst, PathUpdate
<1>2. /\ wrk[s][p] \in {"start", "loop"} /\ wrk'[s][p] = "put"
      /\ \A x \in Paths : x # p => wrk'[s][x] = wrk[s][x]
      /\ run'[s] = run[s] /\ rnd'[s] = rnd[s] /\ clock'[s] = clock[s] + 1
      /\ q'[s] = q[s]
  BY DEF PathFirst, PathUpdate, Tick, TypeOK, closeVars
<1>3. /\ pend'[s][p].ts = clock[s] + 1 /\ pend'[s][p].src = p
      /\ \A r \in Routines : r # p => pend'[s][r] = pend[s][r]
      /\ pend'[s][Run] = pend[s][Run]
  BY <1>1, RoutinesFacts DEF TypeOK, Stamped
<1>4. Feeding(s)
  BY <1>2, Numbers DEF PathFirst, PathUpdate, Feeding, mainVars, closeVars, histVars
<1>5. mode[s] = "STREAM" /\ mode'[s] = "STREAM"
  BY <1>2, <1>4, ModeFacts DEF Feeding
<1>6. Timely(s)'
  <2>1. /\ \A i \in q[s] : i.ts <= clock[s] /\ i.ts \in Nat
        /\ rpc[s] = "send" => item[s].ts <= clock[s]
        /\ clock[s] \in Nat /\ item[s].ts \in Nat
        /\ \A x \in Paths : pend[s][x].ts \in Nat
    BY Numbers, RoutinesFacts DEF SyncInv, Ordered, RoundsInv, Timely
  <2>2. ASSUME NEW x \in Paths
        PROVE  /\ wrk'[s][x] = "off" => pend'[s][x].kind # "data"
               /\ pend'[s][x].kind = "data" => /\ pend'[s][x].src = x
                                               /\ pend'[s][x].ts <= clock'[s]
                                               /\ Younger(s, x, pend[s][x].ts)'
    <3>1. CASE x = p
      BY <1>2, <1>3, <2>1, <3>1 DEF Younger
    <3>2. CASE x # p
      BY <1>2, <1>3, <2>1, <3>2, RoutinesFacts DEF RoundsInv, Timely, Younger
    <3>. QED  BY <3>1, <3>2
  <2>3. rpc'[s] = "send" =>
          /\ item'[s].ts <= clock'[s]
          /\ \A j \in q'[s] : j.kind = "data" /\ j.src = item'[s].src => item'[s].ts < j.ts
          /\ \A x \in Paths : pend'[s][x].kind = "data" /\ x = item'[s].src =>
                                  item'[s].ts < pend'[s][x].ts
    BY <1>2, <1>3, <1>4, <2>1, RoutinesFacts DEF RoundsInv, Timely, Feeding
  <2>. QED  BY <1>2, <1>3, <1>4, <2>2, <2>3 DEF RoundsInv, Timely
<1>7. Single(s)'
  BY <1>2, <1>3, <1>4, <1>5 DEF RoundsInv, Single, Unsynced, Feeding
<1>. QED  BY <1>5, <1>6, <1>7 DEF RoundsInv

(***************************************************************************)
(* StreamRun of the non-DB client has validated its subscriptions.         *)
(***************************************************************************)
LEMMA ValidatedRounds ==
    ASSUME TypeOK, NEW s \in Streams, SyncInv(s), RoundsInv(s), SampleValidated(s)
    PROVE  RoundsInv(s)'
<1>1. /\ run[s] = "validate" /\ run'[s] = "initial" /\ rnd'[s] = rnd[s]
      /\ pend'[s] = pend[s] /\ clock'[s] = clock[s] /\ q'[s] = q[s] /\ wrk'[s] = wrk[s]
  BY DEF SampleValidated, TypeOK, closeVars
<1>2. Feeding(s)
  BY <1>1, Numbers DEF SampleValidated, Feeding, mainVars, closeVars, histVars
<1>3. mode[s] = "STREAM" /\ mode'[s] = "STREAM"
  BY <1>1, <1>2, ModeFacts DEF Feeding
<1>4. Timely(s)'
  BY <1>1, <1>2 DEF RoundsInv, Timely, Younger, Feeding
<1>5. Single(s)'
  BY <1>1, <1>2, <1>3 DEF RoundsInv, Single, Unsynced, Feeding
<1>. QED  BY <1>3, <1>4, <1>5 DEF RoundsInv

(***************************************************************************)
(* StreamRun puts its one message.                                         *)
(***************************************************************************)
LEMMA StreamPutRounds ==
    ASSUME TypeOK, NEW s \in Streams, SyncInv(s), RoundsInv(s), StreamPut(s)
    PROVE  RoundsInv(s)'
<1> DEFINE i == pend[s][Run]
<1>1. /\ run[s] = "put" /\ run'[s] \in {"stopwait", "exit"} /\ rnd'[s] = rnd[s]
      /\ \A x \in Paths : pend'[s][x] = pend[s][x]
      /\ pend'[s][Run].kind # "data" /\ pend'[s][Run].src = Run /\ clock'[s] = clock[s]
  BY RoutinesFacts DEF StreamPut, NoItem, TypeOK
<1>2. q'[s] = q[s] \/ q'[s] = q[s] \cup {i}
  BY DEF StreamPut, Put, TypeOK
<1>3. \A x \in Paths : wrk'[s][x] = "off" => wrk[s][x] = "off"
  <2>1. \/ wrk' = wrk
        \/ wrk' = [wrk EXCEPT ![s] = [x \in Paths |-> "loop"]]
    BY Zenon DEF StreamPut
  <2>. QED  BY <2>1 DEF TypeOK
<1>4. i.kind \in {"sync", "fatal"}
  BY <1>1 DEF SyncInv, Stamps
<1>5. i.src = Run /\ (i.kind = "sync" => Unsynced(s))
  BY <1>1, ModeFacts DEF RoundsInv, Single, Timely
<1> HIDE DEF i
<1>6. Feeding(s)
  BY <1>1, <1>2, Numbers DEF StreamPut, Feeding, mainVars, histVars
<1>7. mode[s] = "STREAM" /\ mode'[s] = "STREAM"
  BY <1>1, <1>6, ModeFacts DEF Feeding
<1>8. Timely(s)'
  BY <1>1, <1>2, <1>3, <1>4, <1>5, <1>6 DEF RoundsInv, Timely, Younger, Feeding
<1>9. Single(s)'
  BY <1>1, <1>2, <1>4, <1>5, <1>6, <1>7 DEF RoundsInv, Single, Unsynced, Feeding
<1>. QED  BY <1>7, <1>8, <1>9 DEF RoundsInv

(***************************************************************************)
(* A path's goroutine puts what it has stamped, behind its older values.   *)
(***************************************************************************)
LEMMA PathPutRounds ==
    ASSUME TypeOK, NEW s \in Streams, SyncInv(s), RoundsInv(s), NEW p \in Paths,
           PathPut(s, p)
    PROVE  RoundsInv(s)'
<1> DEFINE i == pend[s][p]
<1>1. /\ wrk[s][p] = "put" /\ wrk'[s][p] \in {"done", "loop"}
      /\ \A x \in Paths : x # p => wrk'[s][x] = wrk[s][x]
      /\ \A r \in Routines : r # p => pend'[s][r] = pend[s][r]
      /\ pend'[s][p].kind # "data"
      /\ run'[s] = run[s] /\ rnd'[s] = rnd[s] /\ clock'[s] = clock[s]
  BY RoutinesFacts DEF PathPut, NoItem, TypeOK
<1>2. q'[s] = q[s] \/ q'[s] = q[s] \cup {i}
  BY DEF PathPut, Put, TypeOK
<1>3. i.kind \in {"data", "fatal"} /\ i.src = p
  BY <1>1 DEF SyncInv, Stamps
<1>4. /\ i.kind = "data" => Younger(s, p, i.ts)
      /\ i.kind = "data" /\ rpc[s] = "send" /\ p = item[s].src => item[s].ts < i.ts
      /\ i.ts \in Nat
  BY Numbers, RoutinesFacts DEF RoundsInv, Timely
<1> HIDE DEF i
<1>5. Feeding(s)
  BY <1>1, <1>2, Numbers DEF PathPut, Feeding, mainVars, histVars
<1>6. mode[s] = "STREAM" /\ mode'[s] = "STREAM"
  BY <1>1, <1>5, ModeFacts DEF Feeding
<1>7. Timely(s)'
  <2>1. pend'[s][Run] = pend[s][Run] /\ \A x \in Paths : x # p => pend'[s][x] = pend[s][x]
    BY <1>1, RoutinesFacts
  <2>2. ASSUME NEW j \in q'[s], NEW k \in q'[s], j.kind = "data", k.kind = "data",
               j.src = k.src, j.ts = k.ts
        PROVE  j = k
    BY <1>2, <1>3, <1>4, <2>2, Numbers DEF RoundsInv, Timely, Younger
  <2>3. ASSUME NEW x \in Paths
        PROVE  /\ wrk'[s][x] = "off" => pend'[s][x].kind # "data"
               /\ pend'[s][x].kind = "data" => /\ pend'[s][x].src = x
                                               /\ pend'[s][x].ts <= clock'[s]
                                               /\ Younger(s, x, pend[s][x].ts)'
    BY <1>1, <1>2, <1>3, <2>1 DEF RoundsInv, Timely, Younger
  <2>4. rpc'[s] = "send" =>
          /\ item'[s].ts <= clock'[s]
          /\ \A j \in q'[s] : j.kind = "data" /\ j.src = item'[s].src => item'[s].ts < j.ts
          /\ \A x \in Paths : pend'[s][x].kind = "data" /\ x = item'[s].src =>
                                  item'[s].ts < pend'[s][x].ts
    BY <1>1, <1>2, <1>3, <1>4, <1>5, <2>1 DEF RoundsInv, Timely, Feeding
  <2>. QED  BY <1>1, <1>2, <1>3, <2>1, <2>2, <2>3, <2>4 DEF RoundsInv, Timely
<1>8. Single(s)'
  BY <1>1, <1>2, <1>3, <1>5, <1>6, RoutinesFacts DEF RoundsInv, Single, Unsynced, Feeding
<1>. QED  BY <1>6, <1>7, <1>8 DEF RoundsInv

(***************************************************************************)
(* A value of a round is the youngest of the session.                      *)
(***************************************************************************)
LEMMA RoundValueRounds ==
    ASSUME TypeOK, NEW s \in Streams, SyncInv(s), RoundsInv(s), NEW p \in Paths,
           RoundValue(s, p), ~LeftOut(s)
    PROVE  RoundsInv(s)'
<1> DEFINE i == Stamped(s, p, "data")
<1>1. /\ run[s] \in {"initial", "round"} /\ run'[s] = run[s] /\ rnd'[s] = rnd[s]
      /\ pend'[s] = pend[s] /\ clock'[s] = clock[s] + 1 /\ wrk'[s] = wrk[s]
  BY DEF RoundValue, Tick, TypeOK
<1>2. q'[s] = q[s] \/ q'[s] = q[s] \cup {i}
  BY DEF RoundValue, Put, TypeOK
<1>3. i.kind = "data" /\ i.src = p /\ i.rnd = rnd[s] /\ i.ts = clock[s] + 1
  BY DEF Stamped
<1> HIDE DEF i
<1>4. Feeding(s)
  BY <1>1, <1>2, Numbers DEF RoundValue, Feeding, mainVars, histVars
<1>5. /\ \A j \in q[s] : j.ts \in Nat /\ j.ts <= clock[s] /\ j.rnd \in Nat
      /\ rpc[s] = "send" => item[s].ts <= clock[s]
      /\ clock[s] \in Nat /\ item[s].ts \in Nat /\ rnd[s] \in Nat /\ syncs[s] \in Nat
      /\ item[s].rnd \in Nat
  BY Numbers DEF SyncInv, Ordered, RoundsInv, Timely
<1>6. \A x \in Paths : wrk[s][x] = "off" /\ pend[s][x].kind # "data"
  BY <1>1, ModeFacts DEF RoundsInv, Timely
<1>7. Timely(s)'
  <2>1. \A x \in Paths : pend'[s][x].kind # "data" /\ wrk'[s][x] = "off"
    BY <1>1, <1>6
  <2>2. ASSUME NEW j \in q'[s], NEW k \in q'[s], j.kind = "data", k.kind = "data",
               j.src = k.src, j.ts = k.ts
        PROVE  j = k
    BY <1>2, <1>3, <1>5, <2>2 DEF RoundsInv, Timely
  <2>3. rpc'[s] = "send" =>
          /\ item'[s].ts <= clock'[s]
          /\ \A j \in q'[s] : j.kind = "data" /\ j.src = item'[s].src => item'[s].ts < j.ts
    BY <1>1, <1>2, <1>3, <1>4, <1>5 DEF RoundsInv, Timely, Feeding
  <2>. QED  BY <1>1, <1>2, <1>3, <2>1, <2>2, <2>3 DEF RoundsInv, Timely
<1>8. CASE run[s] = "initial"
  <2>1. mode[s] = "STREAM" /\ mode'[s] = "STREAM"
    BY <1>4, <1>8, ModeFacts DEF Feeding
  <2>2. Single(s)'
    BY <1>1, <1>2, <1>3, <1>4, <2>1 DEF RoundsInv, Single, Unsynced, Feeding
  <2>. QED  BY <1>7, <2>1, <2>2 DEF RoundsInv
<1>9. CASE run[s] = "round"
  <2>1. mode[s] # "STREAM" /\ mode'[s] # "STREAM" /\ Numbered(s)
    BY <1>4, <1>9, ModeFacts DEF Feeding, RoundsInv
  <2>2. ASSUME NEW j \in q'[s] PROVE j.rnd > syncs[s] /\ j.kind # "fatal"
    BY <1>2, <1>3, <1>5, <1>9, <2>1 DEF Numbered
  <2>3. ASSUME NEW j \in q'[s], NEW k \in q'[s], j.kind = "sync", k.rnd = j.rnd, k # j
        PROVE  k.ts < j.ts
    BY <1>2, <1>3, <1>5, <1>9, <2>1, <2>3 DEF Numbered
  <2>4. \A j \in q'[s] : j.kind = "sync" => j \in q[s]
    BY <1>2, <1>3
  <2>5. rpc[s] = "send" /\ item[s].kind = "sync" => \A j \in q'[s] : j.rnd > item[s].rnd
    BY <1>2, <1>3, <1>5, <1>9, <2>1 DEF Numbered
  <2>6. \A r : SyncDue(s, r) => SyncDue(s, r)'
    BY <1>4 DEF SyncDue, Feeding
  <2>7. Numbered(s)'
    BY <1>1, <1>4, <1>9, <2>1, <2>2, <2>3, <2>4, <2>5, <2>6
    DEF Numbered, Serving, Feeding
  <2>. QED  BY <1>7, <2>1, <2>7 DEF RoundsInv
<1>. QED  BY <1>1, <1>8, <1>9

(***************************************************************************)
(* A value is left out.                                                    *)
(***************************************************************************)
LEMMA LeftOutRounds ==
    ASSUME TypeOK, NEW s \in Streams, SyncInv(s), RoundsInv(s), NEW p \in Paths,
           RoundValue(s, p), LeftOut(s)
    PROVE  RoundsInv(s)'
<1>1. /\ run'[s] = run[s] /\ rnd'[s] = rnd[s] /\ pend'[s] = pend[s] /\ q'[s] = q[s]
      /\ clock'[s] = clock[s] /\ wrk'[s] = wrk[s]
  BY DEF RoundValue, TypeOK
<1>2. Feeding(s)
  BY <1>1, Numbers DEF RoundValue, Feeding, mainVars, histVars
<1>3. Timely(s)'
  BY <1>1, <1>2 DEF RoundsInv, Timely, Younger, Feeding
<1>4. mode[s] = "STREAM" => Single(s)'
  BY <1>1, <1>2 DEF RoundsInv, Single, Unsynced, Feeding
<1>5. \A r : SyncDue(s, r) => SyncDue(s, r)'
  BY <1>2 DEF SyncDue, Feeding
<1>6. mode[s] # "STREAM" => Numbered(s)'
  BY <1>1, <1>2, <1>5 DEF RoundsInv, Numbered, Serving, Feeding
<1>. QED  BY <1>2, <1>3, <1>4, <1>6 DEF RoundsInv, Feeding

(***************************************************************************)
(* The sync message of a round is the last of the round.                   *)
(***************************************************************************)
LEMMA PollSyncRounds ==
    ASSUME TypeOK, NEW s \in Streams, SyncInv(s), RoundsInv(s), PollSync(s) \/ OnceSync(s)
    PROVE  RoundsInv(s)'
<1> DEFINE i == Stamped(s, Run, "sync")
<1>1. /\ run[s] = "round" /\ rnd'[s] = rnd[s] /\ run'[s] \in {"poll", "exit"}
      /\ mode[s] = "ONCE" => run'[s] = "exit"
      /\ pend'[s] = pend[s] /\ clock'[s] = clock[s] + 1 /\ wrk'[s] = wrk[s]
  BY DEF PollSync, OnceSync, Tick, TypeOK
<1>2. IF disposed[s] THEN q'[s] = q[s] ELSE q'[s] = q[s] \cup {i}
  BY DEF PollSync, OnceSync, Put, TypeOK
<1>3. i.kind = "sync" /\ i.src = Run /\ i.rnd = rnd[s] /\ i.ts = clock[s] + 1
  BY DEF Stamped
<1> HIDE DEF i
<1>4. Feeding(s)
  BY <1>1, <1>2, Numbers DEF PollSync, OnceSync, Feeding, mainVars, histVars
<1>5. /\ \A j \in q[s] : j.ts \in Nat /\ j.ts <= clock[s] /\ j.rnd \in Nat
      /\ rpc[s] = "send" => item[s].ts <= clock[s]
      /\ clock[s] \in Nat /\ item[s].ts \in Nat /\ rnd[s] \in Nat /\ syncs[s] \in Nat
      /\ item[s].rnd \in Nat
      /\ \A x \in Paths : pend[s][x].ts \in Nat
  BY Numbers, RoutinesFacts DEF SyncInv, Ordered, RoundsInv, Timely
<1>6. mode[s] # "STREAM" /\ mode'[s] # "STREAM" /\ Numbered(s)
  BY <1>1, <1>4, ModeFacts DEF Feeding, RoundsInv
<1>7. Timely(s)'
  <2>1. \A j \in q'[s] : j.kind = "data" => j \in q[s]
    BY <1>2, <1>3
  <2>2. \A j \in q'[s] : j.kind = "sync" => j.src = Run
    BY <1>2, <1>3 DEF RoundsInv, Timely
  <2>. QED  BY <1>1, <1>4, <1>5, <2>1, <2>2 DEF RoundsInv, Timely, Younger, Feeding
<1>8. Numbered(s)'
  <2>1. ASSUME NEW j \in q'[s] PROVE j.rnd > syncs[s] /\ j.kind # "fatal"
    BY <1>1, <1>2, <1>3, <1>5, <1>6 DEF Numbered
  <2>2. ASSUME NEW j \in q'[s], NEW k \in q'[s], j.kind = "sync", k.rnd = j.rnd, k # j
        PROVE  k.ts < j.ts
    <3>1. CASE j \in q[s] /\ k \in q[s]
      BY <1>6, <2>2, <3>1 DEF Numbered
    <3>2. CASE j = i /\ k \in q[s]
      BY <1>3, <1>5, <3>2
    <3>3. CASE k = i /\ j \in q[s]
      BY <1>1, <1>3, <1>5, <1>6, <2>2, <3>3 DEF Numbered
    <3>. QED  BY <1>2, <2>2, <3>1, <3>2, <3>3
  <2>3. rpc[s] = "send" /\ item[s].kind = "sync" => \A j \in q'[s] : j.rnd > item[s].rnd
    BY <1>1, <1>2, <1>3, <1>5, <1>6 DEF Numbered
  <2>4. ASSUME Serving(s), ~disposed[s], NEW r \in 1..rnd[s], syncs[s] < r
        PROVE  SyncDue(s, r)'
    <3>1. CASE r = rnd[s]
      BY <1>2, <1>3, <2>4, <3>1 DEF SyncDue
    <3>2. CASE r < rnd[s]
      <4>1. SyncDue(s, r)
        BY <1>6, <2>4, <3>2 DEF Numbered
      <4>. QED  BY <1>4, <4>1 DEF SyncDue, Feeding
    <3>. QED  BY <1>5, <2>4, <3>1, <3>2
  <2>5. \A r \in 1..rnd[s] : Serving(s) /\ ~disposed[s] /\ syncs[s] < r => SyncDue(s, r)'
    BY <2>4
  <2>. QED  BY <1>1, <1>4, <1>6, <2>1, <2>2, <2>3, <2>5 DEF Numbered, Serving, Feeding
<1>. QED  BY <1>6, <1>7, <1>8 DEF RoundsInv

(***************************************************************************)
(* A token begins the next round.                                          *)
(***************************************************************************)
LEMMA PollRoundRounds ==
    ASSUME TypeOK, NEW s \in Streams, SyncInv(s), RoundsInv(s), PollRound(s)
    PROVE  RoundsInv(s)'
<1>1. /\ run[s] \in {"poll", "once"} /\ run'[s] = "round" /\ rnd'[s] = rnd[s] + 1
      /\ pend'[s] = pend[s] /\ clock'[s] = clock[s] /\ q'[s] = q[s] /\ wrk'[s] = wrk[s]
  BY DEF PollRound, AwaitsToken, TypeOK, closeVars
<1>2. Feeding(s)
  BY <1>1, Numbers DEF PollRound, Feeding, mainVars, closeVars, histVars
<1>3. mode[s] # "STREAM" /\ mode'[s] # "STREAM" /\ Numbered(s)
  BY <1>1, <1>2, ModeFacts DEF Feeding, RoundsInv
<1>4. Timely(s)'
  BY <1>1, <1>2 DEF RoundsInv, Timely, Younger, Feeding
<1>5. /\ \A j \in q[s] : j.rnd \in Nat /\ j.rnd <= rnd[s]
      /\ rnd[s] \in Nat /\ syncs[s] \in Nat /\ item[s].rnd \in Nat
      /\ rpc[s] = "send" => item[s].rnd <= rnd[s]
  BY Numbers DEF SyncInv, Ordered
<1>6. ASSUME Serving(s), ~disposed[s], NEW r \in 1..rnd'[s], syncs[s] < r, r < rnd'[s]
      PROVE  SyncDue(s, r)'
  <2>1. r \in 1..rnd[s]
    BY <1>1, <1>5, <1>6
  <2>2. r < rnd[s] \/ run[s] = "poll"
    BY <1>1, <1>3, <2>1 DEF Numbered
  <2>3. SyncDue(s, r)
    BY <1>3, <1>6, <2>1, <2>2 DEF Numbered
  <2>. QED  BY <1>1, <1>2, <2>3 DEF SyncDue, Feeding
<1>7. \A r \in 1..rnd'[s] : Serving(s) /\ ~disposed[s] /\ syncs[s] < r /\ r < rnd'[s]
                               => SyncDue(s, r)'
  BY <1>6
<1>8. mode[s] = "ONCE" => rnd[s] = 0
  BY <1>1, <1>3 DEF Numbered
<1>9. Numbered(s)'
  BY <1>1, <1>2, <1>3, <1>5, <1>7, <1>8 DEF Numbered, Serving, Feeding
<1>. QED  BY <1>3, <1>4, <1>9 DEF RoundsInv

-----------------------------------------------------------------------------
(* Main's steps that are not quiet *)

(***************************************************************************)
(* Before a session starts it has stamped and queued nothing.              *)
(***************************************************************************)
LEMMA QueryRounds ==
    ASSUME TypeOK, NEW s \in Streams, SyncInv(s), RoundsInv(s), RunQuery(s)
    PROVE  RoundsInv(s)'
<1>1. /\ rpc[s] = "init" /\ rpc'[s] = "made"
      /\ q'[s] = q[s] /\ run'[s] = run[s] /\ rnd'[s] = rnd[s] /\ wrk'[s] = wrk[s]
      /\ pend'[s] = pend[s] /\ clock'[s] = clock[s] /\ syncs'[s] = syncs[s]
  BY DEF RunQuery, TypeOK, dataVars, histVars
<1>2. run[s] = "off" /\ q[s] = {} /\ syncs[s] = 0 /\ rnd[s] = 0
  BY <1>1 DEF SyncInv, Routed, Unstarted
<1>3. Timely(s)'
  BY <1>1, <1>2 DEF RoundsInv, Timely, Younger
<1>4. Single(s)'
  BY <1>1, <1>2 DEF Single, Unsynced
<1>5. Numbered(s)'
  BY <1>1, <1>2 DEF Numbered, Serving
<1>. QED  BY <1>3, <1>4, <1>5 DEF RoundsInv

(***************************************************************************)
(* The routine of a session starts: nothing has been queued or sent.       *)
(***************************************************************************)
LEMMA StartRounds ==
    ASSUME TypeOK, NEW s \in Streams, SyncInv(s), RoundsInv(s), RunStart(s)
    PROVE  RoundsInv(s)'
<1>1. /\ rpc[s] = "made" /\ rpc'[s] = "get" /\ mode'[s] = mode[s]
      /\ q'[s] = q[s] /\ rnd'[s] = IF mode[s] = "STREAM" THEN 1 ELSE 0
      /\ wrk'[s] = wrk[s] /\ pend'[s] = pend[s] /\ clock'[s] = clock[s]
      /\ syncs'[s] = syncs[s]
  BY DEF RunStart, TypeOK, histVars
<1>2. /\ mode[s] = "STREAM" => run'[s] \in {"spawn", "validate"}
      /\ mode[s] = "POLL" => run'[s] = "poll"
      /\ mode[s] = "ONCE" => run'[s] = "once"
      /\ mode[s] \in {"STREAM", "POLL", "ONCE"}
  BY DEF RunStart, TypeOK
<1>3. /\ run[s] = "off" /\ q[s] = {} /\ rnd[s] = 0 /\ syncs[s] = 0
      /\ \A p \in Paths : wrk[s][p] = "off"
  BY <1>1 DEF SyncInv, Routed, Unstarted
<1>4. Timely(s)'
  BY <1>1, <1>3 DEF RoundsInv, Timely, Younger
<1>5. Single(s)'
  BY <1>1, <1>3 DEF Single, Unsynced
<1>6. mode[s] # "STREAM" => Numbered(s)'
  BY <1>1, <1>2, <1>3 DEF Numbered, Serving
<1>. QED  BY <1>1, <1>4, <1>5, <1>6 DEF RoundsInv

(***************************************************************************)
(* The oldest value of the queue is of the round after the last one closed *)
(* and, if it is a sync message, the last of it.                           *)
(***************************************************************************)
LEMMA GetRounds ==
    ASSUME TypeOK, NEW s \in Streams, SyncInv(s), RoundsInv(s), Get(s)
    PROVE  RoundsInv(s)'
<1>1. PICK i \in Oldest(s) :
         /\ q' = [q EXCEPT ![s] = @ \ {i}]
         /\ item' = [item EXCEPT ![s] = i]
         /\ rpc' = [rpc EXCEPT ![s] = IF i.kind = "fatal" THEN "close" ELSE "send"]
  BY DEF Get
<1>2. i \in q[s] /\ \A j \in q[s] : i.ts <= j.ts
  BY DEF Oldest
<1>3. /\ q'[s] = q[s] \ {i} /\ item'[s] = i
      /\ rpc'[s] = IF i.kind = "fatal" THEN "close" ELSE "send"
  BY <1>1 DEF TypeOK
<1>4. /\ rpc[s] = "get" /\ ~disposed[s] /\ mode'[s] = mode[s]
      /\ disposed'[s] = disposed[s]
      /\ run'[s] = run[s] /\ rnd'[s] = rnd[s] /\ wrk'[s] = wrk[s] /\ pend'[s] = pend[s]
      /\ clock'[s] = clock[s] /\ syncs'[s] = syncs[s]
  BY DEF Get, dataVars, histVars
<1>5. /\ \A j \in q[s] : j.ts \in Nat /\ j.rnd \in Nat
      /\ i.ts <= clock[s] /\ i.rnd <= rnd[s]
      /\ \A j \in q[s] : i.ts <= j.ts => i.rnd <= j.rnd
      /\ mode[s] = "STREAM" => i.rnd = 1
      /\ i.kind = "data" => i.src \in Paths
      /\ rnd[s] \in Nat /\ syncs[s] \in Nat
      /\ \A j \in q[s] : \A k \in q[s] : j.ts <= k.ts => j.rnd <= k.rnd
  BY <1>2, Numbers DEF SyncInv, Ordered
<1>6. Timely(s)'
  <2>1. ASSUME NEW j \in q'[s], j.kind = "data", j.src = i.src, i.kind # "fatal"
        PROVE  i.ts < j.ts
    <3>1. i.ts <= j.ts /\ j \in q[s] /\ j # i /\ j.src \in Paths
      BY <1>2, <1>3, <2>1 DEF SyncInv, Ordered
    <3>2. CASE i.kind = "data"
      BY <1>2, <1>5, <2>1, <3>1, <3>2 DEF RoundsInv, Timely
    <3>3. CASE i.kind # "data"
      BY <1>2, <2>1, <3>1, <3>3, Numbers, RoutinesFacts DEF RoundsInv, Timely
    <3>. QED  BY <3>2, <3>3
  <2>2. ASSUME NEW p \in Paths, pend[s][p].kind = "data", p = i.src, i.kind # "fatal"
        PROVE  i.ts < pend[s][p].ts
    BY <1>2, <2>2, Numbers, RoutinesFacts DEF RoundsInv, Timely, Younger
  <2>. QED  BY <1>3, <1>4, <1>5, <2>1, <2>2 DEF RoundsInv, Timely, Younger
<1>7. mode[s] = "STREAM" => Single(s)'
  BY <1>2, <1>3, <1>4, <1>5 DEF RoundsInv, Single, Unsynced
<1>8. ASSUME mode[s] # "STREAM" PROVE Numbered(s)'
  <2>1. Numbered(s)
    BY <1>8 DEF RoundsInv
  <2>2. rpc'[s] = "send" /\ i.rnd > syncs[s]
    BY <1>2, <1>3, <2>1 DEF Numbered
  <2>3. i.rnd = syncs[s] + 1
    <3>1. SUFFICES ASSUME i.rnd > syncs[s] + 1 PROVE FALSE
      BY <1>2, <1>5, <2>2
    <3>2. SyncDue(s, syncs[s] + 1)
      <4>1. syncs[s] + 1 \in 1..rnd[s] /\ syncs[s] + 1 < rnd[s]
        BY <1>2, <1>5, <3>1
      <4>2. Serving(s) /\ ~disposed[s] /\ syncs[s] < syncs[s] + 1
        BY <1>4, <1>5 DEF Serving
      <4>. QED  BY <2>1, <4>1, <4>2 DEF Numbered
    <3>3. PICK k \in q[s] : k.rnd = syncs[s] + 1
      BY <1>4, <3>2 DEF SyncDue
    <3>. QED  BY <1>2, <1>5, <3>1, <3>3
  <2>4. i.kind = "sync" => /\ \A j \in q'[s] : j.rnd > i.rnd
                           /\ run[s] = "round" => i.rnd < rnd[s]
    <3>1. ASSUME i.kind = "sync", NEW j \in q'[s] PROVE j.rnd > i.rnd
      <4>1. j \in q[s] /\ j # i /\ i.ts <= j.ts /\ i.rnd <= j.rnd
        BY <1>2, <1>3, <1>5
      <4>2. j.rnd # i.rnd
        BY <1>2, <1>5, <2>1, <3>1, <4>1 DEF Numbered
      <4>. QED  BY <1>2, <1>5, <4>1, <4>2
    <3>. QED  BY <1>2, <2>1, <3>1 DEF Numbered
  <2>5. \A r : SyncDue(s, r) => SyncDue(s, r)'
    BY <1>3, <1>4, <2>2 DEF SyncDue
  <2>. QED  BY <1>3, <1>4, <2>1, <2>2, <2>3, <2>4, <2>5 DEF Numbered, Serving
<1>. QED  BY <1>4, <1>6, <1>7, <1>8 DEF RoundsInv

(***************************************************************************)
(* Sending a sync message closes its round.                                *)
(***************************************************************************)
LEMMA SendRounds ==
    ASSUME TypeOK, NEW s \in Streams, SyncInv(s), RoundsInv(s), Send(s)
    PROVE  RoundsInv(s)'
<1>1. /\ rpc[s] = "send" /\ rpc'[s] = "get" /\ item'[s] = item[s] /\ mode'[s] = mode[s]
      /\ disposed'[s] = disposed[s] /\ q'[s] = q[s]
      /\ run'[s] = run[s] /\ rnd'[s] = rnd[s]
      /\ wrk'[s] = wrk[s] /\ pend'[s] = pend[s] /\ clock'[s] = clock[s]
  BY DEF Send, TypeOK, closeVars, dataVars
<1>2. syncs'[s] = IF item[s].kind = "sync" THEN item[s].rnd ELSE syncs[s]
  BY DEF Send, TypeOK
<1>3. /\ \A j \in q[s] : j.rnd \in Nat
      /\ rnd[s] \in Nat /\ syncs[s] \in Nat /\ item[s].rnd \in Nat /\ item[s].rnd <= rnd[s]
  BY <1>1, Numbers DEF SyncInv, Ordered
<1>4. Timely(s)'
  BY <1>1 DEF RoundsInv, Timely, Younger
<1>5. mode[s] = "STREAM" => Single(s)'
  BY <1>1, <1>2, <1>3 DEF RoundsInv, Single, Unsynced
<1>6. ASSUME mode[s] # "STREAM" PROVE Numbered(s)'
  <2>1. Numbered(s)
    BY <1>6 DEF RoundsInv
  <2>2. /\ syncs'[s] <= rnd[s] /\ syncs[s] <= syncs'[s]
        /\ run[s] = "round" => syncs'[s] < rnd[s]
        /\ \A j \in q[s] : j.rnd > syncs'[s]
    BY <1>1, <1>2, <1>3, <2>1 DEF Numbered
  <2>3. ASSUME Serving(s), ~disposed[s], NEW r \in 1..rnd[s], syncs'[s] < r,
               r < rnd[s] \/ run[s] = "poll"
        PROVE  SyncDue(s, r)'
    <3>1. syncs[s] < r /\ syncs'[s] \in Nat
      BY <1>2, <1>3, <2>2, <2>3
    <3>2. SyncDue(s, r)
      BY <2>1, <2>3, <3>1 DEF Numbered
    <3>3. ~(item[s].kind = "sync" /\ item[s].rnd = r)
      BY <1>2, <1>3, <2>3
    <3>. QED  BY <1>1, <3>2, <3>3 DEF SyncDue
  <2>4. Serving(s)
    BY <1>1 DEF Serving
  <2>5. \A r \in 1..rnd[s] : ~disposed[s] /\ syncs'[s] < r
            /\ (r < rnd[s] \/ run[s] = "poll") => SyncDue(s, r)'
    BY <2>3, <2>4
  <2>. QED  BY <1>1, <2>1, <2>2, <2>5 DEF Numbered
<1>. QED  BY <1>1, <1>4, <1>5, <1>6 DEF RoundsInv

-----------------------------------------------------------------------------
(* The order of a path's values *)

AllRounds == \A s \in Streams : RoundsInv(s)

(***************************************************************************)
(* Every step keeps the invariant of every session.                        *)
(***************************************************************************)
LEMMA RoundsNext == TypeOK /\ SyncsInv /\ AllRounds /\ [Next]_vars => AllRounds'
<1> SUFFICES ASSUME TypeOK, SyncsInv, AllRounds, [Next]_vars, NEW t \in Streams
             PROVE  RoundsInv(t)'
  BY DEF AllRounds
<1>1. SyncInv(t) /\ RoundsInv(t)
  BY DEF SyncsInv, AllRounds
<1>2. CASE Quiet(t)
  BY <1>1, <1>2, QuietRounds
<1>3. CASE UNCHANGED vars
  BY <1>2, <1>3 DEF Quiet, Unstarted, vars
<1>4. ASSUME NEW s \in Streams, Main(s) PROVE RoundsInv(t)'
  <2>1. CASE t = s
    BY <1>1, <1>2, <1>4, <2>1, MainQuiet, QueryRounds, StartRounds, GetRounds, SendRounds
    DEF Main
  <2>2. CASE t # s
    BY <1>2, <1>4, <2>2, MainQuiet, OthersQuiet DEF Main
  <2>. QED  BY <2>1, <2>2
<1>5. ASSUME NEW s \in Streams, Recv(s) \/ Client(s) PROVE RoundsInv(t)'
  BY <1>2, <1>5, RecvClientQuiet
<1>6. ASSUME NEW s \in Streams, Data(s) PROVE RoundsInv(t)'
  <2>1. CASE t = s
    BY <1>1, <1>2, <1>6, <2>1, EndQuiet, StreamStampRounds, StreamPutRounds,
       ValidatedRounds, PollRoundRounds, PollSyncRounds, SpawnRounds, RoundValueRounds,
       LeftOutRounds
    DEF Data
  <2>2. CASE t # s
    BY <1>2, <1>6, <2>2, EndQuiet, OthersQuiet DEF Data
  <2>. QED  BY <2>1, <2>2
<1>7. ASSUME NEW s \in Streams, NEW p \in Paths, Path(s, p) PROVE RoundsInv(t)'
  <2>1. CASE t = s
    BY <1>1, <1>2, <1>7, <2>1, EndQuiet, PathStampRounds, PathPutRounds DEF Path
  <2>2. CASE t # s
    BY <1>2, <1>7, <2>2, EndQuiet, OthersQuiet DEF Path
  <2>. QED  BY <2>1, <2>2
<1>. QED  BY <1>3, <1>4, <1>5, <1>6, <1>7 DEF Next

(***************************************************************************)
(* The invariant holds of every session in every reachable state.          *)
(***************************************************************************)
LEMMA RoundsKept == Spec => []AllRounds
<1>1. Init => AllRounds
  <2> SUFFICES ASSUME Init, NEW s \in Streams PROVE RoundsInv(s)
    BY DEF AllRounds
  <2>1. /\ rpc[s] = "idle" /\ mode[s] = "STREAM" /\ q[s] = {} /\ run[s] = "off"
        /\ syncs[s] = 0
        /\ \A r \in Routines : pend[s][r] = NoItem
    BY DEF Init
  <2>2. Timely(s)
    BY <2>1, RoutinesFacts DEF Timely, Younger, NoItem
  <2>3. Single(s)
    BY <2>1 DEF Single, Unsynced
  <2>. QED  BY <2>1, <2>2, <2>3 DEF RoundsInv
<1>. QED  BY <1>1, RoundsNext, TypeCorrect, SyncsKept, PTL DEF Spec

(***************************************************************************)
(* While send holds a value of a path, no older value of that path is in   *)
(* the queue or on its way to it: whichever of the goroutines of the paths *)
(* and of StreamRun, PollRun or OnceRun stamps and puts values.            *)
(***************************************************************************)
THEOREM ValuesInOrder == Spec => []PathInOrder
<1>1. SyncsInv /\ AllRounds => PathInOrder
  <2> SUFFICES ASSUME SyncsInv, AllRounds, NEW s \in Streams, NEW r \in Routines,
                      rpc[s] = "send", NEW j \in q[s] \cup {pend[s][r]},
                      j.kind = "data", j.src = item[s].src
               PROVE  item[s].ts < j.ts
    BY DEF PathInOrder
  <2>1. Timely(s)
    BY DEF AllRounds, RoundsInv
  <2>2. CASE j \in q[s]
    BY <2>1, <2>2 DEF Timely
  <2>3. CASE j = pend[s][r]
    <3>1. r \in Paths
      BY <2>1, <2>3 DEF Timely, Routines
    <3>. QED  BY <2>1, <2>3, <3>1 DEF Timely
  <2>. QED  BY <2>2, <2>3
<1>. QED  BY <1>1, SyncsKept, RoundsKept, PTL

-----------------------------------------------------------------------------
(* A session implements ResponseRounds *)

(***************************************************************************)
(* A step that the client sees nothing of.                                 *)
(***************************************************************************)
Silent == /\ UNCHANGED <<mode, kind, got, syncs>>
          /\ \A t \in Streams : Phase(t)' = Phase(t)

(***************************************************************************)
(* Most steps are silent; send returns, or Run does before it.             *)
(***************************************************************************)
LEMMA MainPhases ==
    ASSUME TypeOK, NEW s \in Streams, Main(s)
    PROVE  \/ Silent \/ RunQuery(s) \/ Send(s)
           \/ /\ UNCHANGED <<mode, kind, got, syncs>>
              /\ Phase(s) # "over" /\ Phase(s)' = "over"
              /\ \A t \in Streams : t # s => Phase(t)' = Phase(t)
<1> USE DEF TypeOK, Silent, Phase, histVars
<1>1. CASE Subscribe(s) \/ RunStart(s) \/ RunClose(s) \/ RunWait(s) \/ Unregister(s)
  <2>1. UNCHANGED <<mode, kind, got, syncs>>
    BY <1>1 DEF Subscribe, RunStart, RunClose, RunWait, Unregister
  <2>2. \A t \in Streams : Phase(t)' = Phase(t)
    BY <1>1 DEF Subscribe, RunStart, RunClose, RunWait, Unregister
  <2>. QED  BY <2>1, <2>2
<1>2. CASE RunAborted(s) \/ RunRefused(s)
  BY <1>2 DEF RunAborted, RunRefused
<1>3. CASE GetDisposed(s) \/ SendError(s)
  BY <1>3 DEF GetDisposed, SendError
<1>4. CASE Get(s)
  BY <1>4 DEF Get
<1>. QED  BY <1>1, <1>2, <1>3, <1>4 DEF Main

(***************************************************************************)
(* recv, the client and the data goroutines change nothing the client sees.*)
(***************************************************************************)
LEMMA OthersSilent ==
    ASSUME TypeOK, NEW s \in Streams,
           Recv(s) \/ Client(s) \/ Data(s) \/ \E p \in Paths : Path(s, p)
    PROVE  Silent
<1> USE DEF Silent, Phase, mainVars, histVars
<1>1. CASE Recv(s)
  BY <1>1 DEF Recv, RecvPoll, RecvPush, RecvEnd, RecvEOF, RecvClose
<1>2. CASE Client(s)
  BY <1>2 DEF Client, ClientPoll, ClientEOF, Disconnect
<1>3. CASE Data(s)
  <2>1. UNCHANGED <<mode, kind, got, syncs, rpc>>
    BY <1>3 DEF Data, StreamUnsupported, StreamSync, StreamPut, StreamStop, SampleValidated,
                SampleSync, PollRound, PollStop, PollReadError, PollSync, OnceSync, OnceRun,
                StreamSpawn, RoundValue
  <2>. QED  BY <2>1
<1>4. CASE \E p \in Paths : Path(s, p)
  BY <1>4 DEF Path, PathFirst, PathUpdate, PathPut, PathStop
<1>. QED  BY <1>1, <1>2, <1>3, <1>4

(***************************************************************************)
(* What send sends is of the round that is open, and a sync message closes *)
(* a round of which every path has had its value.                          *)
(***************************************************************************)
LEMMA SendIsRound ==
    ASSUME TypeOK, NEW s \in Streams, SyncInv(s), RoundsInv(s), Send(s)
    PROVE  LET R == IF mode[s] = "STREAM" THEN 1 ELSE syncs[s] + 1
           IN  \/ /\ item[s].src \in Paths /\ (mode[s] = "ONCE" => syncs[s] = 0)
                  /\ got' = [got EXCEPT ![s][item[s].src] = R] /\ UNCHANGED syncs
               \/ /\ mode[s] # "POLL" => syncs[s] = 0
                  /\ (kind[s] = "updates" /\ syncs[s] = 0) \/ \A p \in Paths : got[s][p] = R
                  /\ syncs' = [syncs EXCEPT ![s] = @ + 1] /\ UNCHANGED got
<1> DEFINE R == IF mode[s] = "STREAM" THEN 1 ELSE syncs[s] + 1
<1>1. /\ rpc[s] = "send" /\ item[s].kind \in {"data", "sync"}
      /\ item[s].kind = "data" => item[s].src \in Paths
      /\ item[s].rnd <= rnd[s] /\ \A p \in Paths : got[s][p] <= item[s].rnd
  BY DEF Send, SyncInv, Ordered
<1>2. /\ item[s].rnd \in Nat /\ rnd[s] \in Nat /\ syncs[s] \in Nat
      /\ \A p \in Paths : got[s][p] \in Nat
      /\ mode[s] \in {"STREAM", "POLL", "ONCE"}
  BY Numbers DEF TypeOK
<1>3. item[s].rnd = R
  BY <1>1 DEF RoundsInv, Single, Numbered
<1>4. mode[s] = "ONCE" => syncs[s] = 0
  BY <1>1, <1>2, <1>3 DEF RoundsInv, Numbered
<1>5. CASE item[s].kind = "data"
  <2>1. got' = [got EXCEPT ![s][item[s].src] = item[s].rnd] /\ UNCHANGED syncs
    BY <1>5 DEF Send
  <2>. QED  BY <1>1, <1>3, <1>4, <1>5, <2>1
<1>6. CASE item[s].kind = "sync"
  <2>1. syncs' = [syncs EXCEPT ![s] = item[s].rnd] /\ UNCHANGED got
    BY <1>6 DEF Send
  <2>2. mode[s] = "STREAM" => syncs[s] = 0
    BY <1>1, <1>6 DEF RoundsInv, Single
  <2>3. item[s].rnd = syncs[s] + 1
    BY <1>3, <2>2
  <2>4. (kind[s] = "updates" /\ syncs[s] = 0) \/ \A p \in Paths : got[s][p] = R
    <3>1. Vouches(s, item[s].rnd) => \A p \in Paths : got[s][p] >= item[s].rnd
      BY <1>1, <1>6 DEF SyncInv, Covered
    <3>. QED  BY <1>1, <1>2, <1>3, <2>3, <3>1 DEF Vouches
  <2>. QED  BY <1>2, <1>4, <2>1, <2>2, <2>3, <2>4
<1>. QED  BY <1>1, <1>5, <1>6

(***************************************************************************)
(* Every session, with its goroutines, its queue and the Close of another  *)
(* call, implements ResponseRounds: a step is a response, the beginning or *)
(* the end of a call, or one that its client sees nothing of.              *)
(***************************************************************************)
THEOREM SessionImplements == Spec => AnswersInRounds
<1> DEFINE P == [s \in Streams |-> Phase(s)]
           X == [s \in Streams |-> kind[s] = "updates"]
<1>1. Init => Responses!Init
  <2> SUFFICES ASSUME Init PROVE Responses!Init
    OBVIOUS
  <2>1. P = [s \in Streams |-> "new"]
    BY DEF Init, Phase
  <2>2. mode \in [Streams -> Responses!Modes]
    BY DEF Init, Responses!Modes
  <2>3. X \in [Streams -> BOOLEAN]
    OBVIOUS
  <2>. QED  BY <2>1, <2>2, <2>3, Zenon DEF Init, Responses!Init
<1>2. TypeOK /\ SyncsInv /\ AllRounds /\ [Next]_vars
          => [Responses!Next]_(Responses!vars)
  <2> SUFFICES ASSUME TypeOK, SyncsInv, AllRounds, [Next]_vars
               PROVE  Responses!Next \/ UNCHANGED Responses!vars
    OBVIOUS
  <2>1. CASE Silent
    <3>1. P' = P /\ X' = X
      BY <2>1 DEF Silent
    <3>. QED  BY <2>1, <3>1 DEF Silent, Responses!vars
  <2>2. ASSUME NEW s \in Streams, RunQuery(s) PROVE Responses!Next
    <3>1. PICK x \in Queries[s] : /\ mode' = [mode EXCEPT ![s] = x.mode]
                                  /\ kind' = [kind EXCEPT ![s] = x.kind]
      BY <2>2 DEF RunQuery
    <3>2. x.mode \in Responses!Modes
      BY ConstantsAssumption DEF Responses!Modes
    <3>3. /\ P[s] = "new" /\ P' = [P EXCEPT ![s] = "open"]
      BY <2>2 DEF RunQuery, Phase, TypeOK
    <3>4. X' = [X EXCEPT ![s] = (x.kind = "updates")]
      BY <3>1 DEF TypeOK
    <3>5. UNCHANGED <<got, syncs>>
      BY <2>2 DEF RunQuery, histVars
    <3>6. Responses!Begin(s)
      BY <3>1, <3>2, <3>3, <3>4, <3>5, Zenon DEF Responses!Begin
    <3>. QED  BY <3>6 DEF Responses!Next
  <2>3. ASSUME NEW s \in Streams, Send(s) PROVE Responses!Next
    <3>1. UNCHANGED <<mode, kind>> /\ P' = P /\ X' = X /\ P[s] = "open"
      BY <2>3 DEF Send, Phase, TypeOK
    <3>2. SyncInv(s) /\ RoundsInv(s)
      BY DEF SyncsInv, AllRounds
    <3>3. Responses!Round(s) = IF mode[s] = "STREAM" THEN 1 ELSE syncs[s] + 1
      BY DEF Responses!Round
    <3>4. X[s] = (kind[s] = "updates")
      OBVIOUS
    <3>5. CASE /\ item[s].src \in Paths /\ (mode[s] = "ONCE" => syncs[s] = 0)
               /\ got' = [got EXCEPT ![s][item[s].src] = Responses!Round(s)]
               /\ UNCHANGED syncs
      <4>1. Responses!Value(s, item[s].src)
        BY <3>1, <3>5 DEF Responses!Value
      <4>. QED  BY <3>5, <4>1 DEF Responses!Next
    <3>6. CASE /\ mode[s] # "POLL" => syncs[s] = 0
               /\ \/ kind[s] = "updates" /\ syncs[s] = 0
                  \/ \A p \in Paths : got[s][p] = Responses!Round(s)
               /\ syncs' = [syncs EXCEPT ![s] = @ + 1] /\ UNCHANGED got
      <4>1. Responses!Sync(s)
        BY <3>1, <3>4, <3>6 DEF Responses!Sync
      <4>. QED  BY <4>1 DEF Responses!Next
    <3>. QED  BY <2>3, <3>2, <3>3, <3>5, <3>6, SendIsRound
  <2>4. ASSUME NEW s \in Streams, UNCHANGED <<mode, kind, got, syncs>>,
               Phase(s) # "over", Phase(s)' = "over",
               \A t \in Streams : t # s => Phase(t)' = Phase(t)
        PROVE  Responses!Next
    <3>1. P[s] # "over" /\ P' = [P EXCEPT ![s] = "over"] /\ X' = X
      BY <2>4
    <3>2. Responses!End(s)
      BY <2>4, <3>1 DEF Responses!End
    <3>. QED  BY <3>2 DEF Responses!Next
  <2>5. CASE UNCHANGED vars
    <3>1. Silent
      BY <2>5 DEF vars, Silent, Phase
    <3>. QED  BY <2>1, <3>1
  <2>6. CASE Next
    <3>1. PICK s \in Streams : \/ Main(s) \/ Recv(s) \/ Data(s) \/ Client(s)
                               \/ \E p \in Paths : Path(s, p)
      BY <2>6 DEF Next
    <3>2. CASE Main(s)
      BY <2>1, <2>2, <2>3, <2>4, <3>2, MainPhases
    <3>3. CASE ~Main(s)
      BY <2>1, <3>1, <3>3, OthersSilent
    <3>. QED  BY <3>2, <3>3
  <2>. QED  BY <2>5, <2>6
<1>. QED
  BY <1>1, <1>2, TypeCorrect, SyncsKept, RoundsKept, PTL
  DEF Spec, AnswersInRounds, Responses!Spec

-----------------------------------------------------------------------------
(* No goroutine panics *)

(***************************************************************************)
(* No other call comes from the address of session s.                      *)
(***************************************************************************)
Sole(s) == \A t \in Streams : AddrOf[t] = AddrOf[s] => t = s

(***************************************************************************)
(* A poll is a round begun, a token, a request that recv holds, or one     *)
(* under way; a client that does not poll ahead has at most one that is    *)
(* not closed, and while recv has yet to pass it on, send waits at an      *)
(* empty queue, so that nothing but recv itself will call Close.           *)
(***************************************************************************)
Held(s) == IF recv[s] = "push" THEN 1 ELSE 0

Waiting(s) == recv[s] = "push" \/ (recv[s] = "recv" /\ polls[s] > 0)

Asked(s) ==
    /\ Unstarted(s) => recv[s] = "off"
    /\ Unstarted(s) /\ Sole(s) => ~disposed[s]
    /\ rpc[s] = "made" /\ Sole(s) => chan[s] = "open"
    /\ run[s] = "off" => recv[s] = "off" /\ tok[s] = 0 /\ polls[s] = 0 /\ issued[s] = 0
    /\ mode[s] # "STREAM" => Sole(s) /\ rpc[s] \notin {"idle", "init"}
    /\ mode[s] # "POLL" => polls[s] = 0 /\ recv[s] # "push"
    /\ mode[s] = "POLL" /\ rpc[s] # "made" =>
          /\ run[s] # "off"
          /\ rnd[s] + tok[s] + polls[s] + Held(s) = issued[s] + 1
          /\ issued[s] <= syncs[s]
    /\ mode[s] = "POLL" /\ recv[s] \in {"recv", "push"} /\ conn[s] = "up" =>
          rpc[s] \in {"get", "send"} /\ ~disposed[s] /\ chan[s] = "open"
    /\ Waiting(s) => rpc[s] = "get" /\ ~disposed[s] /\ chan[s] = "open"

(***************************************************************************)
(* A step that has nothing to do with the polls of session t.              *)
(***************************************************************************)
Apart(t) ==
    /\ rpc'[t] = rpc[t] /\ mode'[t] = mode[t] /\ recv'[t] = recv[t] /\ tok'[t] = tok[t]
    /\ polls'[t] = polls[t] /\ issued'[t] = issued[t] /\ rnd'[t] = rnd[t]
    /\ syncs'[t] = syncs[t] /\ conn'[t] = conn[t]
    /\ run'[t] = "off" <=> run[t] = "off"
    /\ Sole(t) => chan'[t] = chan[t] /\ disposed'[t] = disposed[t]

(***************************************************************************)
(* Such a step keeps the accounts of t.                                    *)
(***************************************************************************)
LEMMA ApartAsked ==
    ASSUME NEW t \in Streams, Asked(t), Apart(t)
    PROVE  Asked(t)'
<1>1. Sole(t)' <=> Sole(t)
  BY DEF Sole
<1>2. mode[t] = "POLL" \/ Waiting(t) => Sole(t)
  BY DEF Asked, Waiting
<1>3. (Waiting(t)' <=> Waiting(t)) /\ Held(t)' = Held(t) /\ (Unstarted(t)' <=> Unstarted(t))
  BY DEF Apart, Waiting, Held, Unstarted
<1>. QED  BY <1>1, <1>2, <1>3 DEF Asked, Apart

(***************************************************************************)
(* The registry holds no client of a call that is alone at its address and *)
(* has yet to come.                                                        *)
(***************************************************************************)
LEMMA NotReplaced ==
    ASSUME TypeOK, RegistryLive, NEW s \in Streams, Subscribe(s), NEW t \in Streams, Sole(t)
    PROVE  chan'[t] = chan[t] /\ disposed'[t] = disposed[t]
<1> DEFINE c == clients[AddrOf[s]]
<1>1. CASE c = NoStream
  BY <1>1 DEF Subscribe, closeVars
<1>2. CASE c # NoStream
  <2>1. AddrOf[s] \in Addrs
    BY AddrFacts
  <2>2. c \in Streams /\ rpc[c] # "idle" /\ AddrOf[c] = AddrOf[s]
    BY <1>2, <2>1 DEF RegistryLive, TypeOK
  <2>3. c # t
    <3>1. SUFFICES ASSUME c = t PROVE FALSE
      OBVIOUS
    <3>2. s = t
      BY <2>2, <3>1 DEF Sole
    <3>. QED  BY <2>2, <3>1, <3>2 DEF Subscribe
  <2>4. Close(c)
    BY <1>2 DEF Subscribe
  <2> HIDE DEF c
  <2>. QED  BY <2>2, <2>3, <2>4 DEF Close, closeVars, TypeOK
<1>. QED  BY <1>1, <1>2

(***************************************************************************)
(* A step of session s is apart from every other one.                      *)
(***************************************************************************)
LEMMA OtherApart ==
    ASSUME TypeOK, RegistryLive, NEW s \in Streams, NEW t \in Streams, t # s,
           \/ Main(s) \/ Recv(s) \/ Client(s) \/ Data(s)
           \/ \E p \in Paths : Path(s, p)
    PROVE  Apart(t)
<1> USE DEF Apart, TypeOK, mainVars, closeVars, dataVars, envVars, histVars
<1>1. CASE Subscribe(s)
  BY <1>1, NotReplaced DEF Subscribe
<1>2. CASE RunClose(s)
  BY <1>2 DEF RunClose, Close
<1>3. CASE RecvClose(s)
  BY <1>3 DEF RecvClose, Close
<1>4. CASE Unregister(s) \/ RunAborted(s) \/ RunRefused(s) \/ RunWait(s)
  BY <1>4 DEF Unregister, RunAborted, RunRefused, RunWait
<1>5. CASE RunQuery(s) \/ RunStart(s)
  BY <1>5 DEF RunQuery, RunStart
<1>6. CASE Get(s) \/ GetDisposed(s) \/ SendError(s)
  BY <1>6 DEF Get, GetDisposed, SendError
<1>7. CASE Send(s)
  BY <1>7 DEF Send
<1>8. CASE RecvPoll(s) \/ RecvPush(s) \/ RecvEnd(s) \/ RecvEOF(s)
  BY <1>8 DEF RecvPoll, RecvPush, RecvEnd, RecvEOF
<1>9. CASE Client(s)
  BY <1>9 DEF Client, ClientPoll, ClientEOF, Disconnect
<1>10. CASE StreamUnsupported(s) \/ StreamSync(s) \/ StreamPut(s) \/ StreamStop(s)
  BY <1>10 DEF StreamUnsupported, StreamSync, StreamPut, StreamStop
<1>11. CASE SampleValidated(s) \/ SampleSync(s) \/ PollRound(s) \/ PollStop(s)
  BY <1>11 DEF SampleValidated, SampleSync, PollRound, PollStop
<1>12. CASE PollReadError(s) \/ PollSync(s) \/ OnceSync(s) \/ OnceRun(s)
  BY <1>12 DEF PollReadError, PollSync, OnceSync, OnceRun
<1>13. CASE \E p \in Paths : StreamSpawn(s, p) \/ RoundValue(s, p)
  BY <1>13 DEF StreamSpawn, RoundValue
<1>14. CASE \E p \in Paths : Path(s, p)
  BY <1>14 DEF Path, PathFirst, PathUpdate, PathPut, PathStop
<1>. QED  BY <1>1, <1>2, <1>3, <1>4, <1>5, <1>6, <1>7, <1>8, <1>9, <1>10, <1>11, <1>12,
             <1>13, <1>14
          DEF Main, Recv, Data

(***************************************************************************)
(* So is a step of its own routines, but for the beginning of a round.     *)
(***************************************************************************)
LEMMA RoutineApart ==
    ASSUME TypeOK, NEW s \in Streams, ~PollRound(s), SyncInv(s),
           Data(s) \/ \E p \in Paths : Path(s, p)
    PROVE  Apart(s)
<1> USE DEF Apart, TypeOK, mainVars, closeVars, envVars, histVars
<1>1. CASE StreamUnsupported(s) \/ StreamSync(s) \/ StreamPut(s) \/ StreamStop(s)
  BY <1>1 DEF StreamUnsupported, StreamSync, StreamPut, StreamStop
<1>2. CASE SampleValidated(s) \/ SampleSync(s) \/ PollStop(s)
  BY <1>2 DEF SampleValidated, SampleSync, PollStop, AwaitsToken
<1>3. CASE PollReadError(s) \/ PollSync(s) \/ OnceSync(s) \/ OnceRun(s)
  BY <1>3 DEF PollReadError, PollSync, OnceSync, OnceRun
<1>4. CASE \E p \in Paths : StreamSpawn(s, p) \/ RoundValue(s, p)
  BY <1>4 DEF StreamSpawn, RoundValue
<1>5. CASE \E p \in Paths : Path(s, p)
  BY <1>5 DEF Path, PathFirst, PathUpdate, PathPut, PathStop
<1>. QED  BY <1>1, <1>2, <1>3, <1>4, <1>5 DEF Data

(***************************************************************************)
(* When every poll but the one that has yet to become a token is closed,   *)
(* the session is at rest.                                                 *)
(***************************************************************************)
LEMMA AtRest ==
    ASSUME TypeOK, NEW s \in Streams, SyncInv(s), RoundsInv(s), mode[s] = "POLL",
           rnd[s] = syncs[s]
    PROVE  q[s] = {} /\ rpc[s] # "send"
<1>1. Numbered(s) /\ Ordered(s)
  BY DEF RoundsInv, SyncInv
<1>2. ASSUME NEW i \in q[s] PROVE FALSE
  <2>1. i.rnd \in Nat /\ i.rnd > syncs[s] /\ i.rnd <= rnd[s] /\ rnd[s] \in Nat
    BY <1>1, Numbers DEF Numbered, Ordered
  <2>. QED  BY <2>1
<1>3. rpc[s] # "send"
  <2>1. SUFFICES ASSUME rpc[s] = "send" PROVE FALSE
    OBVIOUS
  <2>2. item[s].rnd = syncs[s] + 1 /\ item[s].rnd <= rnd[s] /\ rnd[s] \in Nat
    BY <1>1, <2>1, Numbers DEF Numbered, Ordered
  <2>. QED  BY <2>2
<1>. QED  BY <1>2, <1>3

(***************************************************************************)
(* The numbers that a poll is counted in.                                  *)
(***************************************************************************)
LEMMA Counts ==
    ASSUME TypeOK, NEW s \in Streams
    PROVE  /\ rnd[s] \in Nat /\ tok[s] \in Nat /\ polls[s] \in Nat /\ issued[s] \in Nat
           /\ syncs[s] \in Nat /\ Held(s) \in Nat
<1>1. rnd[s] \in Nat /\ polls[s] \in Nat /\ issued[s] \in Nat /\ syncs[s] \in Nat
  BY DEF TypeOK
<1>2. tok[s] \in {0, 1}
  BY DEF TypeOK
<1>3. Held(s) \in {0, 1}
  BY DEF Held
<1>. QED  BY <1>1, <1>2, <1>3

(***************************************************************************)
(* A sum bounds each of its terms.                                         *)
(***************************************************************************)
LEMMA TotalBounds ==
    ASSUME NEW r \in Nat, NEW t \in Nat, NEW p \in Nat, NEW h \in Nat, NEW y \in Nat,
           r + t + p + h = y, y <= r
    PROVE  r = y /\ t = 0 /\ p = 0 /\ h = 0
  OBVIOUS

(***************************************************************************)
(* While recv has yet to pass a poll on, everything before it is answered. *)
(***************************************************************************)
LEMMA WaitingAtRest ==
    ASSUME TypeOK, NEW s \in Streams, SyncInv(s), RoundsInv(s), Asked(s), Waiting(s)
    PROVE  mode[s] = "POLL" /\ q[s] = {} /\ rpc[s] = "get" /\ tok[s] = 0
<1>1. mode[s] = "POLL" /\ rpc[s] = "get"
  BY DEF Asked, Waiting, TypeOK
<1>2. /\ rnd[s] + tok[s] + polls[s] + Held(s) = issued[s] + 1 /\ issued[s] <= syncs[s]
      /\ syncs[s] <= rnd[s]
  BY <1>1 DEF Asked, RoundsInv, Numbered
<1>3. /\ rnd[s] \in Nat /\ tok[s] \in Nat /\ polls[s] \in Nat /\ issued[s] \in Nat
      /\ syncs[s] \in Nat /\ Held(s) \in Nat
  BY Counts
<1>4. polls[s] + Held(s) > 0
  BY <1>3 DEF Waiting, Held
<1>5. rnd[s] = syncs[s] /\ tok[s] = 0
  BY <1>2, <1>3, <1>4
<1>. QED  BY <1>1, <1>5, AtRest

(***************************************************************************)
(* So it is when the client has the sync_response of its last poll.        *)
(***************************************************************************)
LEMMA ClosedAtRest ==
    ASSUME TypeOK, NEW s \in Streams, SyncInv(s), RoundsInv(s), Asked(s), mode[s] = "POLL",
           rpc[s] # "made", syncs[s] = issued[s] + 1
    PROVE  q[s] = {} /\ rpc[s] # "send"
<1>1. rnd[s] + tok[s] + polls[s] + Held(s) = syncs[s] /\ syncs[s] <= rnd[s]
  BY DEF Asked, RoundsInv, Numbered
<1>2. rnd[s] = syncs[s]
  BY <1>1, Counts, TotalBounds
<1>. QED  BY <1>2, AtRest

(***************************************************************************)
(* Main's steps.                                                           *)
(***************************************************************************)
LEMMA MainAsked ==
    ASSUME TypeOK, RegistryLive, NEW s \in Streams, SyncInv(s), RoundsInv(s), Asked(s),
           Main(s), \A x \in Queries[s] : x.mode # "STREAM" => Sole(s)
    PROVE  Asked(s)'
<1> USE DEF TypeOK, Unstarted, mainVars, closeVars, dataVars, envVars, histVars
<1>1. /\ Sole(s)' <=> Sole(s)
      /\ run[s] = "off" <=> (Unstarted(s) \/ (rpc[s] \in {"unreg", "done"} /\ run[s] = "off")
                             \/ (rpc[s] \in {"close", "wait"} /\ run[s] = "off"))
  BY DEF Sole, SyncInv, Routed, Serving
<1>2. CASE Subscribe(s)
  <2>1. Sole(s) => chan'[s] = chan[s] /\ disposed'[s] = disposed[s]
    BY <1>2, NotReplaced
  <2>2. /\ rpc[s] = "idle" /\ rpc'[s] = "init" /\ recv'[s] = recv[s] /\ tok'[s] = tok[s]
        /\ polls'[s] = polls[s] /\ issued'[s] = issued[s] /\ mode'[s] = mode[s]
        /\ run'[s] = run[s]
    BY <1>2 DEF Subscribe
  <2>. QED  BY <1>1, <2>1, <2>2 DEF Asked, Waiting
<1>3. CASE RunAborted(s) \/ RunRefused(s)
  <2>1. /\ rpc[s] = "init" /\ rpc'[s] = "unreg" /\ recv'[s] = recv[s] /\ tok'[s] = tok[s]
        /\ polls'[s] = polls[s] /\ issued'[s] = issued[s] /\ mode'[s] = mode[s]
        /\ run'[s] = run[s]
    BY <1>3 DEF RunAborted, RunRefused
  <2>. QED  BY <1>1, <2>1 DEF Asked, Waiting
<1>4. CASE RunQuery(s)
  <2>1. PICK x \in Queries[s] : mode' = [mode EXCEPT ![s] = x.mode]
    BY <1>4 DEF RunQuery
  <2>2. /\ rpc[s] = "init" /\ rpc'[s] = "made" /\ recv'[s] = recv[s] /\ tok'[s] = tok[s]
        /\ polls'[s] = polls[s] /\ issued'[s] = issued[s] /\ mode'[s] = x.mode
        /\ run'[s] = run[s] /\ chan'[s] = "open" /\ disposed'[s] = disposed[s]
    BY <1>4, <2>1 DEF RunQuery
  <2>3. run[s] = "off"
    BY <2>2 DEF SyncInv, Routed
  <2>. QED  BY <1>1, <2>2, <2>3 DEF Asked, Waiting
<1>5. CASE RunStart(s)
  <2>1. /\ rpc[s] = "made" /\ rpc'[s] = "get" /\ recv'[s] = "recv" /\ mode'[s] = mode[s]
        /\ polls'[s] = polls[s] /\ issued'[s] = issued[s] /\ syncs'[s] = syncs[s]
        /\ mode[s] # "STREAM" => tok'[s] = 1 /\ rnd'[s] = 0
        /\ run'[s] # "off" /\ chan'[s] = chan[s] /\ disposed'[s] = disposed[s]
    BY <1>5 DEF RunStart
  <2>2. run[s] = "off" /\ polls[s] = 0 /\ issued[s] = 0 /\ syncs[s] = 0
    BY <2>1 DEF Asked, SyncInv, Routed
  <2>3. Held(s)' = 0 /\ ~Waiting(s)' /\ (mode[s] # "STREAM" => Sole(s))
    BY <2>1, <2>2 DEF Held, Waiting, Asked
  <2>. QED  BY <1>1, <2>1, <2>2, <2>3 DEF Asked
<1>6. CASE Get(s) \/ GetDisposed(s) \/ Send(s) \/ SendError(s)
  <2>1. /\ recv'[s] = recv[s] /\ tok'[s] = tok[s] /\ polls'[s] = polls[s]
        /\ issued'[s] = issued[s] /\ mode'[s] = mode[s] /\ run'[s] = run[s]
        /\ rnd'[s] = rnd[s] /\ conn'[s] = conn[s] /\ chan'[s] = chan[s]
        /\ disposed'[s] = disposed[s]
        /\ rpc[s] \in {"get", "send"} /\ rpc'[s] \in {"get", "send", "close"}
    BY <1>6 DEF Get, GetDisposed, Send, SendError
  <2>2. mode[s] = "POLL" => issued[s] <= syncs'[s]
    <3>1. CASE Get(s) \/ GetDisposed(s) \/ SendError(s)
      BY <2>1, <3>1 DEF Asked, Get, GetDisposed, SendError
    <3>2. ASSUME Send(s), mode[s] = "POLL" PROVE issued[s] <= syncs'[s]
      <4>1. issued[s] <= syncs[s] /\ issued[s] \in Nat /\ syncs[s] \in Nat
        BY <2>1, <3>2 DEF Asked
      <4>2. syncs'[s] = syncs[s] \/ syncs'[s] = syncs[s] + 1
        BY <2>1, <3>2 DEF Send, RoundsInv, Numbered
      <4>. QED  BY <4>1, <4>2
    <3>. QED  BY <1>6, <3>1, <3>2
  <2>3. Waiting(s) => UNCHANGED rpc
    BY <1>6, WaitingAtRest DEF Asked, Get, Oldest, GetDisposed, Send, SendError
  <2>4. mode[s] = "POLL" /\ recv[s] \in {"recv", "push"} /\ conn[s] = "up" =>
            rpc'[s] \in {"get", "send"}
    <3>1. CASE Get(s)
      BY <3>1 DEF Get, Oldest, RoundsInv, Numbered
    <3>. QED  BY <1>6, <3>1 DEF Asked, GetDisposed, Send, SendError
  <2>5. (Waiting(s)' <=> Waiting(s)) /\ Held(s)' = Held(s)
    BY <2>1 DEF Waiting, Held
  <2>. QED  BY <1>1, <2>1, <2>2, <2>3, <2>4, <2>5 DEF Asked
<1>7. CASE RunClose(s) \/ RunWait(s) \/ Unregister(s)
  <2>1. /\ recv'[s] = recv[s] /\ tok'[s] = tok[s] /\ polls'[s] = polls[s]
        /\ issued'[s] = issued[s] /\ mode'[s] = mode[s] /\ run'[s] = run[s]
        /\ rnd'[s] = rnd[s] /\ conn'[s] = conn[s] /\ syncs'[s] = syncs[s]
        /\ rpc[s] \in {"close", "wait", "unreg"} /\ rpc'[s] \in {"wait", "unreg", "done"}
    BY <1>7 DEF RunClose, RunWait, Unregister
  <2>2. (Waiting(s)' <=> Waiting(s)) /\ Held(s)' = Held(s)
    BY <2>1 DEF Waiting, Held
  <2>. QED  BY <1>1, <2>1, <2>2 DEF Asked
<1>. QED  BY <1>2, <1>3, <1>4, <1>5, <1>6, <1>7 DEF Main

(***************************************************************************)
(* recv's steps, the client's, and the beginning of a round.               *)
(***************************************************************************)
LEMMA RecvAsked ==
    ASSUME TypeOK, NEW s \in Streams, SyncInv(s), RoundsInv(s), Asked(s), ~Pipelined,
           Recv(s) \/ Client(s) \/ PollRound(s)
    PROVE  Asked(s)'
<1> USE DEF TypeOK, Unstarted, mainVars, closeVars, dataVars, envVars, histVars
<1>1. /\ Sole(s)' <=> Sole(s)
      /\ rnd[s] \in Nat /\ tok[s] \in Nat /\ polls[s] \in Nat /\ issued[s] \in Nat
      /\ syncs[s] \in Nat /\ Held(s) \in Nat
  BY Counts DEF Sole
<1>2. CASE RecvPoll(s)
  <2>1. /\ recv[s] = "recv" /\ recv'[s] = "push" /\ polls[s] > 0 /\ polls'[s] = polls[s] - 1
        /\ rpc'[s] = rpc[s] /\ tok'[s] = tok[s] /\ issued'[s] = issued[s]
        /\ mode'[s] = mode[s] /\ run'[s] = run[s] /\ rnd'[s] = rnd[s] /\ conn'[s] = conn[s]
        /\ syncs'[s] = syncs[s] /\ chan'[s] = chan[s] /\ disposed'[s] = disposed[s]
    BY <1>2 DEF RecvPoll
  <2>2. Waiting(s) /\ Held(s) = 0 /\ Held(s)' = 1
    BY <2>1 DEF Waiting, Held
  <2>3. rpc[s] = "get" /\ mode[s] = "POLL"
    BY <2>2, WaitingAtRest
  <2>. QED  BY <1>1, <2>1, <2>2, <2>3 DEF Asked
<1>3. CASE RecvPush(s)
  <2>1. recv[s] = "push" /\ Waiting(s)
    BY <1>3 DEF RecvPush, Waiting
  <2>2. mode[s] = "POLL" /\ rpc[s] = "get" /\ ~disposed[s] /\ chan[s] = "open" /\ tok[s] = 0
    BY <2>1, WaitingAtRest DEF Asked
  <2>3. /\ recv'[s] = "recv" /\ tok'[s] = tok[s] + 1 /\ polls'[s] = polls[s]
        /\ rpc'[s] = rpc[s] /\ issued'[s] = issued[s]
        /\ mode'[s] = mode[s] /\ run'[s] = run[s] /\ rnd'[s] = rnd[s] /\ conn'[s] = conn[s]
        /\ syncs'[s] = syncs[s] /\ chan'[s] = chan[s] /\ disposed'[s] = disposed[s]
    BY <1>3, <2>2 DEF RecvPush
  <2>4. Held(s) = 1 /\ Held(s)' = 0
    BY <2>1, <2>3 DEF Held
  <2>. QED  BY <1>1, <2>1, <2>2, <2>3, <2>4 DEF Asked
<1>4. CASE RecvEnd(s) \/ RecvEOF(s) \/ RecvClose(s)
  <2>1. /\ recv[s] \in {"recv", "eofwait", "close"} /\ recv'[s] \in {"close", "eofwait", "done"}
        /\ tok'[s] = tok[s] /\ polls'[s] = polls[s]
        /\ rpc'[s] = rpc[s] /\ issued'[s] = issued[s]
        /\ mode'[s] = mode[s] /\ run'[s] = run[s] /\ rnd'[s] = rnd[s] /\ conn'[s] = conn[s]
        /\ syncs'[s] = syncs[s]
    BY <1>4 DEF RecvEnd, RecvEOF, RecvClose
  <2>2. Held(s) = 0 /\ Held(s)' = 0 /\ ~Waiting(s)'
    BY <2>1 DEF Held, Waiting
  <2>3. run[s] # "off" /\ ~Unstarted(s)
    BY <2>1 DEF Asked
  <2>. QED  BY <1>1, <2>1, <2>2, <2>3 DEF Asked
<1>5. CASE ClientPoll(s)
  <2>1. /\ recv'[s] = recv[s] /\ tok'[s] = tok[s] /\ polls'[s] = polls[s] + 1
        /\ rpc'[s] = rpc[s] /\ issued'[s] = issued[s] + 1 /\ syncs[s] = issued[s] + 1
        /\ mode'[s] = mode[s] /\ run'[s] = run[s] /\ rnd'[s] = rnd[s] /\ conn'[s] = conn[s]
        /\ syncs'[s] = syncs[s] /\ chan'[s] = chan[s] /\ disposed'[s] = disposed[s]
        /\ mode[s] = "POLL" /\ conn[s] = "up"
        /\ rpc[s] \notin {"idle", "init", "made", "done"}
    BY <1>5 DEF ClientPoll, Started
  <2>2. Held(s)' = Held(s) /\ Held(s) \in Nat
    BY <2>1 DEF Held
  <2>3. rpc[s] # "send"
    BY <2>1, ClosedAtRest
  <2>4. recv[s] \in {"recv", "push"} => rpc[s] = "get" /\ ~disposed[s] /\ chan[s] = "open"
    BY <2>1, <2>3 DEF Asked
  <2>5. Waiting(s)' => recv[s] \in {"recv", "push"}
    BY <2>1 DEF Waiting
  <2>. QED  BY <1>1, <2>1, <2>2, <2>4, <2>5 DEF Asked
<1>6. CASE ClientEOF(s) \/ Disconnect(s)
  <2>1. /\ recv'[s] = recv[s] /\ tok'[s] = tok[s] /\ polls'[s] = polls[s]
        /\ rpc'[s] = rpc[s] /\ issued'[s] = issued[s]
        /\ mode'[s] = mode[s] /\ run'[s] = run[s] /\ rnd'[s] = rnd[s]
        /\ syncs'[s] = syncs[s] /\ chan'[s] = chan[s] /\ disposed'[s] = disposed[s]
        /\ conn'[s] = "up" => conn[s] = "up"
    BY <1>6 DEF ClientEOF, Disconnect
  <2>2. (Waiting(s)' <=> Waiting(s)) /\ Held(s)' = Held(s)
    BY <2>1 DEF Waiting, Held
  <2>. QED  BY <1>1, <2>1, <2>2 DEF Asked
<1>7. CASE PollRound(s)
  <2>1. /\ recv'[s] = recv[s] /\ tok[s] > 0 /\ tok'[s] = tok[s] - 1 /\ polls'[s] = polls[s]
        /\ rpc'[s] = rpc[s] /\ issued'[s] = issued[s]
        /\ mode'[s] = mode[s] /\ run[s] # "off" /\ run'[s] # "off" /\ rnd'[s] = rnd[s] + 1
        /\ syncs'[s] = syncs[s] /\ chan'[s] = chan[s] /\ disposed'[s] = disposed[s]
        /\ conn'[s] = conn[s]
    BY <1>7 DEF PollRound, AwaitsToken
  <2>2. (Waiting(s)' <=> Waiting(s)) /\ Held(s)' = Held(s) /\ Held(s) \in Nat
    BY <2>1 DEF Waiting, Held
  <2>3. rnd'[s] + tok'[s] + polls'[s] + Held(s)' = rnd[s] + tok[s] + polls[s] + Held(s)
    BY <1>1, <2>1, <2>2
  <2>. QED  BY <1>1, <2>1, <2>2, <2>3 DEF Asked
<1>. QED  BY <1>2, <1>3, <1>4, <1>5, <1>6, <1>7 DEF Recv, Client

-----------------------------------------------------------------------------
(***************************************************************************)
(* Only the first token and recv's tokens are sent on a channel that Close *)
(* may have closed.                                                        *)
(***************************************************************************)
LEMMA SendPanics ==
    ASSUME TypeOK, NEW s \in Streams, panic = "none", panic' = "sendOnClosed",
           \/ Main(s) \/ Recv(s) \/ Data(s) \/ Client(s)
           \/ \E p \in Paths : Path(s, p)
    PROVE  \/ RunStart(s) /\ mode[s] # "STREAM" /\ chan[s] = "closed"
           \/ RecvPush(s) /\ chan[s] = "closed"
<1> USE DEF mainVars, closeVars, dataVars, envVars, histVars
<1>1. CASE Subscribe(s)
  BY <1>1 DEF Subscribe, Close
<1>2. CASE RunClose(s) \/ RecvClose(s)
  BY <1>2 DEF RunClose, RecvClose, Close
<1>3. CASE Unregister(s) \/ RunAborted(s) \/ RunRefused(s) \/ RunWait(s)
  BY <1>3 DEF Unregister, RunAborted, RunRefused, RunWait
<1>4. CASE RunQuery(s) \/ RunStart(s)
  BY <1>4 DEF RunQuery, RunStart
<1>5. CASE Get(s) \/ GetDisposed(s) \/ SendError(s)
  BY <1>5 DEF Get, GetDisposed, SendError
<1>6. CASE Send(s)
  BY <1>6 DEF Send
<1>7. CASE RecvPoll(s) \/ RecvPush(s) \/ RecvEnd(s) \/ RecvEOF(s)
  BY <1>7 DEF RecvPoll, RecvPush, RecvEnd, RecvEOF
<1>8. CASE Client(s)
  BY <1>8 DEF Client, ClientPoll, ClientEOF, Disconnect
<1>9. CASE StreamUnsupported(s) \/ StreamSync(s) \/ StreamPut(s) \/ StreamStop(s)
  BY <1>9 DEF StreamUnsupported, StreamSync, StreamPut, StreamStop, WDone
<1>10. CASE SampleValidated(s) \/ SampleSync(s) \/ PollRound(s) \/ PollStop(s)
  BY <1>10 DEF SampleValidated, SampleSync, PollRound, PollStop, WDone
<1>11. CASE PollReadError(s) \/ PollSync(s) \/ OnceSync(s) \/ OnceRun(s)
  BY <1>11 DEF PollReadError, PollSync, OnceSync, OnceRun, WDone
<1>12. CASE \E p \in Paths : StreamSpawn(s, p) \/ RoundValue(s, p)
  BY <1>12 DEF StreamSpawn, RoundValue
<1>13. CASE \E p \in Paths : Path(s, p)
  BY <1>13 DEF Path, PathFirst, PathUpdate, PathPut, PathStop, PathReturns, WDone
<1>. QED  BY <1>1, <1>2, <1>3, <1>4, <1>5, <1>6, <1>7, <1>8, <1>9, <1>10, <1>11, <1>12,
             <1>13
          DEF Main, Recv, Data

(***************************************************************************)
(* Every session keeps its accounts.                                       *)
(***************************************************************************)
AllAsked == (\A s \in Streams : Asked(s)) /\ panic # "sendOnClosed"

(***************************************************************************)
(* No poll has been made yet.                                              *)
(***************************************************************************)
LEMMA AskedInit ==
    ASSUME Init
    PROVE  AllAsked
<1>1. ASSUME NEW s \in Streams PROVE Asked(s)
  BY DEF Init, Asked, Unstarted, Waiting, Held
<1>. QED  BY <1>1 DEF Init, AllAsked

(***************************************************************************)
(* One step of the session that moves and none of the others.              *)
(***************************************************************************)
LEMMA AskedStep ==
    ASSUME TypeOK, RegistryLive, SyncsInv, AllRounds, AllAsked, [Next]_vars, ~Pipelined,
           \A s \in Streams : \A x \in Queries[s] : x.mode # "STREAM" => Sole(s)
    PROVE  AllAsked'
<1>1. CASE UNCHANGED vars
  <2>1. ASSUME NEW t \in Streams PROVE Asked(t)'
    BY <1>1, <2>1, ApartAsked DEF vars, Apart, AllAsked
  <2>. QED  BY <1>1, <2>1 DEF vars, AllAsked
<1>2. CASE Next
  <2>1. PICK s \in Streams : \/ Main(s) \/ Recv(s) \/ Data(s) \/ Client(s)
                             \/ \E p \in Paths : Path(s, p)
    BY <1>2 DEF Next
  <2>2. panic = "none"
    BY <1>2 DEF Next
  <2>3. SyncInv(s) /\ RoundsInv(s) /\ Asked(s)
    BY DEF SyncsInv, AllRounds, AllAsked
  <2>4. Asked(s)'
    <3>1. CASE Main(s)
      BY <2>3, <3>1, MainAsked
    <3>2. CASE Recv(s) \/ Client(s) \/ PollRound(s)
      BY <2>3, <3>2, RecvAsked
    <3>3. CASE ~PollRound(s) /\ (Data(s) \/ \E p \in Paths : Path(s, p))
      BY <2>3, <3>3, RoutineApart, ApartAsked
    <3>. QED  BY <2>1, <3>1, <3>2, <3>3
  <2>5. ASSUME NEW t \in Streams, t # s PROVE Asked(t)'
    BY <2>1, <2>5, OtherApart, ApartAsked DEF AllAsked
  <2>6. panic' # "sendOnClosed"
    <3>1. SUFFICES ASSUME panic' = "sendOnClosed" PROVE FALSE
      OBVIOUS
    <3>2. CASE RunStart(s) /\ mode[s] # "STREAM" /\ chan[s] = "closed"
      BY <2>3, <3>2 DEF RunStart, Asked
    <3>3. CASE RecvPush(s) /\ chan[s] = "closed"
      BY <2>3, <3>3 DEF RecvPush, Asked, Waiting
    <3>. QED  BY <2>1, <2>2, <3>1, <3>2, <3>3, SendPanics
  <2>. QED  BY <2>4, <2>5, <2>6 DEF AllAsked
<1>. QED  BY <1>1, <1>2

(***************************************************************************)
(* No goroutine of a session panics, as long as no client polls ahead and  *)
(* only STREAM calls share their peer address with another call: the first *)
(* token is sent before anyone could close the channel, and when recv      *)
(* passes a poll on, send waits at an empty queue and nobody else can call *)
(* Close.  Without the first condition recv's send meets the Close of a    *)
(* send that failed; without the second one, the Close of the Subscribe    *)
(* call that replaces the session.                                         *)
(***************************************************************************)
THEOREM NoSessionPanics ==
    ASSUME ~Pipelined,
           \A s \in Streams : \A x \in Queries[s] : x.mode # "STREAM" => Sole(s)
    PROVE  Spec => []NoPanic
<1>1. Init => AllAsked
  BY AskedInit
<1>2. TypeOK /\ RegistryLive /\ SyncsInv /\ AllRounds /\ AllAsked /\ [Next]_vars => AllAsked'
  BY AskedStep
<1>3. TypeOK /\ ClosedOnce /\ AllAsked => NoPanic
  BY DEF TypeOK, ClosedOnce, AllAsked, NoPanic
<1>4. Spec => []TypeOK /\ []RegistryLive /\ []SyncsInv /\ []AllRounds /\ []ClosedOnce
  BY TypeCorrect, RegistryIsLive, SyncsKept, RoundsKept, CloseIsSafe
<1>. QED  BY <1>1, <1>2, <1>3, <1>4, PTL DEF Spec
===============================================================================
