------------------------- MODULE DialOutServerProofs -------------------------
(***************************************************************************)
(* Proofs for DialOutServer, for any number of calls, addresses and        *)
(* responses, with a data store that is set before the first call: the     *)
(* data store implements ResponseStore, and nothing that was sent before   *)
(* the end of a stream is missing.                                         *)
(***************************************************************************)
EXTENDS DialOutServer, FiniteSetTheorems, TLAPS

-----------------------------------------------------------------------------
(* The inductive invariant *)

Responses == Calls \X Nat

Types ==
    /\ ds \in BOOLEAN
    /\ store \in Seq(Responses)
    /\ loc \in [Calls -> Seq(Responses)]
    /\ pc \in [Calls -> {"idle", "recv", "lock", "append", "unlock", "print",
                         "unreg", "done"}]
    /\ cur \in [Calls -> Nat]
    /\ sent \in [Calls -> Nat]
    /\ status \in [Calls -> {"none", "eof", "error"}]
    /\ conn \in [Calls -> {"up", "eof", "broken"}]

\* sRWMu: the call between Lock and Unlock holds it, and the slice that it
\* has read is the one it extends.
Locked ==
    \A c \in Calls : /\ pc[c] \in {"append", "unlock"} <=> lock = c
                     /\ pc[c] = "append" => ds /\ loc[c] = store

\* A response that has been received and not yet appended
Pending(c) == pc[c] \in {"lock", "append"}

\* The responses of a call in the data store are all that it has received.
Counted ==
    /\ ~ds => store = <<>>
    /\ \A c \in Calls :
          /\ cur[c] <= sent[c]
          /\ pc[c] = "idle" => cur[c] = 0
          /\ Pending(c) => cur[c] # 0
          /\ ds => Kept(c) = IF Pending(c) THEN cur[c] - 1 ELSE cur[c]

Everything == printed \cup Range(store)

\* What has been received, but for the response Run is at, is stored or printed.
Settled ==
    \A c \in Calls : \A n \in 1..cur[c] :
        \/ <<c, n>> \in Everything
        \/ n = cur[c] /\ (Pending(c) \/ (~ds /\ pc[c] \in {"unlock", "print"}))

AllRead ==
    \A c \in Calls :
        status[c] = "eof" => conn[c] # "up" /\ cur[c] = sent[c] /\ pc[c] \in {"unreg", "done"}

IInv == Types /\ Locked /\ Counted /\ Settled /\ AllRead

-----------------------------------------------------------------------------
(* The number of responses of a call in a list *)

Places(s, c) == {i \in DOMAIN s : s[i][1] = c}

\* Append adds one to the responses of its call and none to the others'.
LEMMA AppendCounts ==
    ASSUME NEW s \in Seq(Responses), NEW c \in Calls, NEW n \in Nat, NEW d \in Calls
    PROVE  /\ Cardinality(Places(s, d)) \in Nat
           /\ Cardinality(Places(Append(s, <<c, n>>), d)) =
                  IF d = c THEN Cardinality(Places(s, d)) + 1 ELSE Cardinality(Places(s, d))
<1> DEFINE t == Append(s, <<c, n>>)
           P == Places(s, d)
<1>1. /\ Len(s) \in Nat
      /\ DOMAIN s = 1..Len(s)
      /\ DOMAIN t = 1..(Len(s) + 1)
      /\ t[Len(s) + 1] = <<c, n>>
      /\ \A i \in 1..Len(s) : t[i] = s[i]
  BY DEF Responses
<1>2. IsFiniteSet(P)
  <2>1. IsFiniteSet(1..Len(s))
    BY <1>1, FS_Interval
  <2>2. P \in SUBSET (1..Len(s))
    BY <1>1 DEF Places
  <2>. QED  BY <2>1, <2>2, FS_Subset
<1>3. Cardinality(P) \in Nat
  BY <1>2, FS_CardinalityType
<1>4. CASE d = c
  <2>1. Places(t, d) = P \cup {Len(s) + 1}
    BY <1>1, <1>4 DEF Places
  <2>2. Len(s) + 1 \notin P
    BY <1>1 DEF Places
  <2>. QED  BY <1>2, <1>3, <1>4, <2>1, <2>2, FS_AddElement
<1>5. CASE d # c
  <2>1. Places(t, d) = P
    BY <1>1, <1>5 DEF Places
  <2>. QED  BY <1>3, <1>5, <2>1
<1>. QED  BY <1>4, <1>5

-----------------------------------------------------------------------------
(* The invariant is inductive *)

\* It holds in the initial state: nothing has been sent, received or stored.
LEMMA InvInit == Init => IInv
<1> SUFFICES ASSUME Init PROVE IInv
  OBVIOUS
<1>1. Types
  <2>1. <<>> \in Seq(Responses)
    OBVIOUS
  <2>. QED  BY <2>1 DEF Init, Types
<1>2. Locked /\ Counted /\ Settled /\ AllRead
  BY ServerAssumption DEF Init, Locked, Counted, Pending, Settled, AllRead
<1>. QED  BY <1>1, <1>2 DEF IInv

\* Kept is a number that depends on the data store only.
LEMMA KeptSame == ASSUME UNCHANGED store, NEW c \in Calls PROVE Kept(c)' = Kept(c)
BY DEF Kept

\* Steps of a call that leave the data store and the lock alone: Publish,
\* Recv, its end, the print and the end of Publish.
LEMMA CallInv ==
    ASSUME IInv, ~SetLate, NEW c \in Calls,
           Publish(c) \/ PublishEnd(c) \/ RunRecv(c) \/ RunEnd(c) \/ RunPrint(c)
    PROVE  IInv'
<1> USE DEF IInv
<1>0. UNCHANGED <<ds, store, loc, lock, sent, conn>>
  BY DEF Publish, PublishEnd, RunRecv, RunEnd, RunPrint, storeVars
<1>1. Types'
  <2>1. pc' \in [Calls -> {"idle", "recv", "lock", "append", "unlock", "print",
                          "unreg", "done"}]
    BY DEF Types, Publish, PublishEnd, RunRecv, RunEnd, RunPrint, Goto
  <2>2. cur' \in [Calls -> Nat]
    <3>1. cur \in [Calls -> Nat]
      BY DEF Types
    <3>2. CASE RunRecv(c)
      BY <3>1, <3>2 DEF RunRecv
    <3>3. CASE ~RunRecv(c)
      BY <3>1, <3>3 DEF Publish, PublishEnd, RunEnd, RunPrint
    <3>. QED  BY <3>2, <3>3
  <2>3. status' \in [Calls -> {"none", "eof", "error"}]
    BY DEF Types, Publish, PublishEnd, RunRecv, RunEnd, RunPrint
  <2>. QED  BY <1>0, <2>1, <2>2, <2>3 DEF Types
<1>2. Locked'
  BY <1>0 DEF Types, Locked, Publish, PublishEnd, RunRecv, RunEnd, RunPrint, Goto
<1>3. Counted'
  <2>1. \A d \in Calls : Kept(d)' = Kept(d)
    BY <1>0, KeptSame
  <2>. QED
    BY <1>0, <2>1 DEF Types, Counted, Pending, Publish, PublishEnd, RunRecv, RunEnd,
                      RunPrint, Goto
<1>4. Settled'
  <2>1. Everything \subseteq Everything'
    BY <1>0 DEF Everything, Publish, PublishEnd, RunRecv, RunEnd, RunPrint, storeVars
  <2>2. CASE RunPrint(c)
    <3>1. ~ds => <<c, cur[c]>> \in Everything'
      BY <2>2 DEF Everything, RunPrint
    <3>2. cur' = cur /\ ds' = ds /\ \A d \in Calls \ {c} : pc'[d] = pc[d]
      BY <2>2 DEF Types, RunPrint, Goto
    <3>3. pc[c] = "print"
      BY <2>2 DEF RunPrint
    <3>. QED  BY <2>1, <3>1, <3>2, <3>3 DEF Types, Settled, Pending
  <2>3. CASE RunRecv(c)
    <3>1. /\ ds' = ds
          /\ cur'[c] = cur[c] + 1 /\ pc'[c] = "lock" /\ pc[c] = "recv"
          /\ \A d \in Calls \ {c} : pc'[d] = pc[d] /\ cur'[d] = cur[d]
      BY <2>3, <1>0 DEF Types, RunRecv, Goto
    <3>2. \A n \in 1..cur[c] : <<c, n>> \in Everything
      BY <3>1 DEF Settled, Pending
    <3>3. cur[c] \in Nat
      BY DEF Types
    <3>4. \A n \in 1..(cur[c] + 1) : n \in 1..cur[c] \/ n = cur[c] + 1
      BY <3>3
    <3>5. ASSUME NEW d \in Calls, NEW n \in 1..cur'[d]
          PROVE  (\/ <<d, n>> \in Everything
                  \/ n = cur[d] /\ (Pending(d) \/ (~ds /\ pc[d] \in {"unlock", "print"})))'
      <4>1. CASE d = c
        BY <2>1, <3>1, <3>2, <3>4, <4>1 DEF Pending
      <4>2. CASE d # c
        <5>1. n \in 1..cur[d] /\ cur'[d] = cur[d] /\ pc'[d] = pc[d]
          BY <3>1, <4>2
        <5>2. Pending(d)' <=> Pending(d)
          BY <5>1 DEF Pending
        <5>3. \/ <<d, n>> \in Everything
              \/ n = cur[d] /\ (Pending(d) \/ (~ds /\ pc[d] \in {"unlock", "print"}))
          BY <5>1 DEF Settled
        <5>. QED  BY <2>1, <3>1, <5>1, <5>2, <5>3
      <4>. QED  BY <4>1, <4>2
    <3>. QED  BY <3>5 DEF Settled
  <2>4. CASE Publish(c) \/ PublishEnd(c) \/ RunEnd(c)
    <3>1. cur' = cur /\ ds' = ds /\ \A d \in Calls \ {c} : pc'[d] = pc[d]
      BY <2>4 DEF Types, Publish, PublishEnd, RunEnd, Goto, storeVars
    <3>2. pc[c] \in {"idle", "unreg", "recv"}
      BY <2>4 DEF Publish, PublishEnd, RunEnd
    <3>. QED  BY <2>1, <3>1, <3>2 DEF Types, Settled, Pending
  <2>. QED  BY <2>2, <2>3, <2>4
<1>5. AllRead'
  BY <1>0 DEF Types, AllRead, Publish, PublishEnd, RunRecv, RunEnd, RunPrint, Goto,
              Ended, Broken
<1>. QED  BY <1>1, <1>2, <1>3, <1>4, <1>5

\* Run takes and releases sRWMu; one call at a time is between the two.
LEMMA LockInv ==
    ASSUME IInv, ~SetLate, NEW c \in Calls, RunLock(c) \/ RunUnlock(c)
    PROVE  IInv'
<1> USE DEF IInv
<1>0. UNCHANGED <<ds, store, printed, cur, status, sent, conn>>
  BY DEF RunLock, RunUnlock
<1>1. Types'
  <2>1. <<>> \in Seq(Responses)
    OBVIOUS
  <2>2. loc' \in [Calls -> Seq(Responses)]
    BY <2>1 DEF Types, RunLock, RunUnlock
  <2>3. pc' \in [Calls -> {"idle", "recv", "lock", "append", "unlock", "print",
                          "unreg", "done"}]
    BY DEF Types, RunLock, RunUnlock, Goto
  <2>. QED  BY <1>0, <2>2, <2>3 DEF Types
<1>2. Locked'
  <2>1. CASE RunLock(c)
    <3>1. /\ lock = NoCall /\ lock' = c
          /\ loc'[c] = store /\ store' = store /\ ds' = ds
          /\ pc'[c] \in {"append", "unlock"} /\ (pc'[c] = "append" => ds)
          /\ \A d \in Calls \ {c} : pc'[d] = pc[d] /\ loc'[d] = loc[d]
      BY <2>1, <1>0 DEF Types, RunLock, Goto, LockFree
    <3>. QED  BY <3>1, ServerAssumption DEF Locked
  <2>2. CASE RunUnlock(c)
    <3>1. /\ pc[c] = "unlock" /\ lock' = NoCall
          /\ store' = store /\ ds' = ds /\ pc'[c] = "print"
          /\ \A d \in Calls \ {c} : pc'[d] = pc[d] /\ loc'[d] = loc[d]
      BY <2>2, <1>0 DEF Types, RunUnlock, Goto
    <3>. QED  BY <3>1, ServerAssumption DEF Locked
  <2>. QED  BY <2>1, <2>2
<1>3. Counted'
  <2>1. \A d \in Calls : Kept(d)' = Kept(d)
    BY <1>0, KeptSame
  <2>. QED
    BY <1>0, <2>1 DEF Types, Counted, Pending, RunLock, RunUnlock, Goto
<1>4. Settled'
  <2>1. Everything' = Everything
    BY <1>0 DEF Everything
  <2>. QED  BY <1>0, <2>1 DEF Types, Settled, Pending, RunLock, RunUnlock, Goto
<1>5. AllRead'
  BY <1>0 DEF Types, AllRead, RunLock, RunUnlock, Goto
<1>. QED  BY <1>1, <1>2, <1>3, <1>4, <1>5

\* append: the call holds sRWMu, so that the slice is as it has read it.
LEMMA AppendInv ==
    ASSUME IInv, ~SetLate, NEW c \in Calls, RunAppend(c)
    PROVE  /\ IInv'
           /\ store' = Append(store, <<c, cur[c]>>)
           /\ Kept(c) = cur[c] - 1
           /\ \A d \in Calls : /\ Kept(d) \in Nat
                               /\ Kept(d)' = IF d = c THEN Kept(d) + 1 ELSE Kept(d)
<1> USE DEF IInv
<1>1. /\ pc[c] = "append" /\ pc'[c] = "unlock"
      /\ \A d \in Calls \ {c} : pc'[d] = pc[d] /\ loc'[d] = loc[d]
      /\ UNCHANGED <<lock, ds, printed, cur, status, conn, sent>>
  BY DEF Types, RunAppend, Goto
<1>2. ds /\ lock = c /\ loc[c] = store
  BY <1>1 DEF Locked
<1>3. store' = Append(store, <<c, cur[c]>>)
  BY <1>2 DEF RunAppend
<1>4. store \in Seq(Responses) /\ cur[c] \in Nat
  BY DEF Types
<1>5. \A d \in Calls : /\ Kept(d) \in Nat
                       /\ Kept(d)' = IF d = c THEN Kept(d) + 1 ELSE Kept(d)
  <2> TAKE d \in Calls
  <2>1. Kept(d) = Cardinality(Places(store, d)) /\ Kept(d)' = Cardinality(Places(store', d))
    BY DEF Kept, Places
  <2>. QED  BY <1>3, <1>4, <2>1, AppendCounts
<1>6. cur[c] # 0 /\ Kept(c) = cur[c] - 1
  BY <1>1, <1>2 DEF Counted, Pending
<1>7. Types'
  <2>1. <<c, cur[c]>> \in Responses
    BY <1>4 DEF Responses
  <2>2. store' \in Seq(Responses) /\ <<>> \in Seq(Responses)
    BY <1>3, <1>4, <2>1
  <2>3. loc' \in [Calls -> Seq(Responses)]
    BY <2>2 DEF Types, RunAppend
  <2>4. pc' \in [Calls -> {"idle", "recv", "lock", "append", "unlock", "print",
                          "unreg", "done"}]
    BY DEF Types, RunAppend, Goto
  <2>. QED  BY <1>1, <2>2, <2>3, <2>4 DEF Types
<1>8. Locked'
  BY <1>1, <1>2 DEF Locked
<1>9. Counted'
  <2>1. \A d \in Calls : ds' => Kept(d)' = IF Pending(d)' THEN cur'[d] - 1 ELSE cur'[d]
    BY <1>1, <1>2, <1>4, <1>5, <1>6 DEF Counted, Pending
  <2>2. ds'
    BY <1>1, <1>2
  <2>. QED  BY <1>1, <2>1, <2>2 DEF Counted, Pending
<1>10. Settled'
  <2>1. Everything \subseteq Everything' /\ <<c, cur[c]>> \in Everything'
    <3>1. /\ Len(store) \in Nat
          /\ DOMAIN store = 1..Len(store)
          /\ DOMAIN store' = 1..(Len(store) + 1)
          /\ store'[Len(store) + 1] = <<c, cur[c]>>
          /\ \A i \in 1..Len(store) : store'[i] = store[i]
      BY <1>3, <1>4
    <3>2. Range(store) \subseteq Range(store)'
      BY <3>1 DEF Range
    <3>3. <<c, cur[c]>> \in Range(store)'
      BY <3>1 DEF Range
    <3>. QED  BY <1>1, <3>2, <3>3 DEF Everything
  <2>. QED  BY <1>1, <2>1 DEF Settled, Pending
<1>11. AllRead'
  BY <1>1 DEF AllRead
<1>. QED  BY <1>3, <1>5, <1>6, <1>7, <1>8, <1>9, <1>10, <1>11

\* The senders and Stop change streams only; SetDataStore comes before the
\* first call.
LEMMA OutsideInv ==
    ASSUME IInv, ~SetLate,
           SetDataStore \/ Stop \/ \E c \in Calls : SenderSend(c) \/ SenderEnds(c)
    PROVE  IInv'
<1> USE DEF IInv
<1>0. /\ UNCHANGED <<store, loc, lock, pc, cur, status, printed>>
      /\ \A d \in Calls : Kept(d)' = Kept(d)
      /\ Everything' = Everything
  <2>1. UNCHANGED <<store, loc, lock, pc, cur, status, printed>>
    BY DEF SetDataStore, Stop, SenderSend, SenderEnds, storeVars
  <2>. QED  BY <2>1, KeptSame DEF Everything
<1>1. CASE SetDataStore
  <2>1. /\ ~ds /\ ds' /\ ds' \in BOOLEAN /\ UNCHANGED <<conn, sent>>
        /\ \A d \in Calls : pc[d] = "idle"
    BY <1>1 DEF SetDataStore
  <2>2. \A d \in Calls : Kept(d) = 0
    <3>1. store = <<>>
      BY <2>1 DEF Counted
    <3>2. \A d \in Calls : {i \in DOMAIN store : store[i][1] = d} = {}
      BY <3>1
    <3>. QED  BY <3>2, FS_EmptySet DEF Kept
  <2>3. Types'
    BY <1>0, <2>1 DEF Types
  <2>4. Locked'
    BY <1>0, <2>1 DEF Locked
  <2>5. Counted'
    BY <1>0, <2>1, <2>2 DEF Counted, Pending
  <2>6. Settled'
    BY <1>0, <2>1 DEF Types, Counted, Settled
  <2>7. AllRead'
    BY <1>0, <2>1 DEF AllRead
  <2>. QED  BY <2>3, <2>4, <2>5, <2>6, <2>7
<1>2. CASE Stop \/ \E c \in Calls : SenderSend(c) \/ SenderEnds(c)
  <2>1. /\ ds' = ds
        /\ sent' \in [Calls -> Nat] /\ conn' \in [Calls -> {"up", "eof", "broken"}]
        /\ \A d \in Calls : /\ sent'[d] = sent[d] \/ (conn[d] = "up" /\ sent'[d] = sent[d] + 1)
                            /\ conn[d] # "up" => conn'[d] # "up"
    <3>1. sent \in [Calls -> Nat] /\ conn \in [Calls -> {"up", "eof", "broken"}]
      BY DEF Types
    <3>2. CASE Stop
      BY <3>1, <3>2 DEF Stop, storeVars
    <3>3. ASSUME NEW c \in Calls, SenderSend(c)
          PROVE  <2>1!:
      BY <3>1, <3>3 DEF SenderSend, storeVars
    <3>4. ASSUME NEW c \in Calls, SenderEnds(c)
          PROVE  <2>1!:
      BY <3>1, <3>4 DEF SenderEnds, storeVars
    <3>. QED  BY <1>2, <3>2, <3>3, <3>4
  <2>2. Types'
    BY <1>0, <2>1 DEF Types
  <2>3. Locked'
    BY <1>0, <2>1 DEF Locked
  <2>4. Counted'
    BY <1>0, <2>1 DEF Types, Counted, Pending
  <2>5. Settled'
    BY <1>0, <2>1 DEF Settled, Pending
  <2>6. AllRead'
    BY <1>0, <2>1 DEF AllRead
  <2>. QED  BY <2>2, <2>3, <2>4, <2>5, <2>6
<1>. QED  BY <1>1, <1>2

\* Every step preserves the invariant.
LEMMA InvNext == ASSUME IInv, ~SetLate, [Next]_vars PROVE IInv'
<1>1. CASE SetDataStore \/ Stop
  BY <1>1, OutsideInv
<1>2. ASSUME NEW c \in Calls,
             Publish(c) \/ Run(c) \/ PublishEnd(c) \/ SenderSend(c) \/ SenderEnds(c)
      PROVE  IInv'
  <2>1. CASE Publish(c) \/ PublishEnd(c) \/ RunRecv(c) \/ RunEnd(c) \/ RunPrint(c)
    BY <2>1, CallInv
  <2>2. CASE RunLock(c) \/ RunUnlock(c)
    BY <2>2, LockInv
  <2>3. CASE RunAppend(c)
    BY <2>3, AppendInv
  <2>4. CASE SenderSend(c) \/ SenderEnds(c)
    BY <2>4, OutsideInv
  <2>. QED  BY <1>2, <2>1, <2>2, <2>3, <2>4 DEF Run
<1>3. CASE UNCHANGED vars
  <2>1. \A d \in Calls : Kept(d)' = Kept(d)
    BY <1>3, KeptSame DEF vars
  <2>. QED
    BY <1>3, <2>1 DEF vars, IInv, Types, Locked, Counted, Pending, Settled, Everything,
                      AllRead
<1>. QED  BY <1>1, <1>2, <1>3 DEF Next

(***************************************************************************)
(* Every behaviour keeps the invariant.                                    *)
(***************************************************************************)
LEMMA InvAlways == ASSUME ~SetLate PROVE Spec => []IInv
<1>1. Init => IInv
  BY InvInit
<1>2. IInv /\ [Next]_vars => IInv'
  BY InvNext
<1>. QED  BY <1>1, <1>2, PTL DEF Spec

-----------------------------------------------------------------------------
(* The theorems *)

\* Run: at the end of a stream all that its sender sent has been stored or
\* printed, however many calls append to the data store at the same time.
THEOREM NothingMissing == ASSUME ~SetLate PROVE Spec => []CompleteAtEOF
<1>1. IInv => CompleteAtEOF
  <2> SUFFICES ASSUME IInv, NEW c \in Calls, status[c] = "eof", NEW n \in 1..sent[c]
               PROVE  <<c, n>> \in printed \cup Range(store)
    BY DEF CompleteAtEOF
  <2>1. cur[c] = sent[c] /\ pc[c] \in {"unreg", "done"}
    BY DEF IInv, AllRead
  <2>. QED  BY <2>1 DEF IInv, Settled, Pending, Everything
<1>. QED  BY <1>1, InvAlways, PTL

\* Run and sRWMu: the data store implements ResponseStore, a step of Run
\* that writes the longer slice as Keep and every other one as no step or as
\* that of the sender.
THEOREM StoreImplements == ASSUME ~SetLate PROVE Spec => StoresInOrder
<1> DEFINE k == [c \in Calls |-> Kept(c)]
<1>1. Init => Abstract!Init
  <2> SUFFICES ASSUME Init PROVE Abstract!Init
    OBVIOUS
  <2>1. \A c \in Calls : {i \in DOMAIN store : store[i][1] = c} = {}
    BY DEF Init
  <2>2. k = [c \in Calls |-> 0]
    BY <2>1, FS_EmptySet DEF Kept
  <2>. QED  BY <2>2 DEF Init, Abstract!Init
<1>2. IInv /\ [Next]_vars => [Abstract!Next]_(Abstract!vars)
  <2> SUFFICES ASSUME IInv, [Next]_vars
               PROVE  Abstract!Next \/ UNCHANGED Abstract!vars
    OBVIOUS
  <2>1. CASE UNCHANGED <<store, sent>>
    <3>1. k' = k
      BY <2>1, KeptSame
    <3>. QED  BY <2>1, <3>1 DEF Abstract!vars
  <2>2. ASSUME NEW c \in Calls, SenderSend(c) PROVE Abstract!Next
    <3>1. UNCHANGED store
      BY <2>2 DEF SenderSend, storeVars
    <3>2. k' = k
      BY <3>1, KeptSame
    <3>3. Abstract!Send(c)
      BY <2>2, <3>1, <3>2 DEF SenderSend, Abstract!Send
    <3>. QED  BY <3>3 DEF Abstract!Next
  <2>3. ASSUME NEW c \in Calls, RunAppend(c) PROVE Abstract!Next
    <3>1. /\ store' = Append(store, <<c, cur[c]>>)
          /\ Kept(c) = cur[c] - 1
          /\ \A d \in Calls : /\ Kept(d) \in Nat
                              /\ Kept(d)' = IF d = c THEN Kept(d) + 1 ELSE Kept(d)
      BY <2>3, AppendInv
    <3>2. k' = [k EXCEPT ![c] = @ + 1]
      BY <3>1
    <3>3. cur[c] \in Nat /\ sent[c] \in Nat /\ cur[c] <= sent[c]
      BY DEF IInv, Types, Counted
    <3>4. k[c] < sent[c] /\ k'[c] = cur[c]
      BY <3>1, <3>2, <3>3
    <3>5. UNCHANGED sent
      BY <2>3 DEF RunAppend
    <3>6. Abstract!Keep(c)
      BY <3>1, <3>2, <3>4, <3>5 DEF Abstract!Keep
    <3>. QED  BY <3>6 DEF Abstract!Next
  <2>4. \/ UNCHANGED <<store, sent>>
        \/ \E c \in Calls : SenderSend(c) \/ RunAppend(c)
    BY DEF Next, Run, vars, SetDataStore, Stop, Publish, PublishEnd, RunRecv, RunEnd,
           RunLock, RunUnlock, RunPrint, SenderEnds, storeVars
  <2>. QED  BY <2>1, <2>2, <2>3, <2>4
<1>. QED  BY <1>1, <1>2, InvAlways, PTL DEF Spec, StoresInOrder, Abstract!Spec
=============================================================================
