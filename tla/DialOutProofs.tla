---------------------------- MODULE DialOutProofs ----------------------------
(***************************************************************************)
(* Proofs for DialOut, for any number of subscriptions, groups,            *)
(* destinations, changes and structs: once every notification is           *)
(* processed, what runs is what the table says; the users of a group are   *)
(* listed while subscriptions keep their group; and without copies of      *)
(* structs there is one publisher and one Close.                           *)
(***************************************************************************)
EXTENDS DialOut, FiniteSetTheorems, FunctionTheorems, SequenceTheorems, TLAPS

-----------------------------------------------------------------------------
(* Structs and handler *)

(***************************************************************************)
(* The map names structs that were made for that name and for a group,     *)
(* every struct has a cancel function, and what has no report type is not  *)
(* published.                                                              *)
(***************************************************************************)
Structs ==
    /\ \A n \in Names : subs[n] <= made
    /\ \A n \in Names : subs[n] # 0 =>
          /\ name[subs[n]] = n
          /\ cfg[subs[n]].grp \in used
          /\ n \in users[cfg[subs[n]].grp]
    /\ \A i \in Inst : i <= made => cancel[i] # 0
    /\ \A i \in Inst : i > made => pc[i] = "none"
    /\ \A i \in Inst : pc[i] \in {"loop", "periodic", "stream"} => cfg[i].type # "other"

(***************************************************************************)
(* Where the handler is: at the subscription of its key, or at a group,    *)
(* whose users it has found in the map as far as it has closed them.       *)
(***************************************************************************)
Closing == h.pc \in {"close", "cancel"}

Handling ==
    /\ h.pc = "groups" => h.key = Global
    /\ h.pc = "cancel" => h.cs # 0 /\ h.cs <= made
    /\ h.pc = "setup" => h.key \notin Names /\ \A n \in h.names : subs[n] # 0
    /\ Closing \/ h.pc = "setup" => (h.key \notin Names => h.grp \in Groups)
    /\ Closing \/ h.pc = "setup" => (h.key \in Groups => h.grp = h.key)
    /\ Closing /\ h.key \notin Names => \A n \in users[h.grp] : n \in h.names \/ subs[n] # 0
    /\ Closing /\ h.key \in Names => h.names \subseteq {h.key}

StructInv == TypeOK /\ Structs /\ Handling

-----------------------------------------------------------------------------
(* What runs is what the table says *)

(***************************************************************************)
(* A notification of k is under way or the last one was lost, or the       *)
(* handler is at it and has read the row.                                  *)
(***************************************************************************)
Pending(k) == k \in lost \/ \E x \in DOMAIN ntf : ntf[x].key = k

Busy(k) == Closing /\ h.key = k

(***************************************************************************)
(* The last notification of a row that exists tells of a write.            *)
(***************************************************************************)
LastIsSet ==
    \A x \in DOMAIN ntf : ntf[x].op = "hdel" /\ ntf[x].key # Global =>
        \/ db[ntf[x].key] = NoRow
        \/ \E y \in DOMAIN ntf : x < y /\ ntf[y].key = ntf[x].key

RowRead ==
    \A k \in RowKeys : Busy(k) =>
        Pending(k) \/ (h.row = db[k] /\ (h.op = "hdel" => db[k] = NoRow))

(***************************************************************************)
(* The maps hold what was last read of the table, and a goroutine was      *)
(* started with the destinations in the map unless the handler is about to *)
(* replace it.                                                             *)
(***************************************************************************)
RowApplied ==
    \A n \in Names :
        ~Pending(n) /\ ~Busy(n) /\ subs[n] # 0 /\ db[n].valid /\ db[n].grp # NoGroup =>
            cfg[subs[n]] = db[n]

GroupApplied ==
    \A g \in Groups :
        ~Pending(g) /\ ~Busy(g) /\ g \in known /\ db[g].valid /\ db[g].addrs # <<>> =>
            dest[g] = db[g].addrs

Started ==
    \A n \in Names : subs[n] # 0 /\ Live(subs[n]) =>
        /\ cfg[subs[n]].grp \in known
        /\ \/ dests[subs[n]] = dest[cfg[subs[n]].grp]
           \/ h.pc = "setup" /\ n \in h.names

AppliedInv == LastIsSet /\ RowRead /\ RowApplied /\ GroupApplied /\ Started

-----------------------------------------------------------------------------
(* The users of a group *)

(***************************************************************************)
(* A subscription that keeps its group, G[n], is listed under no other.    *)
(***************************************************************************)
Kept(G) ==
    /\ \A n \in Names : db[n].grp \in {G[n], NoGroup}
    /\ h.key \in Names => h.row.grp \in {G[h.key], NoGroup}
    /\ \A n \in Names : subs[n] # 0 => cfg[subs[n]].grp = G[n]
    /\ \A g \in Groups : \A n \in users[g] : g = G[n] /\ subs[n] # 0

-----------------------------------------------------------------------------
(* One publisher, and one Close *)

(***************************************************************************)
(* Steps that copy no struct.                                              *)
(***************************************************************************)
NoCopy == \A n \in Names : ~HandlerSetup(n)

(***************************************************************************)
(* Without copies: a struct's cancel function is that of its own context,  *)
(* and the struct the handler replaces or forgets is cancelled by then.    *)
(***************************************************************************)
Told ==
    /\ \A i \in Inst : i <= made => ctx[i] = i /\ cancel[i] = i
    /\ Closing /\ h.key \in Names /\ subs[h.key] # 0 =>
          \/ h.key \in h.names
          \/ h.pc = "cancel" /\ h.cs = subs[h.key]
          \/ subs[h.key] \in cancelled

(***************************************************************************)
(* A struct has a channel of its own, which is open while the struct is.   *)
(***************************************************************************)
OwnChan ==
    /\ \A i \in Inst : opened[i] => stop[i] # 0 /\ stop[i] \notin closed
    /\ \A i, j \in Inst : stop[i] # 0 /\ stop[i] = stop[j] => i = j
    /\ ClosedOnce

(***************************************************************************)
(* The groups are read before there is any subscription.                   *)
(***************************************************************************)
Late == \/ \E g \in Groups : users[g] # {}
        \/ h.pc # "idle" /\ h.key \in Names

GroupsRead ==
    /\ Late => /\ h.pc # "idle" => h.key \in Names
               /\ \A x \in DOMAIN ntf : ntf[x].key \in Names
    /\ \A x, y \in DOMAIN ntf : ntf[x].key \in Names /\ x < y => ntf[y].key \in Names
    /\ h.pc = "setup" => h.names = {}
    /\ Closing /\ h.key \notin Names => h.names = {}
-----------------------------------------------------------------------------
(* Lemmas *)

(***************************************************************************)
(* A goroutine of the struct i takes a step.                               *)
(***************************************************************************)
Runs(i) == Publisher(i) \/ Streams(i)

(***************************************************************************)
(* Keys and rows.                                                          *)
(***************************************************************************)
LEMMA KeyFacts ==
    /\ Names \cap Groups = {} /\ Global \notin Names /\ Global \notin Groups
    /\ NoGroup \notin Groups
    /\ RowKeys = Names \cup Groups /\ Keys = Names \cup Groups \cup {Global}
BY DialOutAssumption DEF RowKeys, Keys

(***************************************************************************)
(* Rows that do not exist or are in error are rows, and so are those       *)
(* written.                                                                *)
(***************************************************************************)
LEMMA RowFacts ==
    /\ NoRow \in Row /\ BadRow \in Row
    /\ GroupRows \subseteq Row /\ SubRows \subseteq Row
    /\ FirstDb \in [RowKeys -> Row]
<1>1. <<>> \in Seq(Dests)
  OBVIOUS
<1>2. NoRow \in Row
  BY <1>1 DEF NoRow, Row, Types
<1>3. BadRow \in Row
  BY <1>2 DEF BadRow, NoRow, Row
<1>. QED  BY <1>2, <1>3, DialOutAssumption

(***************************************************************************)
(* The fields of a row.                                                    *)
(***************************************************************************)
LEMMA RowFields ==
    ASSUME NEW r \in Row
    PROVE  /\ r.valid \in BOOLEAN /\ r.addrs \in Seq(Dests) /\ r.grp \in Groups \cup {NoGroup}
           /\ r.type \in Types /\ r.dcok \in BOOLEAN
BY DEF Row

(***************************************************************************)
(* The bounds of structs and channels.                                     *)
(***************************************************************************)
LEMMA InstFacts == MaxInst \in Nat /\ MaxInst # 0 /\ Inst = 1..MaxInst /\ Chans = 1..(MaxInst + 1)
BY DialOutAssumption DEF Inst, Chans

(***************************************************************************)
(* There are more channels than structs: one is free.                      *)
(***************************************************************************)
LEMMA FreshIsFree ==
    ASSUME TypeOK
    PROVE  FreshChan \in Chans /\ \A i \in Inst : stop[i] # FreshChan
<1> DEFINE S == {stop[i] : i \in Inst}
<1>1. IsFiniteSet(Inst) /\ Cardinality(Inst) = MaxInst
  BY InstFacts, FS_Interval
<1>2. IsFiniteSet(S) /\ Cardinality(S) <= MaxInst
  <2>1. stop \in Surjection(Inst, S)
    BY DEF TypeOK, Surjection
  <2>. QED  BY <1>1, <2>1, FS_Surjection
<1>3. IsFiniteSet(Chans) /\ Cardinality(Chans) = MaxInst + 1
  BY InstFacts, FS_Interval
<1>4. \E c \in Chans : c \notin S
  <2>1. SUFFICES ASSUME Chans \subseteq S PROVE FALSE
    OBVIOUS
  <2>2. Cardinality(Chans) <= Cardinality(S)
    BY <1>2, <2>1, FS_Subset
  <2>3. Cardinality(S) \in Nat
    BY <1>2, FS_CardinalityType
  <2>. QED  BY <1>2, <1>3, <2>2, <2>3, InstFacts
<1>5. \E c \in Chans : \A i \in Inst : stop[i] # c
  BY <1>4
<1>. QED  BY <1>5 DEF FreshChan

(***************************************************************************)
(* A function on 1..n is a sequence.                                       *)
(***************************************************************************)
LEMMA FunctionIsSeq ==
    ASSUME NEW S, NEW n \in Nat, NEW f \in [1..n -> S]
    PROVE  f \in Seq(S)
  OBVIOUS

(***************************************************************************)
(* The first notifications.                                                *)
(***************************************************************************)
LEMMA FirstNtf ==
    ASSUME Init
    PROVE  /\ ntf \in Seq([key : Keys, op : {"hset", "hdel"}])
           /\ \A x \in DOMAIN ntf : ntf[x].op = "hset" /\ FirstDb[ntf[x].key] # NoRow
                                    /\ ntf[x].key \in RowKeys
<1> DEFINE first == {k \in RowKeys : FirstDb[k] # NoRow}
<1>1. Cardinality(first) \in Nat
  <2>1. IsFiniteSet(RowKeys)
    BY DialOutAssumption
  <2>2. IsFiniteSet(first)
    BY <2>1, FS_Subset
  <2>. QED  BY <2>2, FS_CardinalityType
<1>2. PICK f \in [1..Cardinality(first) -> first] :
          ntf = [x \in 1..Cardinality(first) |-> [key |-> f[x], op |-> "hset"]]
  BY DEF Init
<1>3. \A x \in 1..Cardinality(first) : f[x] \in RowKeys /\ FirstDb[f[x]] # NoRow
  BY <1>2
<1>4. DOMAIN ntf = 1..Cardinality(first)
  BY <1>2
<1>5. \A x \in DOMAIN ntf : /\ ntf[x].op = "hset" /\ ntf[x].key = f[x]
                            /\ ntf[x] \in [key : Keys, op : {"hset", "hdel"}]
  BY <1>2, <1>3, <1>4, KeyFacts
<1> HIDE DEF first
<1>6. ntf \in [1..Cardinality(first) -> [key : Keys, op : {"hset", "hdel"}]]
  BY <1>2, <1>4, <1>5
<1>7. ntf \in Seq([key : Keys, op : {"hset", "hdel"}])
  BY <1>1, <1>6, FunctionIsSeq
<1>. QED  BY <1>3, <1>4, <1>5, <1>7

(***************************************************************************)
(* What is known of the notifications that wait, and of all but the first. *)
(***************************************************************************)
LEMMA NtfFacts ==
    ASSUME TypeOK
    PROVE  /\ \A x \in DOMAIN ntf : ntf[x].key \in Keys /\ ntf[x].op \in {"hset", "hdel"}
           /\ DOMAIN ntf = 1..Len(ntf) /\ Len(ntf) \in Nat
           /\ ntf # <<>> => /\ Head(ntf) = ntf[1] /\ 1 \in DOMAIN ntf
                            /\ Tail(ntf) \in Seq([key : Keys, op : {"hset", "hdel"}])
                            /\ DOMAIN Tail(ntf) = 1..(Len(ntf) - 1)
                            /\ \A x \in DOMAIN Tail(ntf) : Tail(ntf)[x] = ntf[x + 1]
<1>1. ntf \in Seq([key : Keys, op : {"hset", "hdel"}])
  BY DEF TypeOK
<1>2. DOMAIN ntf = 1..Len(ntf) /\ Len(ntf) \in Nat
  BY <1>1
<1>3. \A x \in DOMAIN ntf : ntf[x] \in [key : Keys, op : {"hset", "hdel"}]
  BY <1>1, <1>2, ElementOfSeq
<1>. QED  BY <1>1, <1>2, <1>3

-----------------------------------------------------------------------------
(* Types, structs and the handler *)

(***************************************************************************)
(* What Close leaves.                                                      *)
(***************************************************************************)
LEMMA CloseType ==
    ASSUME TypeOK, NEW i \in Inst, NEW L \in [Inst -> BOOLEAN], Close(i, L)
    PROVE  /\ opened' \in [Inst -> BOOLEAN]
           /\ closed' \subseteq Chans
           /\ panic' \in {"none", "closeOfClosed", "nilPointer", "indexOutOfRange"}
           /\ linked' \in [Inst -> BOOLEAN]
<1>1. CASE NeedsClose(i)
  <2>1. opened' \in [Inst -> BOOLEAN]
    BY <1>1 DEF Close, TypeOK
  <2>2. closed' \subseteq Chans
    <3>1. stop[i] # 0 => stop[i] \in Chans
      <4>1. stop[i] \in 0..(MaxInst + 1)
        BY DEF TypeOK
      <4>. QED  BY <4>1, InstFacts
    <3>. QED  BY <1>1, <3>1 DEF Close, TypeOK
  <2>3. panic' \in {"none", "closeOfClosed", "nilPointer", "indexOutOfRange"}
    BY <1>1 DEF Close, TypeOK
  <2>4. linked' \in [Inst -> BOOLEAN]
    BY <1>1 DEF Close
  <2>. QED  BY <2>1, <2>2, <2>3, <2>4
<1>2. CASE ~NeedsClose(i)
  BY <1>2 DEF Close, TypeOK
<1>. QED  BY <1>1, <1>2

(***************************************************************************)
(* The goroutines of a struct leave the table, the maps, the handler and   *)
(* what structs are made with alone, and start no goroutine.               *)
(***************************************************************************)
LEMMA RunsFrame ==
    ASSUME TypeOK, NEW i \in Inst, Runs(i)
    PROVE  /\ UNCHANGED <<extVars, mapVars, h, newVars, cancelled>>
           /\ \A k \in Inst : (pc'[k] = "none" <=> pc[k] = "none") /\ (Live(k)' => Live(k))
<1> USE DEF TypeOK, Live
<1>1. CASE PubRestart(i) \/ PubDial(i) \/ PubPublish(i)
  <2>1. UNCHANGED <<extVars, mapVars, h, newVars, cancelled>>
    BY <1>1 DEF PubRestart, PubDial, PubPublish
  <2>2. /\ pc[i] \notin {"none", "done"}
        /\ pc' = pc \/ \E c : c # "none" /\ pc' = [pc EXCEPT ![i] = c]
    <3>1. CASE PubRestart(i)
      BY <3>1 DEF PubRestart
    <3>2. CASE PubDial(i)
      BY <3>2 DEF PubDial
    <3>3. CASE PubPublish(i)
      BY <3>3 DEF PubPublish
    <3>. QED  BY <1>1, <3>1, <3>2, <3>3
  <2>. QED  BY <2>1, <2>2
<1>2. CASE PubSelect(i)
  <2>1. UNCHANGED <<extVars, mapVars, h, newVars, cancelled>>
    BY <1>2 DEF PubSelect
  <2>2. cfg[i].type \in Types
    BY RowFields
  <2>3. \A k \in Inst : (pc'[k] = "none" <=> pc[k] = "none") /\ (Live(k)' => Live(k))
    BY <1>2, <2>2 DEF PubSelect, Types
  <2>. QED  BY <2>1, <2>3
<1>3. CASE PubReadError(i) \/ PubReport(i) \/ PubReportError(i)
  BY <1>3 DEF PubReadError, PubReport, PubReportError
<1>4. CASE PubStreamEnd(i) \/ PubFatal(i)
  BY <1>4 DEF PubStreamEnd, PubFatal, StreamEnds
<1>5. CASE PubSend(i) \/ PubWait(i) \/ FeederPut(i) \/ FeederReturn(i)
  BY <1>5 DEF PubSend, PubWait, FeederPut, FeederReturn
<1>. QED  BY <1>1, <1>2, <1>3, <1>4, <1>5 DEF Runs, Publisher, Streams

(***************************************************************************)
(* They keep the fields of the structs and their own control points in     *)
(* their types.                                                            *)
(***************************************************************************)
RunTypes ==
    /\ panic \in {"none", "closeOfClosed", "nilPointer", "indexOutOfRange"}
    /\ opened \in [Inst -> BOOLEAN]
    /\ stop \in [Inst -> 0..(MaxInst + 1)]
    /\ client \in [Inst -> 0..MaxInst]
    /\ feeder \in [Inst -> BOOLEAN]
    /\ queued \in [Inst -> BOOLEAN]
    /\ pc \in [Inst -> {"none", "restart", "dial", "publish", "loop", "periodic",
                        "stream", "wait", "done"}]
    /\ idx \in [Inst -> Nat]
    /\ cur \in [Inst -> Nat]
    /\ linked \in [Inst -> BOOLEAN]
    /\ closed \subseteq Chans

(***************************************************************************)
(* publishRun, StreamRun and Close keep those types: no index or channel   *)
(* goes out of range.                                                      *)
(***************************************************************************)
LEMMA RunsTypes ==
    ASSUME TypeOK, Structs, NEW i \in Inst, Runs(i)
    PROVE  RunTypes'
<1> USE DEF RunTypes, extVars, mapVars, newVars, csVars, runVars
<1>0. RunTypes
  BY DEF TypeOK
<1>1. CASE PubRestart(i)
  <2>1. FreshChan \in 1..(MaxInst + 1)
    BY FreshIsFree, InstFacts
  <2>2. stop' = [stop EXCEPT ![i] = FreshChan] /\ closed' = closed \ {FreshChan}
    BY <1>1 DEF PubRestart
  <2>3. stop' \in [Inst -> 0..(MaxInst + 1)] /\ closed' \subseteq Chans
    <3> HIDE DEF FreshChan
    <3>. QED  BY <1>0, <2>1, <2>2, InstFacts, SMTT(30)
  <2>4. idx' \in [Inst -> Nat] /\ cur' \in [Inst -> Nat]
    <3>1. CASE dests[i] = <<>>
      BY <1>0, <1>1, <3>1 DEF PubRestart
    <3>2. CASE dests[i] # <<>>
      <4>1. dests[i] \in Seq(Dests)
        BY DEF TypeOK
      <4>2. Len(dests[i]) \in Nat /\ Len(dests[i]) # 0
        BY <3>2, <4>1
      <4>3. NextDest(i) \in Nat /\ idx[i] + 1 \in Nat
        BY <1>0, <4>2 DEF NextDest
      <4> HIDE DEF NextDest
      <4>. QED  BY <1>0, <1>1, <3>2, <4>3 DEF PubRestart
    <3>. QED  BY <3>1, <3>2
  <2>5. /\ opened' \in [Inst -> BOOLEAN] /\ client' \in [Inst -> 0..MaxInst]
        /\ UNCHANGED <<feeder, queued, linked>>
    <3>1. 0 \in 0..MaxInst
      BY InstFacts
    <3>2. client' \in [Inst -> 0..MaxInst]
      BY <1>0, <1>1, <3>1 DEF PubRestart
    <3>3. opened' \in [Inst -> BOOLEAN]
      BY <1>0, <1>1 DEF PubRestart
    <3>. QED  BY <1>1, <3>2, <3>3 DEF PubRestart
  <2>6. /\ pc' \in [Inst -> {"none", "restart", "dial", "publish", "loop", "periodic",
                             "stream", "wait", "done"}]
        /\ panic' \in {"none", "closeOfClosed", "nilPointer", "indexOutOfRange"}
    BY <1>0, <1>1 DEF PubRestart
  <2>. QED  BY <1>0, <2>3, <2>4, <2>5, <2>6
<1>2. CASE PubDial(i)
  <2>1. PICK ok \in BOOLEAN :
            /\ client' = [k \in Inst |-> IF client[k] = i THEN 0 ELSE client[k]]
            /\ IF DialAborted(i)
               THEN /\ Close(i, [linked EXCEPT ![i] = ok])
                    /\ pc' = [pc EXCEPT ![i] = "done"]
               ELSE /\ linked' = [linked EXCEPT ![i] = ok]
                    /\ pc' = [pc EXCEPT ![i] = IF ok THEN "publish" ELSE "restart"]
                    /\ UNCHANGED <<opened, closed, panic>>
    <3>1. DestUp(i) \in BOOLEAN
      BY DEF DestUp
    <3>. QED  BY <1>2, <3>1 DEF PubDial
  <2>2. [linked EXCEPT ![i] = ok] \in [Inst -> BOOLEAN]
    BY <1>0
  <2>3. client' \in [Inst -> 0..MaxInst]
    BY <1>0, <2>1, InstFacts
  <2>4. UNCHANGED <<stop, feeder, queued, idx, cur>>
    BY <1>2 DEF PubDial
  <2>5. CASE DialAborted(i)
    BY <1>0, <2>1, <2>2, <2>3, <2>4, <2>5, CloseType
  <2>6. CASE ~DialAborted(i)
    BY <1>0, <2>1, <2>2, <2>3, <2>4, <2>6
  <2>. QED  BY <2>5, <2>6
<1>3. CASE PubPublish(i)
  <2>1. [linked EXCEPT ![i] = FALSE] \in [Inst -> BOOLEAN]
    BY <1>0
  <2>2. CASE DestUp(i) /\ ~CtxDone(i)
    <3>1. i \in 0..MaxInst
      BY InstFacts
    <3>2. client' \in [Inst -> 0..MaxInst]
      BY <1>0, <1>3, <2>2, <3>1 DEF PubPublish
    <3>3. pc' \in [Inst -> {"none", "restart", "dial", "publish", "loop", "periodic",
                            "stream", "wait", "done"}]
      BY <1>0, <1>3, <2>2 DEF PubPublish
    <3>. QED  BY <1>0, <1>3, <2>2, <3>2, <3>3 DEF PubPublish
  <2>3. CASE ~(DestUp(i) /\ ~CtxDone(i))
    BY <1>0, <1>3, <2>1, <2>3, CloseType DEF PubPublish
  <2>. QED  BY <2>2, <2>3
<1>4. CASE PubSelect(i)
  <2>1. cfg[i].type \in {"periodic", "stream", "other"}
    BY RowFields DEF TypeOK, Types
  <2>2. cfg[i].type # "other"
    BY <1>4 DEF PubSelect, Structs
  <2>. QED  BY <1>0, <1>4, <2>1, <2>2 DEF PubSelect
<1>5. CASE PubReadError(i) \/ PubReport(i) \/ PubWait(i)
  BY <1>0, <1>5 DEF PubReadError, PubReport, PubWait
<1>8. CASE PubSend(i) \/ FeederPut(i) \/ FeederReturn(i)
  BY <1>0, <1>8 DEF PubSend, FeederPut, FeederReturn
<1>6. CASE PubReportError(i)
  BY <1>0, <1>6, CloseType DEF PubReportError
<1>7. CASE PubStreamEnd(i) \/ PubFatal(i)
  BY <1>0, <1>7, CloseType DEF PubStreamEnd, PubFatal, StreamEnds
<1>. QED  BY <1>1, <1>2, <1>3, <1>4, <1>5, <1>6, <1>7, <1>8 DEF Runs, Publisher, Streams

(***************************************************************************)
(* The goroutines keep the invariant.                                      *)
(***************************************************************************)
LEMMA RunsStructs ==
    ASSUME StructInv, NEW i \in Inst, Runs(i)
    PROVE  StructInv'
<1> USE DEF StructInv
<1>1. /\ UNCHANGED <<extVars, mapVars, h, newVars, cancelled>>
      /\ \A k \in Inst : (pc'[k] = "none" <=> pc[k] = "none") /\ (Live(k)' => Live(k))
  BY RunsFrame
<1>2. TypeOK'
  BY <1>1, RunsTypes DEF TypeOK, RunTypes, extVars, mapVars, newVars
<1>3. \A k \in Inst : pc'[k] \in {"loop", "periodic", "stream"} => cfg[k].type # "other"
  <2> USE DEF TypeOK, Structs
  <2>0. /\ DOMAIN pc = Inst
        /\ \A k \in Inst : pc[k] \in {"loop", "periodic", "stream"} => cfg[k].type # "other"
    OBVIOUS
  <2>1. CASE PubRestart(i)
    BY <2>1, SMTT(60) DEF PubRestart
  <2>6. CASE PubDial(i)
    <3>1. \/ pc' = [pc EXCEPT ![i] = "done"]
          \/ pc' = [pc EXCEPT ![i] = "publish"]
          \/ pc' = [pc EXCEPT ![i] = "restart"]
      BY <2>6 DEF PubDial
    <3> HIDE DEF TypeOK, Structs, StructInv
    <3>. QED  BY <2>0, <3>1
  <2>7. CASE PubPublish(i)
    <3>1. \/ pc' = [pc EXCEPT ![i] = "done"]
          \/ pc' = [pc EXCEPT ![i] = "loop"] /\ cfg[i].type # "other"
          \/ pc' = [pc EXCEPT ![i] = "restart"]
      BY <2>7 DEF PubPublish
    <3> HIDE DEF TypeOK, Structs, StructInv
    <3>. QED  BY <2>0, <3>1
  <2>2. CASE PubSelect(i)
    BY <2>2 DEF PubSelect
  <2>3. CASE PubReadError(i) \/ PubReport(i) \/ PubReportError(i)
    BY <2>3, SMTT(30) DEF PubReadError, PubReport, PubReportError
  <2>4. CASE PubStreamEnd(i) \/ PubFatal(i)
    BY <2>4, SMTT(30) DEF PubStreamEnd, PubFatal, StreamEnds
  <2>5. CASE PubSend(i) \/ PubWait(i) \/ FeederPut(i) \/ FeederReturn(i)
    BY <2>5, SMTT(30) DEF PubSend, PubWait, FeederPut, FeederReturn
  <2>. QED  BY <2>1, <2>2, <2>3, <2>4, <2>5, <2>6, <2>7 DEF Runs, Publisher, Streams
<1>4. Structs'
  BY <1>1, <1>3 DEF Structs, mapVars, newVars
<1>5. Handling'
  BY <1>1 DEF Handling, Closing, mapVars, newVars
<1>. QED  BY <1>2, <1>4, <1>5

(***************************************************************************)
(* What a write or a collector that comes or goes can disturb, and what it *)
(* cannot of a struct.                                                     *)
(***************************************************************************)
ExtTypes ==
    /\ changes \in Nat /\ flaps \in Nat
    /\ up \subseteq Dests /\ unread \subseteq Names
    /\ linked \in [Inst -> BOOLEAN]

chanVars == <<opened, stop, client, closed>>

(***************************************************************************)
(* So do changes of the table and of the collectors.                       *)
(***************************************************************************)
LEMMA ChangeFrame ==
    ASSUME TypeOK, Environment
    PROVE  /\ UNCHANGED <<lost, panic, mapVars, h, newVars, chanVars, runVars, cancelled>>
           /\ ExtTypes'
           /\ \/ UNCHANGED <<db, ntf>>
              \/ \E k \in Written, r \in Row, op \in {"hset", "hdel"} :
                    /\ r \in SubRows \cup {NoRow, BadRow} \/ k \notin Names
                    /\ op = "hdel" => r = NoRow
                    /\ db' = IF k = Global THEN db ELSE [db EXCEPT ![k] = r]
                    /\ ntf' = Append(ntf, [key |-> k, op |-> op])
<1> USE DEF chanVars, csVars, ExtTypes
<1>1. ASSUME NEW d \in Dests, DestChange(d)
      PROVE  /\ UNCHANGED <<lost, panic, mapVars, h, newVars, chanVars, runVars, cancelled, db, ntf>>
             /\ ExtTypes'
  BY <1>1 DEF DestChange, TypeOK
<1>5. ASSUME NEW n \in Names, DataChange(n)
      PROVE  /\ UNCHANGED <<lost, panic, mapVars, h, newVars, chanVars, runVars, cancelled, db, ntf>>
             /\ ExtTypes'
  BY <1>5 DEF DataChange, TypeOK
<1>2. ASSUME NEW k \in Written, NEW r, NEW op, ConfigChange(k, r, op)
      PROVE  /\ UNCHANGED <<lost, panic, mapVars, h, newVars, chanVars, runVars, cancelled>>
             /\ ExtTypes'
             /\ db' = IF k = Global THEN db ELSE [db EXCEPT ![k] = r]
             /\ ntf' = Append(ntf, [key |-> k, op |-> op])
  BY <1>2 DEF ConfigChange, TypeOK
<1>3. CASE \E k \in Written : ConfigSet(k)
  <2>0. PICK k \in Written : ConfigSet(k)
    BY <1>3
  <2>1. PICK r \in {BadRow} \cup (IF k \in Groups THEN GroupRows ELSE SubRows) :
            ConfigChange(k, r, "hset")
    BY <2>0 DEF ConfigSet
  <2>2. r \in Row /\ (r \in SubRows \cup {NoRow, BadRow} \/ k \notin Names)
    BY RowFacts, KeyFacts
  <2>3. UNCHANGED <<lost, panic, mapVars, h, newVars, chanVars, runVars, cancelled>>
    BY <1>2, <2>1
  <2>4. ExtTypes'
    BY <1>2, <2>1
  <2>5. /\ db' = IF k = Global THEN db ELSE [db EXCEPT ![k] = r]
        /\ ntf' = Append(ntf, [key |-> k, op |-> "hset"])
    BY <1>2, <2>1
  <2>. QED  BY <2>2, <2>3, <2>4, <2>5
<1>4. CASE \E k \in Written : ConfigDel(k)
  <2>1. PICK k \in Written : ConfigChange(k, NoRow, "hdel")
    BY <1>4 DEF ConfigDel
  <2>2. NoRow \in Row
    BY RowFacts
  <2>3. UNCHANGED <<lost, panic, mapVars, h, newVars, chanVars, runVars, cancelled>>
    BY <1>2, <2>1
  <2>4. ExtTypes'
    BY <1>2, <2>1
  <2>5. /\ db' = IF k = Global THEN db ELSE [db EXCEPT ![k] = NoRow]
        /\ ntf' = Append(ntf, [key |-> k, op |-> "hdel"])
    BY <1>2, <2>1
  <2>. QED  BY <2>2, <2>3, <2>4, <2>5
<1>. QED  BY <1>1, <1>3, <1>4, <1>5 DEF Environment

(***************************************************************************)
(* A write of the table and a collector that comes or goes keep the        *)
(* invariant.                                                              *)
(***************************************************************************)
LEMMA ChangeStructs ==
    ASSUME StructInv, Environment
    PROVE  StructInv'
<1>1. UNCHANGED <<lost, panic, mapVars, h, newVars, chanVars, runVars, cancelled>> /\ ExtTypes'
  BY ChangeFrame DEF StructInv
<1>2. db' \in [RowKeys -> Row] /\ ntf' \in Seq([key : Keys, op : {"hset", "hdel"}])
  <2>1. CASE UNCHANGED <<db, ntf>>
    BY <2>1 DEF StructInv, TypeOK
  <2>2. CASE ~UNCHANGED <<db, ntf>>
    <3>1. PICK k \in Written, r \in Row, op \in {"hset", "hdel"} :
                  /\ db' = IF k = Global THEN db ELSE [db EXCEPT ![k] = r]
                  /\ ntf' = Append(ntf, [key |-> k, op |-> op])
      BY <2>2, ChangeFrame DEF StructInv
    <3>2. [key |-> k, op |-> op] \in [key : Keys, op : {"hset", "hdel"}]
      BY DialOutAssumption
    <3>3. ntf' \in Seq([key : Keys, op : {"hset", "hdel"}])
      BY <3>1, <3>2 DEF StructInv, TypeOK
    <3>4. db' \in [RowKeys -> Row]
      BY <3>1 DEF StructInv, TypeOK
    <3>. QED  BY <3>3, <3>4
  <2>. QED  BY <2>1, <2>2
<1>3. TypeOK'
  BY <1>1, <1>2 DEF StructInv, TypeOK, ExtTypes, mapVars, newVars, chanVars, runVars
<1>4. Structs'
  BY <1>1 DEF StructInv, Structs, mapVars, newVars, chanVars, runVars
<1>5. Handling'
  BY <1>1 DEF StructInv, Handling, Closing, mapVars, newVars
<1>. QED  BY <1>3, <1>4, <1>5 DEF StructInv

(***************************************************************************)
(* The handler's record and its types.                                     *)
(***************************************************************************)
HandlerType ==
    [pc : {"idle", "groups", "close", "cancel", "setup"}, key : Keys,
     op : {"hset", "hdel"}, row : Row, names : SUBSET Names, cs : 0..MaxInst,
     groups : SUBSET Groups, grp : Groups \cup {NoGroup}]

(***************************************************************************)
(* The handler between two notifications.                                  *)
(***************************************************************************)
LEMMA IdleFacts ==
    /\ IdleHandler \in HandlerType
    /\ IdleHandler.pc = "idle" /\ IdleHandler.key = Global /\ IdleHandler.names = {}
<1>1. 0 \in 0..MaxInst
  BY InstFacts
<1>2. NoRow \in Row /\ Global \in Keys
  BY RowFacts, KeyFacts
<1>. QED  BY <1>1, <1>2 DEF IdleHandler, HandlerType

(***************************************************************************)
(* The fields of the handler's record.                                     *)
(***************************************************************************)
LEMMA HandlerFacts ==
    ASSUME TypeOK
    PROVE  /\ h \in HandlerType
           /\ h.pc \in {"idle", "groups", "close", "cancel", "setup"}
           /\ h.key \in Keys /\ h.op \in {"hset", "hdel"} /\ h.row \in Row
           /\ h.names \subseteq Names /\ h.cs \in 0..MaxInst
           /\ h.groups \subseteq Groups /\ h.grp \in Groups \cup {NoGroup}
BY DEF TypeOK, HandlerType

(***************************************************************************)
(* The struct that is made next.                                           *)
(***************************************************************************)
LEMMA NextInst ==
    ASSUME TypeOK, made < MaxInst
    PROVE  /\ made + 1 \in Inst /\ made + 1 \in 0..MaxInst /\ made + 1 # 0
           /\ \A x \in 0..MaxInst : x <= made => x # made + 1 /\ x <= made + 1
           /\ \A i \in Inst : (i <= made + 1 => i <= made \/ i = made + 1)
                              /\ (i > made + 1 => i > made) /\ (i <= made => i # made + 1)
<1>1. made \in 0..MaxInst
  BY DEF TypeOK
<1>. QED  BY <1>1, InstFacts

(***************************************************************************)
(* The struct of a subscription.                                           *)
(***************************************************************************)
LEMMA SubFacts ==
    ASSUME TypeOK, Structs, NEW n \in Names
    PROVE  /\ subs[n] \in 0..MaxInst /\ subs[n] <= made
           /\ subs[n] # 0 => subs[n] \in Inst /\ cancel[subs[n]] # 0
<1>1. subs[n] \in 0..MaxInst /\ subs[n] <= made
  BY DEF TypeOK, Structs
<1>2. subs[n] # 0 => subs[n] \in Inst
  BY <1>1, InstFacts
<1>. QED  BY <1>1, <1>2 DEF Structs

(***************************************************************************)
(* NewInstance keeps types, and starts or does not start struct j.         *)
(***************************************************************************)
LEMMA NewInstanceFacts ==
    ASSUME TypeOK, NEW j \in Inst, NEW c \in Row, NewInstance(j, c)
    PROVE  /\ pc' \in [Inst -> {"none", "restart", "dial", "publish", "loop", "periodic",
                                "stream", "wait", "done"}]
           /\ dests' \in [Inst -> Seq(Dests)]
           /\ idx' \in [Inst -> Nat] /\ cur' \in [Inst -> Nat] /\ feeder' = feeder /\ queued' = queued
           /\ \A i \in Inst : i # j => pc'[i] = pc[i] /\ dests'[i] = dests[i]
           /\ pc'[j] \in {"none", "restart"}
           /\ pc'[j] = "restart" => c.grp \in known /\ dests'[j] = dest[c.grp]
<1>1. (IF c.grp \in known THEN dest[c.grp] ELSE <<>>) \in Seq(Dests)
  <2>1. <<>> \in Seq(Dests)
    OBVIOUS
  <2>2. c.grp \in known => dest[c.grp] \in Seq(Dests)
    BY DEF TypeOK
  <2>. QED  BY <2>1, <2>2
<1>2. dests' = [dests EXCEPT ![j] = IF c.grp \in known THEN dest[c.grp] ELSE <<>>]
  BY DEF NewInstance
<1>3. /\ dests' \in [Inst -> Seq(Dests)]
      /\ \A i \in Inst : i # j => dests'[i] = dests[i]
      /\ dests'[j] = IF c.grp \in known THEN dest[c.grp] ELSE <<>>
  BY <1>1, <1>2 DEF TypeOK
<1>4. /\ pc' \in [Inst -> {"none", "restart", "dial", "publish", "loop", "periodic",
                           "stream", "wait", "done"}]
      /\ \A i \in Inst : i # j => pc'[i] = pc[i]
      /\ pc'[j] = IF c.grp \in known /\ c.dcok THEN "restart" ELSE "none"
  BY DEF NewInstance, TypeOK
<1>5. idx' \in [Inst -> Nat] /\ cur' \in [Inst -> Nat] /\ feeder' = feeder /\ queued' = queued
  BY DEF NewInstance, TypeOK
<1>. QED  BY <1>3, <1>4, <1>5

(***************************************************************************)
(* The steps of the handler that make no struct keep the invariant.        *)
(***************************************************************************)
LEMMA StartStructs ==
    ASSUME StructInv, HandlerStart
    PROVE  StructInv'
<1> USE DEF StructInv, extVars, mapVars, newVars, csVars, runVars
<1> DEFINE k == Head(ntf).key
           op == Head(ntf).op
<1>1. k \in Keys /\ op \in {"hset", "hdel"}
  BY NtfFacts DEF HandlerStart
<1>2. /\ ntf' \in Seq([key : Keys, op : {"hset", "hdel"}])
      /\ UNCHANGED <<db, changes, up, unread, flaps, panic, mapVars, newVars, csVars, runVars,
                     cancelled>>
      /\ lost' \subseteq Keys
  <2>1. ntf # <<>> /\ ntf' = Tail(ntf) /\ lost' \subseteq lost
    BY DEF HandlerStart
  <2>2. ntf' \in Seq([key : Keys, op : {"hset", "hdel"}])
    BY <2>1, NtfFacts
  <2>3. UNCHANGED <<db, changes, up, unread, flaps, panic, mapVars, newVars, csVars, runVars,
                    cancelled>>
    BY DEF HandlerStart
  <2>4. lost' \subseteq Keys
    BY <2>1 DEF TypeOK
  <2>. QED  BY <2>2, <2>3, <2>4
<1>3. CASE k = Global /\ op = "hdel"
  <2>1. h' = IdleHandler
    BY <1>3 DEF HandlerStart
  <2>2. h' \in HandlerType
    BY <2>1, IdleFacts
  <2>3. Handling'
    BY <2>1, IdleFacts DEF Handling, Closing
  <2>4. TypeOK'
    BY <1>2, <2>2 DEF TypeOK, HandlerType
  <2>. QED  BY <1>2, <2>3, <2>4 DEF Structs
<1>4. CASE k = Global /\ op # "hdel"
  <2>1. h' = [IdleHandler EXCEPT !.pc = "groups", !.groups = known]
    BY <1>4 DEF HandlerStart
  <2>2. h' \in HandlerType /\ h'.pc = "groups" /\ h'.key = Global
    BY <2>1, IdleFacts DEF TypeOK, HandlerType
  <2>3. Handling'
    BY <2>2 DEF Handling, Closing
  <2>4. TypeOK'
    BY <1>2, <2>2 DEF TypeOK, HandlerType
  <2>. QED  BY <1>2, <2>3, <2>4 DEF Structs
<1>5. CASE k # Global
  <2>0. k \in Names \/ k \in Groups
    BY <1>1, <1>5, KeyFacts
  <2>1. h' = [pc |-> "close", key |-> k, op |-> op, row |-> db[k],
              names |-> IF k \in Groups THEN users[k] ELSE {n \in {k} : subs[n] # 0},
              cs |-> 0, groups |-> {}, grp |-> IF k \in Groups THEN k ELSE NoGroup]
    BY <1>5 DEF HandlerStart
  <2>2. (IF k \in Groups THEN users[k] ELSE {n \in {k} : subs[n] # 0}) \in SUBSET Names
    BY <2>0 DEF TypeOK
  <2>3. db[k] \in Row /\ 0 \in 0..MaxInst
    <3>1. k \in RowKeys /\ 0 \in 0..MaxInst
      BY <2>0, KeyFacts, InstFacts
    <3>2. db \in [RowKeys -> Row]
      BY DEF TypeOK
    <3>. QED  BY <3>1, <3>2
  <2>4. (IF k \in Groups THEN k ELSE NoGroup) \in Groups \cup {NoGroup}
    OBVIOUS
  <2> HIDE DEF k, op
  <2>5. h' \in HandlerType
    BY <1>1, <2>1, <2>2, <2>3, <2>4 DEF HandlerType
  <2>6. /\ h'.pc = "close" /\ h'.key = k
        /\ k \in Groups => h'.grp = k /\ h'.names = users[k]
        /\ k \in Names => h'.names \subseteq {k}
    BY <2>1, KeyFacts
  <2>7. Handling'
    BY <1>2, <2>0, <2>6, KeyFacts DEF Handling, Closing
  <2>8. TypeOK'
    BY <1>2, <2>5 DEF TypeOK, HandlerType
  <2>. QED  BY <1>2, <2>7, <2>8 DEF Structs
<1>. QED  BY <1>3, <1>4, <1>5

(***************************************************************************)
(* A notification that is lost changes nothing else.                       *)
(***************************************************************************)
LEMMA LostStructs ==
    ASSUME StructInv, HandlerLost
    PROVE  StructInv'
<1> USE DEF StructInv, extVars, mapVars, newVars, csVars, runVars
<1>1. /\ ntf' \in Seq([key : Keys, op : {"hset", "hdel"}])
      /\ UNCHANGED <<db, changes, up, unread, flaps, panic, mapVars, h, newVars, csVars, runVars,
                     cancelled>>
      /\ lost' \subseteq Keys
  <2>1. ntf # <<>> /\ ntf' = Tail(ntf) /\ lost' = lost \cup {Head(ntf).key}
    BY DEF HandlerLost
  <2>2. ntf' \in Seq([key : Keys, op : {"hset", "hdel"}]) /\ Head(ntf).key \in Keys
    BY <2>1, NtfFacts
  <2>3. UNCHANGED <<db, changes, up, unread, flaps, panic, mapVars, h, newVars, csVars, runVars,
                    cancelled>>
    BY DEF HandlerLost
  <2>4. lost' \subseteq Keys
    BY <2>1, <2>2 DEF TypeOK
  <2>. QED  BY <2>2, <2>3, <2>4
<1>2. TypeOK'
  BY <1>1 DEF TypeOK
<1>. QED  BY <1>1, <1>2 DEF Structs, Handling, Closing

(***************************************************************************)
(* cs.Close(): the struct that is closed is the one cancelled next.        *)
(***************************************************************************)
LEMMA CloseStructs ==
    ASSUME StructInv, NEW n \in Names, HandlerClose(n)
    PROVE  StructInv'
<1> USE DEF StructInv, extVars, mapVars, newVars, csVars, runVars
<1>0. UNCHANGED <<extVars, mapVars, newVars, stop, client, runVars, cancelled>>
  BY DEF HandlerClose
<1>1. CASE subs[n] = 0
  <2>1. panic' = "nilPointer" /\ UNCHANGED <<h, opened, closed, linked>>
    BY <1>1 DEF HandlerClose
  <2>2. TypeOK'
    BY <1>0, <2>1 DEF TypeOK
  <2>. QED  BY <1>0, <2>1, <2>2 DEF Structs, Handling, Closing
<1>2. CASE subs[n] # 0
  <2>1. subs[n] \in Inst /\ subs[n] <= made /\ subs[n] \in 0..MaxInst
    BY <1>2, SubFacts
  <2>2. Close(subs[n], linked) /\ h' = [h EXCEPT !.pc = "cancel", !.names = @ \ {n}, !.cs = subs[n]]
    BY <1>2 DEF HandlerClose
  <2>3. h' \in HandlerType
    BY <2>1, <2>2, HandlerFacts DEF HandlerType
  <2>4. /\ opened' \in [Inst -> BOOLEAN] /\ closed' \subseteq Chans
        /\ panic' \in {"none", "closeOfClosed", "nilPointer", "indexOutOfRange"}
        /\ linked' \in [Inst -> BOOLEAN]
    <3>1. linked \in [Inst -> BOOLEAN]
      BY DEF TypeOK
    <3>. QED  BY <2>1, <2>2, <3>1, CloseType
  <2>5. TypeOK'
    BY <1>0, <2>3, <2>4 DEF TypeOK, HandlerType
  <2>6. /\ h'.pc = "cancel" /\ h'.names = h.names \ {n} /\ h'.cs = subs[n]
        /\ h'.key = h.key /\ h'.grp = h.grp
    BY <2>2, HandlerFacts DEF HandlerType
  <2>7. Handling'
    BY <1>0, <1>2, <2>1, <2>6 DEF Handling, Closing, HandlerClose
  <2>. QED  BY <1>0, <2>5, <2>7 DEF Structs
<1>. QED  BY <1>1, <1>2

(***************************************************************************)
(* cs.cancel(): the struct at hand has a cancel function.                  *)
(***************************************************************************)
LEMMA CancelStructs ==
    ASSUME StructInv, HandlerCancel
    PROVE  StructInv' /\ cancel[h.cs] \in 1..MaxInst
<1> USE DEF StructInv, extVars, mapVars, newVars, csVars, runVars
<1>0. UNCHANGED <<extVars, panic, mapVars, newVars, csVars, runVars>>
  BY DEF HandlerCancel
<1>1. h.cs \in Inst /\ h.cs <= made
  <2>1. h.cs # 0 /\ h.cs <= made
    BY DEF Handling, HandlerCancel
  <2>. QED  BY <2>1, HandlerFacts, InstFacts
<1>2. cancel[h.cs] \in 1..MaxInst
  <2>1. cancel[h.cs] \in 0..MaxInst /\ cancel[h.cs] # 0
    BY <1>1 DEF TypeOK, Structs
  <2>. QED  BY <2>1, InstFacts
<1>3. h' = [h EXCEPT !.pc = "close", !.cs = 0]
  BY DEF HandlerCancel
<1>4. 0 \in 0..MaxInst
  BY InstFacts
<1>5. h' \in HandlerType
  BY <1>3, <1>4, HandlerFacts DEF HandlerType
<1>6. h'.pc = "close" /\ h'.names = h.names /\ h'.key = h.key /\ h'.grp = h.grp
  BY <1>3, HandlerFacts DEF HandlerType
<1>7. cancelled' \subseteq 1..MaxInst
  BY <1>2 DEF HandlerCancel, Cancels, TypeOK
<1>8. TypeOK'
  BY <1>0, <1>5, <1>7 DEF TypeOK, HandlerType
<1>9. Handling'
  BY <1>0, <1>6 DEF Handling, Closing, HandlerCancel
<1>. QED  BY <1>0, <1>2, <1>8, <1>9 DEF Structs

(***************************************************************************)
(* Steps at groups, and a row that is ignored.                             *)
(***************************************************************************)
LEMMA GroupStructs ==
    ASSUME StructInv,
           HandlerGroup \/ HandlerGroupDel \/ HandlerGroupSet \/ HandlerGlobalSet
               \/ HandlerSetupDone \/ HandlerSubIgnored
    PROVE  StructInv'
<1> USE DEF StructInv, extVars, mapVars, newVars, csVars, runVars
<1>0. /\ UNCHANGED <<extVars, panic, used, users, subs, newVars, csVars, runVars, cancelled>>
      /\ known' \subseteq Groups
      /\ dest' \in [Groups -> Seq(Dests)]
  <2>1. CASE HandlerGroup \/ HandlerGlobalSet \/ HandlerSetupDone \/ HandlerSubIgnored
    BY <2>1 DEF HandlerGroup, HandlerGlobalSet, HandlerSetupDone, HandlerSubIgnored, TypeOK
  <2>2. CASE HandlerGroupDel
    BY <2>2 DEF HandlerGroupDel, TypeOK
  <2>3. CASE HandlerGroupSet
    <3>1. h.grp \in Groups
      BY <2>3, KeyFacts DEF HandlerGroupSet, Handling, Closing
    <3>2. h.row.addrs \in Seq(Dests)
      BY HandlerFacts, RowFields
    <3>3. dest \in [Groups -> Seq(Dests)] /\ known \subseteq Groups
      BY DEF TypeOK
    <3>4. StoredDests(h.grp) \in [Groups -> Seq(Dests)]
      BY <3>1, <3>2, <3>3 DEF StoredDests
    <3>5. \/ dest' = StoredDests(h.grp) /\ known' = known \cup {h.grp}
          \/ dest' = dest /\ known' = known
      BY <2>3 DEF HandlerGroupSet
    <3>6. UNCHANGED <<extVars, panic, used, users, subs, newVars, csVars, runVars, cancelled>>
      BY <2>3 DEF HandlerGroupSet
    <3>. QED  BY <3>1, <3>3, <3>4, <3>5, <3>6
  <2>. QED  BY <2>1, <2>2, <2>3
<1>1. h' \in HandlerType /\ Handling'
  <2>1. CASE h' = IdleHandler
    BY <2>1, IdleFacts DEF Handling, Closing
  <2>2. CASE HandlerGroup /\ h.groups # {}
    <3>1. PICK g \in h.groups : h' = [h EXCEPT !.pc = "close", !.groups = @ \ {g}, !.grp = g,
                                               !.names = users[g]]
      BY <2>2 DEF HandlerGroup
    <3>2. g \in Groups /\ users[g] \in SUBSET Names /\ h.key = Global
      BY <2>2, HandlerFacts DEF TypeOK, HandlerGroup, Handling
    <3>3. h' \in HandlerType
      BY <3>1, <3>2, HandlerFacts DEF HandlerType
    <3>4. h'.pc = "close" /\ h'.key = Global /\ h'.grp = g /\ h'.names = users[g]
      BY <3>1, <3>2, HandlerFacts DEF HandlerType
    <3>5. Handling'
      BY <1>0, <3>2, <3>4, KeyFacts DEF Handling, Closing
    <3>. QED  BY <3>3, <3>5
  <2>3. CASE h' = [h EXCEPT !.pc = "setup", !.names = users[h.grp]]
             /\ (HandlerGroupSet \/ HandlerGlobalSet)
    <3>1. h.key \notin Names /\ h.grp \in Groups /\ (h.key \in Groups => h.grp = h.key)
      BY <2>3, KeyFacts DEF HandlerGroupSet, HandlerGlobalSet, Handling, Closing
    <3>2. users[h.grp] \in SUBSET Names
      BY <3>1 DEF TypeOK
    <3>3. \A n \in users[h.grp] : subs[n] # 0
      BY <2>3, <3>1 DEF HandlerGroupSet, HandlerGlobalSet, Handling, Closing
    <3>4. h' \in HandlerType
      BY <2>3, <3>2, HandlerFacts DEF HandlerType
    <3>5. h'.pc = "setup" /\ h'.key = h.key /\ h'.grp = h.grp /\ h'.names = users[h.grp]
      BY <2>3, HandlerFacts DEF HandlerType
    <3>6. Handling'
      BY <1>0, <3>1, <3>3, <3>5 DEF Handling, Closing
    <3>. QED  BY <3>4, <3>6
  <2>4. CASE h' = [h EXCEPT !.pc = "groups"] /\ h.key = Global
    <3>1. h' \in HandlerType
      BY <2>4, HandlerFacts DEF HandlerType
    <3>2. h'.pc = "groups" /\ h'.key = Global
      BY <2>4, HandlerFacts DEF HandlerType
    <3>3. Handling'
      BY <3>2 DEF Handling, Closing
    <3>. QED  BY <3>1, <3>3
  <2>. QED  BY <2>1, <2>2, <2>3, <2>4 DEF HandlerGroup, HandlerGroupDel, HandlerGroupSet,
              HandlerGlobalSet, HandlerSetupDone, HandlerSubIgnored
<1>2. TypeOK'
  BY <1>0, <1>1 DEF TypeOK, HandlerType
<1>. QED  BY <1>0, <1>1, <1>2 DEF Structs

(***************************************************************************)
(* So do the steps that make or forget a struct.                           *)
(***************************************************************************)
LEMMA SetupStructs ==
    ASSUME StructInv, NEW n \in Names, HandlerSetup(n)
    PROVE  StructInv'
<1> USE DEF StructInv, extVars
<1> DEFINE i == subs[n]
           j == made + 1
<1>1. i \in Inst /\ i # 0 /\ cancel[i] # 0
  BY SubFacts DEF HandlerSetup, Handling
<1>2. /\ j \in Inst /\ j \in 0..MaxInst /\ j # 0
      /\ \A x \in 0..MaxInst : x <= made => x # j /\ x <= j
      /\ \A k \in Inst : (k <= j => k <= made \/ k = j)
                         /\ (k > j => k > made) /\ (k <= made => k # j)
  BY NextInst DEF HandlerSetup
<1>3. cfg[i] \in Row
  BY <1>1 DEF TypeOK
<1>4. NewInstance(j, cfg[i])
  BY DEF HandlerSetup
<1>5. /\ pc' \in [Inst -> {"none", "restart", "dial", "publish", "loop", "periodic",
                           "stream", "wait", "done"}]
      /\ dests' \in [Inst -> Seq(Dests)]
      /\ idx' \in [Inst -> Nat] /\ cur' \in [Inst -> Nat] /\ feeder' = feeder /\ queued' = queued
      /\ \A k \in Inst : k # j => pc'[k] = pc[k]
      /\ pc'[j] \in {"none", "restart"}
  BY <1>2, <1>3, <1>4, NewInstanceFacts
<1>6. /\ made' = j /\ name' = [name EXCEPT ![j] = n] /\ cfg' = [cfg EXCEPT ![j] = cfg[i]]
      /\ opened' = [opened EXCEPT ![j] = opened[i]] /\ stop' = [stop EXCEPT ![j] = stop[i]]
      /\ client' = [client EXCEPT ![j] = client[i]] /\ cancel' = [cancel EXCEPT ![j] = cancel[i]]
      /\ ctx' = [ctx EXCEPT ![j] = 0]
      /\ subs' = [subs EXCEPT ![n] = j] /\ h' = [h EXCEPT !.names = @ \ {n}]
      /\ UNCHANGED <<extVars, panic, known, dest, used, users, linked, closed, cancelled>>
  BY DEF HandlerSetup, CopiedCancel
<1>7. stale' \in [Inst -> Nat]
  <2>1. stale[i] \in Nat /\ stale \in [Inst -> Nat]
    BY <1>1 DEF TypeOK
  <2>2. stale[i] + (IF feeder[i] THEN 1 ELSE 0) \in Nat
    BY <2>1
  <2>3. stale' = [stale EXCEPT ![j] = stale[i] + (IF feeder[i] THEN 1 ELSE 0)]
    BY DEF HandlerSetup
  <2> HIDE DEF i, j
  <2>. QED  BY <2>1, <2>2, <2>3
<1>8. h.pc = "setup"
  BY DEF HandlerSetup
<1>9. /\ h' \in HandlerType /\ h'.pc = "setup" /\ h'.key = h.key /\ h'.grp = h.grp
      /\ h'.names = h.names \ {n}
  BY <1>6, <1>8, HandlerFacts DEF HandlerType
<1> HIDE DEF i, j
<1>10. TypeOK'
  <2>1. 0 \in 0..MaxInst
    BY InstFacts
  <2>2. /\ name' \in [Inst -> Names] /\ cfg' \in [Inst -> Row]
        /\ opened' \in [Inst -> BOOLEAN] /\ stop' \in [Inst -> 0..(MaxInst + 1)]
    BY <1>1, <1>2, <1>6 DEF TypeOK
  <2>3. /\ client' \in [Inst -> 0..MaxInst] /\ cancel' \in [Inst -> 0..MaxInst]
        /\ ctx' \in [Inst -> 0..MaxInst] /\ subs' \in [Names -> 0..MaxInst] /\ made' \in 0..MaxInst
    BY <1>1, <1>2, <1>6, <2>1 DEF TypeOK
  <2>4. feeder' \in [Inst -> BOOLEAN]
    BY <1>5 DEF TypeOK
  <2>. QED  BY <1>5, <1>6, <1>7, <1>9, <2>2, <2>3, <2>4 DEF TypeOK, HandlerType
<1>11. Structs'
  <2>1. \A m \in Names : subs[m] \in 0..MaxInst /\ subs[m] <= made
    BY SubFacts
  <2>2. \A m \in Names : m # n => subs'[m] = subs[m] /\ subs[m] # j /\ subs[m] <= j
    BY <1>2, <1>6, <2>1 DEF TypeOK
  <2>3. subs'[n] = j /\ name'[j] = n /\ cfg'[j] = cfg[i] /\ cancel'[j] = cancel[i]
    BY <1>2, <1>6 DEF TypeOK
  <2>4. \A k \in Inst : k # j => name'[k] = name[k] /\ cfg'[k] = cfg[k] /\ cancel'[k] = cancel[k]
    BY <1>2, <1>6 DEF TypeOK
  <2>5. \A m \in Names : subs'[m] <= made'
    <3>1. j <= j
      BY <1>2, InstFacts
    <3>. QED  BY <1>6, <2>2, <2>3, <3>1
  <2>6. \A m \in Names : subs'[m] # 0 =>
            name'[subs'[m]] = m /\ cfg'[subs'[m]].grp \in used' /\ m \in users'[cfg'[subs'[m]].grp]
    <3>1. cfg[i].grp \in used /\ n \in users[cfg[i].grp]
      BY <1>1 DEF Structs, i
    <3>2. ASSUME NEW m \in Names, m # n, subs[m] # 0
          PROVE  name'[subs[m]] = m /\ cfg'[subs[m]].grp \in used /\ m \in users[cfg'[subs[m]].grp]
      <4>1. subs[m] \in Inst
        BY <3>2, SubFacts
      <4>. QED  BY <2>2, <2>4, <3>2, <4>1 DEF Structs
    <3>. QED  BY <1>6, <2>2, <2>3, <3>1, <3>2
  <2>7. \A k \in Inst : k <= made' => cancel'[k] # 0
    BY <1>1, <1>2, <1>6, <2>3, <2>4 DEF Structs
  <2>8. \A k \in Inst : k > made' => pc'[k] = "none"
    <3>1. ASSUME NEW k \in Inst, k > j PROVE pc'[k] = "none"
      <4>1. k # j /\ k > made
        BY <1>2, <3>1, InstFacts
      <4>. QED  BY <1>5, <4>1 DEF Structs
    <3>. QED  BY <1>6, <3>1
  <2>9. \A k \in Inst : pc'[k] \in {"loop", "periodic", "stream"} => cfg'[k].type # "other"
    BY <1>5, <2>4 DEF Structs
  <2>. QED  BY <2>5, <2>6, <2>7, <2>8, <2>9 DEF Structs
<1>12. Handling'
  <2>1. \A m \in h'.names : subs'[m] # 0
    BY <1>6, <1>8, <1>9, HandlerFacts DEF Handling, TypeOK
  <2>. QED  BY <1>8, <1>9, <2>1 DEF Handling, Closing
<1>. QED  BY <1>10, <1>11, <1>12

(***************************************************************************)
(* A subscription row makes a struct and lists its name with its group.    *)
(***************************************************************************)
LEMMA SubSetStructs ==
    ASSUME StructInv, HandlerSubSet
    PROVE  StructInv'
<1> USE DEF StructInv, extVars, csVars
<1> DEFINE n == h.key
           j == made + 1
           g == h.row.grp
<1>1. n \in Names /\ h.row \in Row /\ g \in Groups
  BY HandlerFacts, RowFields DEF HandlerSubSet
<1>2. /\ j \in Inst /\ j \in 0..MaxInst /\ j # 0
      /\ \A x \in 0..MaxInst : x <= made => x # j /\ x <= j
      /\ \A k \in Inst : (k <= j => k <= made \/ k = j)
                         /\ (k > j => k > made) /\ (k <= made => k # j)
  BY NextInst DEF HandlerSubSet
<1>4. NewInstance(j, h.row)
  BY DEF HandlerSubSet
<1>5. /\ pc' \in [Inst -> {"none", "restart", "dial", "publish", "loop", "periodic",
                           "stream", "wait", "done"}]
      /\ dests' \in [Inst -> Seq(Dests)]
      /\ idx' \in [Inst -> Nat] /\ cur' \in [Inst -> Nat] /\ feeder' = feeder /\ queued' = queued
      /\ \A k \in Inst : k # j => pc'[k] = pc[k]
      /\ pc'[j] \in {"none", "restart"}
  BY <1>1, <1>2, <1>4, NewInstanceFacts
<1>6. /\ made' = j /\ name' = [name EXCEPT ![j] = n] /\ cfg' = [cfg EXCEPT ![j] = h.row]
      /\ ctx' = [ctx EXCEPT ![j] = j] /\ cancel' = [cancel EXCEPT ![j] = j]
      /\ used' = used \cup {g} /\ users' = [users EXCEPT ![g] = @ \cup {n}]
      /\ subs' = [subs EXCEPT ![n] = j] /\ h' = IdleHandler
      /\ UNCHANGED <<extVars, panic, known, dest, stale, csVars, cancelled>>
  BY DEF HandlerSubSet
<1> HIDE DEF n, j, g
<1>10. TypeOK'
  <2>2. /\ name' \in [Inst -> Names] /\ cfg' \in [Inst -> Row]
        /\ used' \subseteq Groups /\ users' \in [Groups -> SUBSET Names]
    BY <1>1, <1>2, <1>6 DEF TypeOK
  <2>3. /\ cancel' \in [Inst -> 0..MaxInst] /\ ctx' \in [Inst -> 0..MaxInst]
        /\ subs' \in [Names -> 0..MaxInst] /\ made' \in 0..MaxInst
    BY <1>1, <1>2, <1>6 DEF TypeOK
  <2>4. feeder' \in [Inst -> BOOLEAN]
    BY <1>5 DEF TypeOK
  <2>5. h' \in HandlerType
    BY <1>6, IdleFacts
  <2>. QED  BY <1>5, <1>6, <2>2, <2>3, <2>4, <2>5 DEF TypeOK, HandlerType
<1>11. Structs'
  <2>1. \A m \in Names : subs[m] \in 0..MaxInst /\ subs[m] <= made
    BY SubFacts
  <2>2. \A m \in Names : m # n => subs'[m] = subs[m] /\ subs[m] # j /\ subs[m] <= j
    BY <1>2, <1>6, <2>1 DEF TypeOK
  <2>3. subs'[n] = j /\ name'[j] = n /\ cfg'[j] = h.row /\ cancel'[j] = j
    BY <1>1, <1>2, <1>6 DEF TypeOK
  <2>4. \A k \in Inst : k # j => name'[k] = name[k] /\ cfg'[k] = cfg[k] /\ cancel'[k] = cancel[k]
    BY <1>2, <1>6 DEF TypeOK
  <2>5. \A m \in Names : subs'[m] <= made'
    <3>1. j <= j
      BY <1>2, InstFacts
    <3>. QED  BY <1>6, <2>2, <2>3, <3>1
  <2>6. \A m \in Names : subs'[m] # 0 =>
            name'[subs'[m]] = m /\ cfg'[subs'[m]].grp \in used' /\ m \in users'[cfg'[subs'[m]].grp]
    <3>0. \A f \in Groups : users[f] \subseteq users'[f]
      BY <1>1, <1>6 DEF TypeOK
    <3>1. h.row.grp \in used' /\ n \in users'[h.row.grp]
      BY <1>1, <1>6 DEF TypeOK, g
    <3>2. ASSUME NEW m \in Names, m # n, subs[m] # 0
          PROVE  /\ name'[subs[m]] = m /\ cfg'[subs[m]].grp \in used'
                 /\ m \in users'[cfg'[subs[m]].grp]
      <4>1. subs[m] \in Inst
        BY <3>2, SubFacts
      <4>2. /\ cfg[subs[m]].grp \in used /\ cfg[subs[m]].grp \in Groups
            /\ m \in users[cfg[subs[m]].grp]
        BY <3>2 DEF Structs, TypeOK
      <4>. QED  BY <1>6, <2>2, <2>4, <3>0, <3>2, <4>1, <4>2 DEF Structs
    <3>. QED  BY <2>2, <2>3, <3>1, <3>2
  <2>7. \A k \in Inst : k <= made' => cancel'[k] # 0
    BY <1>2, <1>6, <2>3, <2>4 DEF Structs
  <2>8. \A k \in Inst : k > made' => pc'[k] = "none"
    <3>1. ASSUME NEW k \in Inst, k > j PROVE pc'[k] = "none"
      <4>1. k # j /\ k > made
        BY <1>2, <3>1, InstFacts
      <4>. QED  BY <1>5, <4>1 DEF Structs
    <3>. QED  BY <1>6, <3>1
  <2>9. \A k \in Inst : pc'[k] \in {"loop", "periodic", "stream"} => cfg'[k].type # "other"
    BY <1>5, <2>4 DEF Structs
  <2>. QED  BY <2>5, <2>6, <2>7, <2>8, <2>9 DEF Structs
<1>12. Handling'
  BY <1>6, IdleFacts DEF Handling, Closing
<1>. QED  BY <1>10, <1>11, <1>12

(***************************************************************************)
(* A deleted subscription leaves the maps, and no other does.              *)
(***************************************************************************)
LEMMA SubDelStructs ==
    ASSUME StructInv, HandlerSubDel
    PROVE  StructInv'
<1> USE DEF StructInv, extVars, newVars, csVars, runVars
<1> DEFINE n == h.key
           g == cfg[subs[n]].grp
<1>0. n \in Names /\ UNCHANGED <<extVars, known, dest, newVars, csVars, runVars, cancelled>>
  BY DEF HandlerSubDel
<1>1. CASE subs[n] = 0
  <2>1. panic' = "nilPointer" /\ UNCHANGED <<h, used, users, subs>>
    BY <1>1 DEF HandlerSubDel
  <2>2. TypeOK'
    BY <1>0, <2>1 DEF TypeOK
  <2>. QED  BY <1>0, <2>1, <2>2 DEF Structs, Handling, Closing
<1>2. CASE subs[n] # 0
  <2>1. /\ used' = used \cup {g} /\ users' = [users EXCEPT ![g] = @ \ {n}]
        /\ subs' = [subs EXCEPT ![n] = 0] /\ h' = IdleHandler /\ panic' = panic
    BY <1>2 DEF HandlerSubDel, UserRemoved
  <2>2. g \in Groups
    BY <1>0, <1>2 DEF Structs, TypeOK
  <2> HIDE DEF n, g
  <2>3. 0 \in 0..MaxInst /\ 0 <= made
    <3>1. made \in 0..MaxInst
      BY DEF TypeOK
    <3>. QED  BY <3>1, InstFacts
  <2>4. /\ used' \subseteq Groups /\ users' \in [Groups -> SUBSET Names]
        /\ subs' \in [Names -> 0..MaxInst]
    BY <1>0, <2>1, <2>2, <2>3 DEF TypeOK
  <2>5. TypeOK'
    BY <1>0, <2>1, <2>4, IdleFacts DEF TypeOK, HandlerType
  <2>6. subs'[n] = 0 /\ \A m \in Names : m # n => subs'[m] = subs[m]
    BY <1>0, <2>1 DEF TypeOK
  <2>7. \A f \in Groups : \A m \in users[f] : m # n => m \in users'[f]
    BY <2>1, <2>2 DEF TypeOK
  <2>8. Structs'
    <3>1. \A m \in Names : subs'[m] # 0 =>
              name[subs'[m]] = m /\ cfg[subs'[m]].grp \in used' /\ m \in users'[cfg[subs'[m]].grp]
      BY <2>1, <2>6, <2>7, SMTT(30) DEF Structs, TypeOK
    <3>2. \A m \in Names : subs'[m] <= made
      BY <2>3, <2>6 DEF Structs
    <3>. QED  BY <1>0, <3>1, <3>2 DEF Structs
  <2>9. Handling'
    BY <2>1, IdleFacts DEF Handling, Closing
  <2>. QED  BY <2>5, <2>8, <2>9
<1>. QED  BY <1>1, <1>2

(***************************************************************************)
(* The invariant holds at the start.                                       *)
(***************************************************************************)
LEMMA InitStructs ==
    ASSUME Init
    PROVE  StructInv
<1> USE DEF Init
<1>1. Names # {} /\ MaxInst \in Nat
  BY DialOutAssumption
<1>2. <<>> \in Seq(Dests) /\ 0 \in 0..MaxInst /\ 0 \in 0..(MaxInst + 1)
  BY <1>1
<1>3. NoRow \in Row /\ FirstDb \in [RowKeys -> Row]
  BY RowFacts
<1>4. ntf \in Seq([key : Keys, op : {"hset", "hdel"}])
  BY FirstNtf
<1>5. h \in HandlerType
  BY IdleFacts
<1>6. name \in [Inst -> Names]
  <2>1. (CHOOSE n \in Names : TRUE) \in Names
    BY <1>1
  <2>. QED  BY <2>1
<1>7. /\ dest \in [Groups -> Seq(Dests)] /\ dests \in [Inst -> Seq(Dests)]
      /\ cfg \in [Inst -> Row] /\ db \in [RowKeys -> Row]
      /\ users \in [Groups -> SUBSET Names]
  BY <1>2, <1>3
<1>8. /\ subs \in [Names -> 0..MaxInst] /\ made \in 0..MaxInst
      /\ stop \in [Inst -> 0..(MaxInst + 1)]
      /\ client \in [Inst -> 0..MaxInst] /\ ctx \in [Inst -> 0..MaxInst]
      /\ cancel \in [Inst -> 0..MaxInst]
      /\ stale \in [Inst -> Nat] /\ idx \in [Inst -> Nat] /\ cur \in [Inst -> Nat]
      /\ changes \in Nat /\ flaps \in Nat
  BY <1>2
<1>9. /\ pc \in [Inst -> {"none", "restart", "dial", "publish", "loop", "periodic",
                          "stream", "wait", "done"}]
      /\ opened \in [Inst -> BOOLEAN] /\ feeder \in [Inst -> BOOLEAN]
      /\ queued \in [Inst -> BOOLEAN] /\ unread \subseteq Names /\ lost \subseteq Keys
      /\ linked \in [Inst -> BOOLEAN]
      /\ panic \in {"none", "closeOfClosed", "nilPointer", "indexOutOfRange"}
      /\ up \subseteq Dests /\ known \subseteq Groups /\ used \subseteq Groups
      /\ closed \subseteq Chans /\ cancelled \subseteq 1..MaxInst
  OBVIOUS
<1>10. TypeOK
  BY <1>4, <1>5, <1>6, <1>7, <1>8, <1>9 DEF TypeOK, HandlerType
<1>11. Structs
  <2>1. \A i \in Inst : ~(i <= 0)
    BY InstFacts
  <2>2. \A n \in Names : subs[n] = 0 /\ 0 <= made
    OBVIOUS
  <2>. QED  BY <2>1, <2>2 DEF Structs
<1>12. Handling
  BY IdleFacts DEF Handling, Closing
<1>. QED  BY <1>10, <1>11, <1>12 DEF StructInv

(***************************************************************************)
(* All steps of the handler keep the invariant.                            *)
(***************************************************************************)
LEMMA HandlerStructs ==
    ASSUME StructInv, Handler
    PROVE  StructInv'
BY StartStructs, LostStructs, GroupStructs, CloseStructs, CancelStructs, SetupStructs, SubDelStructs,
   SubSetStructs DEF Handler

(***************************************************************************)
(* Every step keeps the invariant.                                         *)
(***************************************************************************)
LEMMA StepStructs ==
    ASSUME StructInv, [Next]_vars
    PROVE  StructInv'
<1>1. CASE UNCHANGED vars
  BY <1>1 DEF StructInv, TypeOK, Structs, Handling, Closing, vars
<1>2. CASE Next
  BY <1>2, HandlerStructs, ChangeStructs, RunsStructs DEF Next, Runs
<1>. QED  BY <1>1, <1>2

(***************************************************************************)
(* Types hold, and with them: the client never uses the cancel function of *)
(* a struct that has none, and the map of subscriptions names structs made *)
(* for the subscription and listed with their group.                       *)
(***************************************************************************)
THEOREM StructsKept == Spec => []StructInv
BY InitStructs, StepStructs, PTL DEF Spec

-----------------------------------------------------------------------------
(* What runs is what the table says *)

(***************************************************************************)
(* Nothing runs at the start, and all notifications tell of writes.        *)
(***************************************************************************)
LEMMA InitApplied ==
    ASSUME Init
    PROVE  AppliedInv
<1>1. \A x \in DOMAIN ntf : ntf[x].op # "hdel"
  BY FirstNtf
<1>2. LastIsSet
  BY <1>1 DEF LastIsSet
<1>3. h.pc = "idle" /\ known = {} /\ \A n \in Names : subs[n] = 0
  BY IdleFacts DEF Init
<1>. QED  BY <1>2, <1>3 DEF AppliedInv, RowRead, RowApplied, GroupApplied, Started, Busy, Closing

(***************************************************************************)
(* The goroutines change none of it.                                       *)
(***************************************************************************)
LEMMA RunsApplied ==
    ASSUME StructInv, AppliedInv, NEW i \in Inst, Runs(i)
    PROVE  AppliedInv'
<1>1. /\ UNCHANGED <<extVars, mapVars, h, newVars, cancelled>>
      /\ \A k \in Inst : Live(k)' => Live(k)
  BY RunsFrame DEF StructInv
<1>2. \A n \in Names : subs[n] # 0 => (Live(subs[n])' => Live(subs[n]))
  BY <1>1, SubFacts DEF StructInv, mapVars, Live
<1>3. Started'
  <2>1. ASSUME NEW n \in Names, subs'[n] # 0, Live(subs[n])'
        PROVE  /\ cfg[subs[n]].grp \in known
               /\ \/ dests[subs[n]] = dest[cfg[subs[n]].grp]
                  \/ h.pc = "setup" /\ n \in h.names
    <3>1. subs[n] # 0 /\ Live(subs[n])
      BY <1>1, <1>2, <2>1 DEF mapVars
    <3>. QED  BY <3>1 DEF AppliedInv, Started
  <2>2. subs' = subs /\ h' = h /\ cfg' = cfg /\ known' = known /\ dest' = dest /\ dests' = dests
    BY <1>1 DEF mapVars, newVars
  <2>3. \A n \in Names : Live(subs[n])' => pc'[subs[n]] \notin {"none", "done"}
    BY <2>2 DEF Live
  <2>. QED  BY <2>1, <2>2, <2>3 DEF Started, Live
<1>4. LastIsSet' /\ RowRead' /\ RowApplied' /\ GroupApplied'
  BY <1>1 DEF AppliedInv, LastIsSet, RowRead, RowApplied, GroupApplied, Busy, Closing, Pending,
              extVars, mapVars, newVars
<1>. QED  BY <1>3, <1>4 DEF AppliedInv

(***************************************************************************)
(* A write makes its own notification the last one of the row.             *)
(***************************************************************************)
LEMMA ChangeApplied ==
    ASSUME StructInv, AppliedInv, Environment
    PROVE  AppliedInv'
<1> USE DEF StructInv, mapVars, newVars, chanVars, runVars
<1>1. UNCHANGED <<lost, panic, mapVars, h, newVars, chanVars, runVars, cancelled>>
  BY ChangeFrame
<1>2. Started'
  BY <1>1 DEF AppliedInv, Started, Live
<1>3. CASE UNCHANGED <<db, ntf>>
  BY <1>1, <1>2, <1>3 DEF AppliedInv, LastIsSet, RowRead, RowApplied, GroupApplied, Busy, Closing,
                          Pending
<1>4. CASE ~UNCHANGED <<db, ntf>>
  <2>1. PICK k \in Written, r \in Row, op \in {"hset", "hdel"} :
                /\ op = "hdel" => r = NoRow
                /\ db' = IF k = Global THEN db ELSE [db EXCEPT ![k] = r]
                /\ ntf' = Append(ntf, [key |-> k, op |-> op])
    BY <1>4, ChangeFrame
  <2>2. k \in Keys /\ (k # Global => k \in RowKeys)
    BY DialOutAssumption DEF Keys
  <2>3. \A q \in RowKeys : q # k => db'[q] = db[q]
    BY <2>1 DEF TypeOK
  <2>4. k # Global => db'[k] = r
    BY <2>1, <2>2 DEF TypeOK
  <2>5. DOMAIN ntf = 1..Len(ntf) /\ Len(ntf) \in Nat
    BY NtfFacts
  <2>6. /\ DOMAIN ntf' = 1..(Len(ntf) + 1)
        /\ ntf'[Len(ntf) + 1] = [key |-> k, op |-> op]
        /\ \A x \in DOMAIN ntf : ntf'[x] = ntf[x]
    <3>1. ntf \in Seq([key : Keys, op : {"hset", "hdel"}])
      BY DEF TypeOK
    <3>. QED  BY <2>1, <2>5, <3>1
  <2>7. /\ Len(ntf) + 1 \in DOMAIN ntf' /\ DOMAIN ntf \subseteq DOMAIN ntf'
        /\ \A x \in DOMAIN ntf : x < Len(ntf) + 1
        /\ \A x \in DOMAIN ntf' : x \in DOMAIN ntf \/ x = Len(ntf) + 1
    BY <2>5, <2>6
  <2>8. Pending(k)' /\ \A q \in Keys : q # k => (Pending(q)' <=> Pending(q))
    <3> DEFINE last == Len(ntf) + 1
    <3>1. ntf'[last].key = k /\ last \in DOMAIN ntf'
      BY <2>6, <2>7
    <3>2. \A x \in DOMAIN ntf' : x \in DOMAIN ntf \/ x = last
      BY <2>7
    <3> HIDE DEF last
    <3>. QED  BY <1>1, <2>6, <2>7, <3>1, <3>2 DEF Pending
  <2>9. LastIsSet'
    <3>1. SUFFICES ASSUME NEW x \in DOMAIN ntf', ntf'[x].op = "hdel", ntf'[x].key # Global
                   PROVE  \/ db'[ntf'[x].key] = NoRow
                          \/ \E y \in DOMAIN ntf' : x < y /\ ntf'[y].key = ntf'[x].key
      BY DEF LastIsSet
    <3>2. CASE x \in DOMAIN ntf /\ ntf[x].key = k
      BY <2>6, <2>7, <3>2
    <3>3. CASE x \in DOMAIN ntf /\ ntf[x].key # k
      <4>1. ntf[x].key \in RowKeys /\ ntf'[x] = ntf[x]
        BY <2>6, <3>1, <3>3, NtfFacts DEF Keys
      <4>2. \/ db[ntf[x].key] = NoRow
            \/ \E y \in DOMAIN ntf : x < y /\ ntf[y].key = ntf[x].key
        BY <3>1, <3>3, <4>1 DEF AppliedInv, LastIsSet
      <4>. QED  BY <2>3, <2>6, <2>7, <3>3, <4>1, <4>2
    <3>4. CASE x = Len(ntf) + 1
      BY <2>1, <2>4, <2>6, <3>1, <3>4
    <3>. QED  BY <2>7, <3>2, <3>3, <3>4
  <2>10. RowKeys \subseteq Keys /\ Names \subseteq RowKeys /\ Groups \subseteq RowKeys
    BY KeyFacts
  <2>11. \A q \in Keys : Busy(q)' <=> Busy(q)
    BY <1>1 DEF Busy, Closing
  <2>12. RowRead'
    BY <1>1, <2>3, <2>8, <2>10, <2>11 DEF AppliedInv, RowRead
  <2>13. RowApplied'
    BY <1>1, <2>3, <2>8, <2>10, <2>11 DEF AppliedInv, RowApplied
  <2>14. GroupApplied'
    BY <1>1, <2>3, <2>8, <2>10, <2>11 DEF AppliedInv, GroupApplied
  <2>. QED  BY <1>2, <2>9, <2>12, <2>13, <2>14 DEF AppliedInv
<1>. QED  BY <1>3, <1>4

(***************************************************************************)
(* DialOutRun takes the first notification: the others are as they were.   *)
(***************************************************************************)
LEMMA TakenFirst ==
    ASSUME TypeOK, LastIsSet, ntf # <<>>, ntf' = Tail(ntf), db' = db
    PROVE  /\ 1 \in DOMAIN ntf /\ Head(ntf) = ntf[1] /\ ntf[1].key \in Keys
           /\ \A x \in DOMAIN ntf' : x + 1 \in DOMAIN ntf /\ ntf'[x] = ntf[x + 1]
           /\ \A x \in DOMAIN ntf : x # 1 => /\ 1 < x /\ x - 1 \in DOMAIN ntf'
                                             /\ ntf'[x - 1] = ntf[x]
           /\ LastIsSet'
<1>1. /\ DOMAIN ntf = 1..Len(ntf) /\ Len(ntf) \in Nat /\ 1 \in DOMAIN ntf
      /\ DOMAIN ntf' = 1..(Len(ntf) - 1)
      /\ \A x \in DOMAIN ntf' : ntf'[x] = ntf[x + 1]
      /\ Head(ntf) = ntf[1] /\ ntf[1].key \in Keys
  BY NtfFacts
<1>2. /\ \A x \in DOMAIN ntf' : x + 1 \in DOMAIN ntf
      /\ \A x \in DOMAIN ntf : x # 1 => /\ 1 < x /\ x - 1 \in DOMAIN ntf'
                                        /\ ntf'[x - 1] = ntf[x]
  <2>1. \A x \in 1..(Len(ntf) - 1) : x + 1 \in 1..Len(ntf)
    BY <1>1
  <2>2. \A x \in 1..Len(ntf) : x # 1 => 1 < x /\ x - 1 \in 1..(Len(ntf) - 1) /\ (x - 1) + 1 = x
    BY <1>1
  <2>. QED  BY <1>1, <2>1, <2>2
<1>3. LastIsSet'
  <2>1. SUFFICES ASSUME NEW x \in DOMAIN ntf', ntf'[x].op = "hdel", ntf'[x].key # Global
                 PROVE  \/ db'[ntf'[x].key] = NoRow
                        \/ \E y \in DOMAIN ntf' : x < y /\ ntf'[y].key = ntf'[x].key
    BY DEF LastIsSet
  <2>2. x + 1 \in DOMAIN ntf /\ ntf'[x] = ntf[x + 1]
    BY <1>1, <1>2
  <2>3. CASE db[ntf[x + 1].key] = NoRow
    BY <2>2, <2>3
  <2>4. CASE \E y \in DOMAIN ntf : x + 1 < y /\ ntf[y].key = ntf[x + 1].key
    <3>1. PICK y \in DOMAIN ntf : x + 1 < y /\ ntf[y].key = ntf[x + 1].key
      BY <2>4
    <3>2. y # 1 /\ x < y - 1
      <4>1. x \in 1..(Len(ntf) - 1) /\ y \in 1..Len(ntf)
        BY <1>1
      <4>. QED  BY <1>1, <3>1, <4>1
    <3>3. y - 1 \in DOMAIN ntf' /\ ntf'[y - 1] = ntf[y]
      BY <1>2, <3>2
    <3>. QED  BY <2>2, <3>1, <3>2, <3>3
  <2>. QED  BY <2>1, <2>2, <2>3, <2>4 DEF LastIsSet
<1>. QED  BY <1>1, <1>2, <1>3

(***************************************************************************)
(* The handler reads the row of the notification it takes.                 *)
(***************************************************************************)
LEMMA StartApplied ==
    ASSUME StructInv, AppliedInv, HandlerStart
    PROVE  AppliedInv'
<1> USE DEF StructInv, mapVars, newVars, csVars, runVars
<1> DEFINE k == Head(ntf).key
           op == Head(ntf).op
<1>1. /\ UNCHANGED <<db, changes, up, flaps, panic, mapVars, newVars, csVars, runVars, cancelled>>
      /\ ntf' = Tail(ntf) /\ ntf # <<>> /\ h.pc = "idle" /\ lost' = lost \ {k}
  BY DEF HandlerStart
<1>2. /\ 1 \in DOMAIN ntf /\ k = ntf[1].key /\ op = ntf[1].op /\ k \in Keys
      /\ \A x \in DOMAIN ntf' : x + 1 \in DOMAIN ntf /\ ntf'[x] = ntf[x + 1]
      /\ \A x \in DOMAIN ntf : x # 1 => /\ 1 < x /\ x - 1 \in DOMAIN ntf'
                                        /\ ntf'[x - 1] = ntf[x]
      /\ LastIsSet'
  BY <1>1, TakenFirst DEF AppliedInv
<1>3. \/ h'.pc \in {"idle", "groups"} /\ k = Global
      \/ /\ h'.pc = "close" /\ h'.key = k /\ h'.op = op /\ h'.row = db[k] /\ k # Global
  BY IdleFacts DEF HandlerStart, IdleHandler
<1> HIDE DEF k, op
<1>5. \A q \in Keys : q # k => (Pending(q) => Pending(q)')
  BY <1>1, <1>2 DEF Pending
<1>7. RowRead'
  <2>1. SUFFICES ASSUME NEW q \in RowKeys, Busy(q)'
                 PROVE  Pending(q)' \/ (h'.row = db'[q] /\ (h'.op = "hdel" => db'[q] = NoRow))
    BY DEF RowRead
  <2>2. q = k /\ h'.op = op /\ h'.row = db[k] /\ k # Global
    BY <1>3, <2>1 DEF Busy, Closing
  <2>3. CASE op = "hdel"
    <3>1. \/ db[k] = NoRow
          \/ \E y \in DOMAIN ntf : 1 < y /\ ntf[y].key = k
      BY <1>2, <2>2, <2>3 DEF AppliedInv, LastIsSet
    <3>2. CASE \E y \in DOMAIN ntf : 1 < y /\ ntf[y].key = k
      <4>1. PICK y \in DOMAIN ntf : 1 < y /\ ntf[y].key = k
        BY <3>2
      <4>2. y # 1
        BY <4>1
      <4>. QED  BY <1>2, <2>2, <4>1, <4>2 DEF Pending
    <3>. QED  BY <1>1, <2>2, <3>1, <3>2
  <2>4. CASE op # "hdel"
    BY <1>1, <2>2, <2>4
  <2>. QED  BY <2>3, <2>4
<1>8. \A q \in Keys : ~Busy(q) /\ (q = k /\ k # Global => Busy(q)')
  BY <1>1, <1>3 DEF Busy, Closing
<1>9. RowApplied' /\ GroupApplied'
  <2>1. \A q \in RowKeys : ~Pending(q)' /\ ~Busy(q)' => ~Pending(q) /\ ~Busy(q)
    BY <1>5, <1>8, KeyFacts
  <2>2. Names \subseteq RowKeys /\ Groups \subseteq RowKeys
    BY KeyFacts
  <2>. QED  BY <1>1, <2>1, <2>2 DEF AppliedInv, RowApplied, GroupApplied
<1>10. Started'
  BY <1>1 DEF AppliedInv, Started, Live
<1>. QED  BY <1>2, <1>7, <1>9, <1>10 DEF AppliedInv

(***************************************************************************)
(* A lost notification stays pending for good, or until the next one of    *)
(* its key.                                                                *)
(***************************************************************************)
LEMMA LostApplied ==
    ASSUME StructInv, AppliedInv, HandlerLost
    PROVE  AppliedInv'
<1> USE DEF StructInv, mapVars, newVars, csVars, runVars
<1> DEFINE k == Head(ntf).key
<1>1. /\ UNCHANGED <<db, mapVars, h, newVars, csVars, runVars>>
      /\ ntf' = Tail(ntf) /\ ntf # <<>> /\ h.pc = "idle" /\ lost' = lost \cup {k}
  BY DEF HandlerLost
<1>2. /\ 1 \in DOMAIN ntf /\ k = ntf[1].key
      /\ \A x \in DOMAIN ntf : x # 1 => x - 1 \in DOMAIN ntf' /\ ntf'[x - 1] = ntf[x]
      /\ LastIsSet'
  BY <1>1, TakenFirst DEF AppliedInv
<1> HIDE DEF k
<1>3. \A q \in Keys : Pending(q) => Pending(q)'
  BY <1>1, <1>2 DEF Pending
<1>4. \A q \in Keys : ~Busy(q) /\ ~Busy(q)'
  BY <1>1 DEF Busy, Closing
<1>5. RowKeys \subseteq Keys /\ Names \subseteq Keys /\ Groups \subseteq Keys
  BY KeyFacts
<1>6. RowRead'
  BY <1>4, <1>5 DEF RowRead
<1>7. RowApplied' /\ GroupApplied'
  BY <1>1, <1>3, <1>4, <1>5 DEF AppliedInv, RowApplied, GroupApplied
<1>8. Started'
  BY <1>1 DEF AppliedInv, Started, Live
<1>. QED  BY <1>2, <1>6, <1>7, <1>8 DEF AppliedInv

(***************************************************************************)
(* Steps that leave the key and the maps alone.                            *)
(***************************************************************************)
LEMMA SameApplied ==
    ASSUME StructInv, AppliedInv,
           HandlerGroup \/ HandlerGlobalSet \/ HandlerSetupDone \/ HandlerCancel
               \/ \E n \in Names : HandlerClose(n)
    PROVE  AppliedInv'
<1> USE DEF StructInv, extVars, mapVars, newVars, csVars, runVars
<1>1. UNCHANGED <<extVars, mapVars, newVars, pc>>
  BY DEF HandlerGroup, HandlerGlobalSet, HandlerSetupDone, HandlerCancel, HandlerClose
<1>2. \A q \in RowKeys : Busy(q)' => Busy(q) /\ h'.row = h.row /\ h'.op = h.op
  <2>1. CASE HandlerGroup
    <3>1. h.key = Global /\ (h'.key = Global \/ h'.pc = "idle")
      BY <2>1, IdleFacts, HandlerFacts DEF HandlerGroup, Handling, HandlerType
    <3>. QED  BY <3>1, KeyFacts DEF Busy, Closing
  <2>2. CASE HandlerGlobalSet \/ HandlerSetupDone
    <3>1. h'.pc \in {"setup", "groups", "idle"}
      BY <2>2, IdleFacts, HandlerFacts DEF HandlerGlobalSet, HandlerSetupDone, HandlerType
    <3>. QED  BY <3>1 DEF Busy, Closing
  <2>3. CASE HandlerCancel
    <3>1. h.pc = "cancel" /\ h'.key = h.key /\ h'.row = h.row /\ h'.op = h.op
      BY <2>3, HandlerFacts DEF HandlerCancel, HandlerType
    <3>. QED  BY <3>1 DEF Busy, Closing
  <2>4. ASSUME NEW n \in Names, HandlerClose(n)
        PROVE  h.pc = "close" /\ h'.key = h.key /\ h'.row = h.row /\ h'.op = h.op
    BY <2>4, HandlerFacts DEF HandlerClose, HandlerType
  <2>5. CASE \E n \in Names : HandlerClose(n)
    BY <2>4, <2>5 DEF Busy, Closing
  <2>. QED  BY <2>1, <2>2, <2>3, <2>5
<1>3. \A q \in RowKeys : Busy(q) => Busy(q)'
  <2>1. CASE HandlerGroup \/ HandlerGlobalSet
    BY <2>1, KeyFacts DEF HandlerGroup, HandlerGlobalSet, Busy, Closing
  <2>2. CASE HandlerSetupDone
    BY <2>2 DEF HandlerSetupDone, Busy, Closing
  <2>3. CASE HandlerCancel
    <3>1. h'.pc = "close" /\ h'.key = h.key
      BY <2>3, HandlerFacts DEF HandlerCancel, HandlerType
    <3>. QED  BY <3>1 DEF Busy, Closing
  <2>4. ASSUME NEW n \in Names, HandlerClose(n)
        PROVE  h'.pc \in {"close", "cancel"} /\ h'.key = h.key
    BY <2>4, HandlerFacts DEF HandlerClose, HandlerType
  <2>5. CASE \E n \in Names : HandlerClose(n)
    BY <2>4, <2>5 DEF Busy, Closing
  <2>. QED  BY <2>1, <2>2, <2>3, <2>5
<1>4. LastIsSet' /\ RowRead'
  BY <1>1, <1>2 DEF AppliedInv, LastIsSet, RowRead, Pending
<1>5. RowApplied' /\ GroupApplied'
  <2>1. Names \subseteq RowKeys /\ Groups \subseteq RowKeys
    BY KeyFacts
  <2>. QED  BY <1>1, <1>3, <2>1 DEF AppliedInv, RowApplied, GroupApplied, Pending
<1>6. Started'
  <2>1. h.pc # "setup" \/ h.names = {}
    BY DEF HandlerGroup, HandlerGlobalSet, HandlerSetupDone, HandlerCancel, HandlerClose
  <2>. QED  BY <1>1, <2>1 DEF AppliedInv, Started, Live
<1>. QED  BY <1>4, <1>5, <1>6 DEF AppliedInv

(***************************************************************************)
(* Groups.  A group that is forgotten is in no subscription's              *)
(* configuration, since that of a subscription has been used.              *)
(***************************************************************************)
LEMMA GroupDelApplied ==
    ASSUME StructInv, AppliedInv, HandlerGroupDel
    PROVE  AppliedInv'
<1> USE DEF StructInv, extVars, newVars, csVars, runVars
<1>1. /\ UNCHANGED <<extVars, dest, used, users, subs, newVars, pc>>
      /\ h' = IdleHandler /\ h.pc = "close" /\ h.op = "hdel" /\ h.key \in Groups /\ h.grp = h.key
      /\ known' \subseteq known /\ (h.grp \in used => known' = known)
      /\ \A g \in known : g # h.grp => g \in known'
  BY KeyFacts DEF HandlerGroupDel, Handling, Closing
<1>2. LastIsSet' /\ RowRead'
  BY <1>1, IdleFacts DEF AppliedInv, LastIsSet, RowRead, Busy, Closing
<1>3. RowApplied'
  <2>1. \A n \in Names : ~Busy(n)
    BY <1>1, KeyFacts DEF Busy
  <2>. QED  BY <1>1, <2>1 DEF AppliedInv, RowApplied, Pending
<1>4. GroupApplied'
  <2>1. SUFFICES ASSUME NEW g \in Groups, ~Pending(g)', g \in known', db'[g].addrs # <<>>,
                        db'[g].valid
                 PROVE  dest'[g] = db'[g].addrs
    BY DEF GroupApplied
  <2>2. CASE g = h.key
    <3>1. Busy(g) /\ ~Pending(g)
      BY <1>1, <2>1, <2>2 DEF Busy, Closing, Pending
    <3>2. db[g] = NoRow
      BY <1>1, <3>1, KeyFacts DEF AppliedInv, RowRead
    <3>. QED  BY <1>1, <2>1, <3>2 DEF NoRow
  <2>3. CASE g # h.key
    <3>1. ~Busy(g) /\ ~Pending(g)
      BY <1>1, <2>1, <2>3 DEF Busy, Pending
    <3>. QED  BY <1>1, <2>1, <3>1 DEF AppliedInv, GroupApplied
  <2>. QED  BY <2>2, <2>3
<1>5. Started'
  <2>1. \A n \in Names : subs[n] # 0 => cfg[subs[n]].grp \in used
    BY DEF Structs
  <2>2. \A n \in Names : subs[n] # 0 /\ cfg[subs[n]].grp \in known => cfg[subs[n]].grp \in known'
    BY <1>1, <2>1
  <2>. QED  BY <1>1, <2>2 DEF AppliedInv, Started, Live
<1>. QED  BY <1>2, <1>3, <1>4, <1>5 DEF AppliedInv

(***************************************************************************)
(* A group that is stored is the row read, and its users wait to be set up *)
(* again.                                                                  *)
(***************************************************************************)
LEMMA GroupSetApplied ==
    ASSUME StructInv, AppliedInv, HandlerGroupSet
    PROVE  AppliedInv'
<1> USE DEF StructInv, extVars, newVars, csVars, runVars
<1>1. /\ UNCHANGED <<extVars, used, users, subs, newVars, pc>>
      /\ h.pc = "close" /\ h.op = "hset" /\ h.key \in Groups /\ h.grp = h.key
  BY KeyFacts DEF HandlerGroupSet, Handling, Closing
<1>2. \/ /\ h.row.valid /\ known' = known \cup {h.grp}
         /\ dest' = [dest EXCEPT ![h.grp] = h.row.addrs]
         /\ h'.pc = "setup" /\ h'.names = users[h.grp]
      \/ ~h.row.valid /\ known' = known /\ dest' = dest /\ h'.pc = "idle"
  BY IdleFacts, HandlerFacts DEF HandlerGroupSet, StoredDests, HandlerType
<1>3. LastIsSet' /\ RowRead'
  BY <1>1, <1>2 DEF AppliedInv, LastIsSet, RowRead, Busy, Closing
<1>4. RowApplied'
  <2>1. \A n \in Names : ~Busy(n)
    BY <1>1, KeyFacts DEF Busy
  <2>. QED  BY <1>1, <2>1 DEF AppliedInv, RowApplied, Pending
<1>5. dest \in [Groups -> Seq(Dests)] /\ known \subseteq Groups
  BY DEF TypeOK
<1>6. GroupApplied'
  <2>1. SUFFICES ASSUME NEW g \in Groups, ~Pending(g)', g \in known', db'[g].addrs # <<>>,
                        db'[g].valid
                 PROVE  dest'[g] = db'[g].addrs
    BY DEF GroupApplied
  <2>2. CASE g = h.key
    <3>1. Busy(g) /\ ~Pending(g)
      BY <1>1, <2>1, <2>2 DEF Busy, Closing, Pending
    <3>2. h.row = db[g]
      BY <1>1, <3>1, KeyFacts DEF AppliedInv, RowRead
    <3>. QED  BY <1>1, <1>2, <1>5, <2>1, <2>2, <3>2
  <2>3. CASE g # h.key
    <3>1. ~Busy(g) /\ ~Pending(g)
      BY <1>1, <2>1, <2>3 DEF Busy, Pending
    <3>2. g \in known /\ dest'[g] = dest[g]
      BY <1>1, <1>2, <1>5, <2>1, <2>3
    <3>. QED  BY <1>1, <2>1, <3>1, <3>2 DEF AppliedInv, GroupApplied
  <2>. QED  BY <2>2, <2>3
<1>7. Started'
  <2>1. SUFFICES ASSUME NEW n \in Names, subs[n] # 0, Live(subs[n])
                 PROVE  /\ cfg[subs[n]].grp \in known'
                        /\ \/ dests[subs[n]] = dest'[cfg[subs[n]].grp]
                           \/ h'.pc = "setup" /\ n \in h'.names
    BY <1>1 DEF Started, Live
  <2>2. cfg[subs[n]].grp \in known /\ dests[subs[n]] = dest[cfg[subs[n]].grp]
    BY <1>1, <2>1 DEF AppliedInv, Started
  <2>3. n \in users[cfg[subs[n]].grp]
    BY <2>1 DEF Structs
  <2>4. cfg[subs[n]].grp # h.grp => dest'[cfg[subs[n]].grp] = dest[cfg[subs[n]].grp]
    BY <1>2, <1>5, <2>2
  <2>. QED  BY <1>2, <2>2, <2>3, <2>4
<1>. QED  BY <1>3, <1>4, <1>6, <1>7 DEF AppliedInv

(***************************************************************************)
(* Structs that are made or forgotten.                                     *)
(***************************************************************************)
LEMMA SetupApplied ==
    ASSUME StructInv, AppliedInv, NEW n \in Names, HandlerSetup(n)
    PROVE  AppliedInv'
<1> USE DEF StructInv, extVars
<1> DEFINE i == subs[n]
           j == made + 1
<1>1. i \in Inst /\ i # 0
  BY SubFacts DEF HandlerSetup, Handling
<1>2. j \in Inst /\ \A x \in 0..MaxInst : x <= made => x # j
  BY NextInst DEF HandlerSetup
<1>3. cfg[i] \in Row
  BY <1>1 DEF TypeOK
<1>4. NewInstance(j, cfg[i])
  BY DEF HandlerSetup
<1>5. /\ \A k \in Inst : k # j => pc'[k] = pc[k] /\ dests'[k] = dests[k]
      /\ pc'[j] \in {"none", "restart"}
      /\ pc'[j] = "restart" => cfg[i].grp \in known /\ dests'[j] = dest[cfg[i].grp]
  BY <1>2, <1>3, <1>4, NewInstanceFacts
<1>6. /\ cfg' = [cfg EXCEPT ![j] = cfg[i]] /\ subs' = [subs EXCEPT ![n] = j]
      /\ h.pc = "setup" /\ h' = [h EXCEPT !.names = @ \ {n}]
      /\ UNCHANGED <<extVars, known, dest, used, users>>
  BY DEF HandlerSetup
<1>7. h'.pc = "setup" /\ h'.names = h.names \ {n}
  BY <1>6, HandlerFacts DEF HandlerType
<1> HIDE DEF i, j
<1>8. /\ subs'[n] = j /\ cfg'[j] = cfg[i]
      /\ \A m \in Names : m # n => subs'[m] = subs[m] /\ subs[m] # j
      /\ \A k \in Inst : k # j => cfg'[k] = cfg[k]
  BY <1>2, <1>6, SubFacts DEF TypeOK
<1>9. \A m \in Names : subs[m] # 0 => subs[m] \in Inst
  BY SubFacts
<1>10. LastIsSet' /\ RowRead' /\ GroupApplied'
  BY <1>6, <1>7 DEF AppliedInv, LastIsSet, RowRead, GroupApplied, Busy, Closing, Pending
<1>11. RowApplied'
  <2>1. \A m \in Names : /\ subs'[m] # 0 => subs[m] # 0
                         /\ subs[m] # 0 => cfg'[subs'[m]] = cfg[subs[m]]
    BY <1>1, <1>8, <1>9 DEF i
  <2>. QED  BY <1>6, <1>7, <2>1 DEF AppliedInv, RowApplied, Busy, Closing, Pending
<1>12. Started'
  <2>1. SUFFICES ASSUME NEW m \in Names, subs'[m] # 0, pc'[subs'[m]] \notin {"none", "done"}
                 PROVE  /\ cfg'[subs'[m]].grp \in known'
                        /\ \/ dests'[subs'[m]] = dest'[cfg'[subs'[m]].grp]
                           \/ h'.pc = "setup" /\ m \in h'.names
    BY DEF Started, Live
  <2>2. CASE m = n
    BY <1>5, <1>6, <1>8, <2>1, <2>2
  <2>3. CASE m # n
    <3>1. subs'[m] = subs[m] /\ subs[m] # 0 /\ subs[m] \in Inst /\ subs[m] # j
      BY <1>8, <1>9, <2>1, <2>3
    <3>2. /\ pc'[subs[m]] = pc[subs[m]] /\ dests'[subs[m]] = dests[subs[m]]
          /\ cfg'[subs[m]] = cfg[subs[m]]
      BY <1>5, <1>8, <3>1
    <3>3. Live(subs[m])
      BY <2>1, <3>1, <3>2 DEF Live
    <3>4. /\ cfg[subs[m]].grp \in known
          /\ \/ dests[subs[m]] = dest[cfg[subs[m]].grp]
             \/ h.pc = "setup" /\ m \in h.names
      BY <3>1, <3>3 DEF AppliedInv, Started
    <3>. QED  BY <1>6, <1>7, <2>3, <3>1, <3>2, <3>4
  <2>. QED  BY <2>2, <2>3
<1>. QED  BY <1>10, <1>11, <1>12 DEF AppliedInv

(***************************************************************************)
(* A new struct has the row read and the destinations in the map.          *)
(***************************************************************************)
LEMMA SubSetApplied ==
    ASSUME StructInv, AppliedInv, HandlerSubSet
    PROVE  AppliedInv'
<1> USE DEF StructInv, extVars
<1> DEFINE n == h.key
           j == made + 1
<1>1. n \in Names /\ h.row \in Row /\ h.pc = "close"
  BY HandlerFacts DEF HandlerSubSet
<1>2. j \in Inst /\ \A x \in 0..MaxInst : x <= made => x # j
  BY NextInst DEF HandlerSubSet
<1>4. NewInstance(j, h.row)
  BY DEF HandlerSubSet
<1>5. /\ \A k \in Inst : k # j => pc'[k] = pc[k] /\ dests'[k] = dests[k]
      /\ pc'[j] \in {"none", "restart"}
      /\ pc'[j] = "restart" => h.row.grp \in known /\ dests'[j] = dest[h.row.grp]
  BY <1>1, <1>2, <1>4, NewInstanceFacts
<1>6. /\ cfg' = [cfg EXCEPT ![j] = h.row] /\ subs' = [subs EXCEPT ![n] = j] /\ h' = IdleHandler
      /\ UNCHANGED <<extVars, known, dest>>
  BY DEF HandlerSubSet
<1>7. h'.pc = "idle"
  BY <1>6, IdleFacts
<1>7a. Busy(n) /\ \A q \in RowKeys : q # n => ~Busy(q)
  BY <1>1 DEF Busy, Closing
<1> HIDE DEF n, j
<1>8. /\ subs'[n] = j /\ cfg'[j] = h.row
      /\ \A m \in Names : m # n => subs'[m] = subs[m] /\ subs[m] # j
      /\ \A k \in Inst : k # j => cfg'[k] = cfg[k]
  BY <1>1, <1>2, <1>6, SubFacts DEF TypeOK
<1>9. \A m \in Names : subs[m] # 0 => subs[m] \in Inst
  BY SubFacts
<1>9a. n \notin Groups /\ Names \subseteq RowKeys /\ Groups \subseteq RowKeys
  BY <1>1, KeyFacts
<1>10. LastIsSet' /\ RowRead'
  BY <1>6, <1>7 DEF AppliedInv, LastIsSet, RowRead, Busy, Closing
<1>10a. GroupApplied'
  <2>1. \A g \in Groups : ~Busy(g)
    BY <1>7a, <1>9a
  <2>. QED  BY <1>6, <2>1 DEF AppliedInv, GroupApplied, Pending
<1>11. RowApplied'
  <2>1. SUFFICES ASSUME NEW m \in Names, ~Pending(m)', subs'[m] # 0, db'[m].valid,
                        db'[m].grp # NoGroup
                 PROVE  cfg'[subs'[m]] = db'[m]
    BY DEF RowApplied
  <2>2. ~Pending(m)
    BY <1>6, <2>1 DEF Pending
  <2>3. CASE m = n
    <3>1. h.row = db[n]
      BY <1>7a, <1>9a, <2>2, <2>3 DEF AppliedInv, RowRead
    <3>. QED  BY <1>6, <1>8, <2>3, <3>1
  <2>4. CASE m # n
    <3>1. ~Busy(m) /\ cfg'[subs'[m]] = cfg[subs[m]] /\ subs[m] # 0
      BY <1>7a, <1>8, <1>9, <1>9a, <2>1, <2>4
    <3>. QED  BY <1>6, <2>1, <2>2, <3>1 DEF AppliedInv, RowApplied
  <2>. QED  BY <2>3, <2>4
<1>12. Started'
  <2>1. SUFFICES ASSUME NEW m \in Names, subs'[m] # 0, pc'[subs'[m]] \notin {"none", "done"}
                 PROVE  /\ cfg'[subs'[m]].grp \in known'
                        /\ dests'[subs'[m]] = dest'[cfg'[subs'[m]].grp]
    BY DEF Started, Live
  <2>2. CASE m = n
    BY <1>5, <1>6, <1>8, <2>1, <2>2
  <2>3. CASE m # n
    <3>1. subs'[m] = subs[m] /\ subs[m] # 0 /\ subs[m] \in Inst /\ subs[m] # j
      BY <1>8, <1>9, <2>1, <2>3
    <3>2. /\ pc'[subs[m]] = pc[subs[m]] /\ dests'[subs[m]] = dests[subs[m]]
          /\ cfg'[subs[m]] = cfg[subs[m]]
      BY <1>5, <1>8, <3>1
    <3>3. Live(subs[m])
      BY <2>1, <3>1, <3>2 DEF Live
    <3>4. cfg[subs[m]].grp \in known /\ dests[subs[m]] = dest[cfg[subs[m]].grp]
      BY <1>1, <3>1, <3>3 DEF AppliedInv, Started
    <3>. QED  BY <1>6, <3>1, <3>2, <3>4
  <2>. QED  BY <2>2, <2>3
<1>. QED  BY <1>10, <1>10a, <1>11, <1>12 DEF AppliedInv

(***************************************************************************)
(* A subscription that is deleted, or whose row is ignored.                *)
(***************************************************************************)
LEMMA SubEndApplied ==
    ASSUME StructInv, AppliedInv, HandlerSubDel \/ HandlerSubIgnored
    PROVE  AppliedInv'
<1> USE DEF StructInv, extVars, mapVars, newVars, runVars
<1> DEFINE n == h.key
<1>1. /\ n \in Names /\ h.pc = "close"
      /\ UNCHANGED <<extVars, known, dest, newVars, pc>>
  BY DEF HandlerSubDel, HandlerSubIgnored
<1>2. CASE UNCHANGED <<h, subs>>
  BY <1>1, <1>2 DEF AppliedInv, LastIsSet, RowRead, RowApplied, GroupApplied, Started, Busy,
                    Closing, Pending, Live
<1>3. CASE ~UNCHANGED <<h, subs>>
  <2>1. /\ h' = IdleHandler
        /\ \/ subs' = subs /\ (~h.row.valid \/ h.row.grp = NoGroup)
           \/ subs' = [subs EXCEPT ![n] = 0]
    BY <1>3 DEF HandlerSubDel, HandlerSubIgnored
  <2>2. h'.pc = "idle"
    BY <2>1, IdleFacts
  <2>3. Busy(n) /\ \A q \in RowKeys : q # n => ~Busy(q)
    BY <1>1 DEF Busy, Closing
  <2> HIDE DEF n
  <2>4. \A m \in Names : subs'[m] # 0 => subs'[m] = subs[m]
    BY <1>1, <2>1 DEF TypeOK
  <2>5. n \notin Groups /\ Names \subseteq RowKeys /\ Groups \subseteq RowKeys
    BY <1>1, KeyFacts
  <2>6. LastIsSet' /\ RowRead'
    BY <1>1, <2>2 DEF AppliedInv, LastIsSet, RowRead, Busy, Closing
  <2>7. GroupApplied'
    <3>1. \A g \in Groups : ~Busy(g)
      BY <2>3, <2>5
    <3>. QED  BY <1>1, <3>1 DEF AppliedInv, GroupApplied, Pending
  <2>8. RowApplied'
    <3>1. SUFFICES ASSUME NEW m \in Names, ~Pending(m)', subs'[m] # 0, db'[m].valid,
                          db'[m].grp # NoGroup
                   PROVE  cfg'[subs'[m]] = db'[m]
      BY DEF RowApplied
    <3>2. ~Pending(m) /\ subs'[m] = subs[m] /\ subs[m] # 0
      BY <1>1, <2>4, <3>1 DEF Pending
    <3>3. m # n
      <4>1. ASSUME m = n PROVE FALSE
        <5>1. h.row = db[n]
          BY <2>3, <2>5, <3>2, <4>1 DEF AppliedInv, RowRead
        <5>2. subs' # [subs EXCEPT ![n] = 0]
          BY <1>1, <3>1, <4>1 DEF TypeOK
        <5>. QED  BY <1>1, <2>1, <3>1, <4>1, <5>1, <5>2
      <4>. QED  BY <4>1
    <3>4. ~Busy(m)
      BY <2>3, <2>5, <3>3
    <3>. QED  BY <1>1, <3>1, <3>2, <3>4 DEF AppliedInv, RowApplied
  <2>9. Started'
    BY <1>1, <2>4 DEF AppliedInv, Started, Live
  <2>. QED  BY <2>6, <2>7, <2>8, <2>9 DEF AppliedInv
<1>. QED  BY <1>2, <1>3

(***************************************************************************)
(* Every step keeps what was applied.                                      *)
(***************************************************************************)
LEMMA StepApplied ==
    ASSUME StructInv, AppliedInv, [Next]_vars
    PROVE  AppliedInv'
<1>1. CASE UNCHANGED vars
  BY <1>1 DEF AppliedInv, LastIsSet, RowRead, RowApplied, GroupApplied, Started, Busy, Closing,
              Pending, Live, vars
<1>2. CASE Handler
  BY <1>2, StartApplied, LostApplied, SameApplied, GroupDelApplied, GroupSetApplied, SetupApplied,
     SubSetApplied, SubEndApplied DEF Handler
<1>3. CASE Environment
  BY <1>3, ChangeApplied
<1>4. ASSUME NEW i \in Inst, Runs(i) PROVE AppliedInv'
  BY <1>4, RunsApplied
<1>. QED  BY <1>1, <1>2, <1>3, <1>4 DEF Next, Runs

(***************************************************************************)
(* Once all notifications are processed, the subscription that runs has    *)
(* the configuration and the destinations that the table holds, however    *)
(* the writes, the handler and the goroutines interleaved, except for rows *)
(* whose last notification was lost.                                       *)
(***************************************************************************)
THEOREM TableIsApplied == Spec => []ConfigApplied
<1>1. Init => StructInv /\ AppliedInv
  BY InitStructs, InitApplied
<1>2. StructInv /\ AppliedInv /\ [Next]_vars => (StructInv /\ AppliedInv)'
  BY StepStructs, StepApplied
<1>3. StructInv /\ AppliedInv => ConfigApplied
  <2>1. SUFFICES ASSUME StructInv, AppliedInv, Quiet, NEW n \in Names, n \notin lost, subs[n] # 0,
                        db[n].valid, db[n].grp # NoGroup
                 PROVE  /\ cfg[subs[n]] = db[n]
                        /\ (/\ Live(subs[n]) /\ db[cfg[subs[n]].grp].valid
                            /\ db[cfg[subs[n]].grp].addrs # <<>> /\ cfg[subs[n]].grp \notin lost)
                              => dests[subs[n]] = db[cfg[subs[n]].grp].addrs
    BY DEF ConfigApplied
  <2>2. \A k : k \notin lost => ~Pending(k) /\ ~Busy(k)
    <3>1. DOMAIN ntf = {}
      BY <2>1 DEF Quiet
    <3>. QED  BY <2>1, <3>1 DEF Pending, Busy, Closing, Quiet
  <2>3. cfg[subs[n]] = db[n]
    BY <2>1, <2>2 DEF AppliedInv, RowApplied
  <2>4. ASSUME Live(subs[n])
        PROVE  /\ cfg[subs[n]].grp \in known /\ cfg[subs[n]].grp \in Groups
               /\ dests[subs[n]] = dest[cfg[subs[n]].grp]
    BY <2>1, <2>4 DEF AppliedInv, Started, Quiet, StructInv, TypeOK
  <2>. QED  BY <2>1, <2>2, <2>3, <2>4 DEF AppliedInv, GroupApplied
<1>. QED  BY <1>1, <1>2, <1>3, PTL DEF Spec

-----------------------------------------------------------------------------
(* The users of a group *)

(***************************************************************************)
(* The rows of a subscription name one group or none.                      *)
(***************************************************************************)
OneGroup(G) ==
    \A n \in Names :
        /\ FirstDb[n].grp \in {G[n], NoGroup}
        /\ n \in Written => \A r \in SubRows : r.grp \in {G[n], NoGroup}

(***************************************************************************)
(* Every step keeps a subscription under its one group.                    *)
(***************************************************************************)
LEMMA StepKept ==
    ASSUME NEW G \in [Names -> Groups], OneGroup(G), StructInv, Kept(G), [Next]_vars
    PROVE  Kept(G)'
<1> USE DEF StructInv
<1>1. CASE UNCHANGED vars
  BY <1>1 DEF Kept, vars
<1>2. ASSUME NEW i \in Inst, Runs(i) PROVE Kept(G)'
  BY <1>2, RunsFrame DEF Kept, extVars, mapVars, newVars
<1>3. CASE Environment
  <2>1. UNCHANGED <<h, subs, cfg, users>>
    BY <1>3, ChangeFrame DEF mapVars, newVars
  <2>2. \A n \in Names : db'[n].grp \in {G[n], NoGroup}
    <3>1. CASE UNCHANGED <<db, ntf>>
      BY <3>1 DEF Kept
    <3>2. CASE ~UNCHANGED <<db, ntf>>
      <4>1. PICK k \in Written, r \in Row, op \in {"hset", "hdel"} :
                    /\ r \in SubRows \cup {NoRow, BadRow} \/ k \notin Names
                    /\ db' = IF k = Global THEN db ELSE [db EXCEPT ![k] = r]
        BY <1>3, <3>2, ChangeFrame
      <4>2. NoRow.grp = NoGroup /\ BadRow.grp = NoGroup
        BY DEF NoRow, BadRow
      <4>3. ASSUME NEW n \in Names PROVE db'[n].grp \in {G[n], NoGroup}
        <5>1. n \in RowKeys
          BY KeyFacts
        <5>2. db'[n] = db[n] \/ (n = k /\ db'[n] = r)
          BY <4>1, <5>1 DEF TypeOK
        <5>. QED  BY <4>1, <4>2, <5>2 DEF Kept, OneGroup
      <4>. QED  BY <4>3
    <3>. QED  BY <3>1, <3>2
  <2>. QED  BY <2>1, <2>2 DEF Kept
<1>4. CASE HandlerStart
  <2>1. UNCHANGED <<db, subs, cfg, users>>
    BY <1>4 DEF HandlerStart, mapVars, newVars
  <2>2. h'.key \in Names => h'.row = db[h'.key]
    <3>1. h'.key = Global \/ h'.row = db[h'.key]
      BY <1>4 DEF HandlerStart, IdleHandler
    <3>. QED  BY <3>1, KeyFacts
  <2>. QED  BY <2>1, <2>2 DEF Kept
<1>9. CASE HandlerLost
  BY <1>9 DEF HandlerLost, Kept, mapVars, newVars
<1>5. CASE \/ HandlerGroup \/ HandlerGroupDel \/ HandlerGroupSet \/ HandlerGlobalSet
           \/ HandlerSetupDone \/ HandlerSubIgnored \/ HandlerCancel
           \/ \E n \in Names : HandlerClose(n)
  <2>1. UNCHANGED <<db, subs, cfg, users>>
    BY <1>5 DEF HandlerGroup, HandlerGroupDel, HandlerGroupSet, HandlerGlobalSet,
                HandlerSetupDone, HandlerSubIgnored, HandlerCancel, HandlerClose,
                extVars, mapVars, newVars
  <2>2. h'.key = Global \/ (h'.key = h.key /\ h'.row = h.row)
    <3>1. CASE HandlerGroup \/ HandlerGroupDel \/ HandlerGroupSet \/ HandlerGlobalSet
      BY <3>1, IdleFacts, HandlerFacts
         DEF HandlerGroup, HandlerGroupDel, HandlerGroupSet, HandlerGlobalSet, HandlerType
    <3>2. CASE HandlerSetupDone \/ HandlerSubIgnored \/ HandlerCancel
      BY <3>2, IdleFacts, HandlerFacts
         DEF HandlerSetupDone, HandlerSubIgnored, HandlerCancel, HandlerType
    <3>3. ASSUME NEW n \in Names, HandlerClose(n) PROVE h'.key = h.key /\ h'.row = h.row
      BY <3>3, HandlerFacts DEF HandlerClose, HandlerType
    <3>. QED  BY <1>5, <3>1, <3>2, <3>3
  <2>. QED  BY <2>1, <2>2, KeyFacts DEF Kept
<1>6. CASE HandlerSubDel
  <2>1. h.key \in Names /\ UNCHANGED <<db, cfg>>
    BY <1>6 DEF HandlerSubDel, extVars, newVars
  <2>2. CASE subs[h.key] = 0
    BY <1>6, <2>1, <2>2 DEF HandlerSubDel, Kept
  <2>3. CASE subs[h.key] # 0
    <3>1. /\ users' = [users EXCEPT ![G[h.key]] = @ \ {h.key}]
          /\ subs' = [subs EXCEPT ![h.key] = 0] /\ h'.key = Global
      BY <1>6, <2>1, <2>3, IdleFacts DEF HandlerSubDel, UserRemoved, Kept
    <3>2. \A n \in Names : subs'[n] # 0 => subs'[n] = subs[n]
      BY <2>1, <3>1 DEF TypeOK
    <3>3. \A g \in Groups : \A n \in users'[g] : n \in users[g] /\ n # h.key
      BY <2>1, <3>1 DEF Kept, TypeOK
    <3>4. \A g \in Groups : \A n \in users'[g] : g = G[n] /\ subs'[n] # 0
      <4>1. \A n \in Names : n # h.key => subs'[n] = subs[n]
        BY <2>1, <3>1 DEF TypeOK
      <4>2. \A g \in Groups : users[g] \subseteq Names
        BY DEF TypeOK
      <4>. QED  BY <3>3, <4>1, <4>2 DEF Kept
    <3>. QED  BY <2>1, <3>1, <3>2, <3>4, KeyFacts DEF Kept
  <2>. QED  BY <2>2, <2>3
<1>7. CASE HandlerSubSet
  <2> DEFINE j == made + 1
  <2>1. /\ h.key \in Names /\ db' = db /\ h.row.grp = G[h.key] /\ h'.key = Global
        /\ cfg' = [cfg EXCEPT ![j] = h.row] /\ subs' = [subs EXCEPT ![h.key] = j]
        /\ users' = [users EXCEPT ![h.row.grp] = @ \cup {h.key}]
    BY <1>7, IdleFacts DEF HandlerSubSet, Kept, extVars
  <2>2. j \in Inst /\ j # 0 /\ \A x \in 0..MaxInst : x <= made => x # j
    BY <1>7, NextInst DEF HandlerSubSet
  <2> HIDE DEF j
  <2>3. /\ subs'[h.key] = j /\ cfg'[j] = h.row
        /\ \A m \in Names : m # h.key => subs'[m] = subs[m] /\ subs[m] # j
        /\ \A k \in Inst : k # j => cfg'[k] = cfg[k]
    BY <2>1, <2>2, SubFacts DEF TypeOK
  <2>4. \A n \in Names : subs'[n] # 0 => cfg'[subs'[n]].grp = G[n]
    <3>1. \A m \in Names : subs[m] # 0 => subs[m] \in Inst
      BY SubFacts
    <3>. QED  BY <2>1, <2>3, <3>1 DEF Kept
  <2>5. \A g \in Groups : \A n \in users'[g] : n \in users[g] \/ (n = h.key /\ g = G[n])
    BY <2>1 DEF TypeOK
  <2>6. \A g \in Groups : users[g] \subseteq Names
    BY DEF TypeOK
  <2>7. \A g \in Groups : \A n \in users'[g] : g = G[n] /\ subs'[n] # 0
    BY <2>1, <2>2, <2>3, <2>5, <2>6 DEF Kept
  <2>. QED  BY <2>1, <2>4, <2>7, KeyFacts DEF Kept
<1>8. ASSUME NEW n \in Names, HandlerSetup(n) PROVE Kept(G)'
  <2> DEFINE j == made + 1
             i == subs[n]
  <2>1. /\ db' = db /\ users' = users
        /\ cfg' = [cfg EXCEPT ![j] = cfg[i]] /\ subs' = [subs EXCEPT ![n] = j]
    BY <1>8 DEF HandlerSetup, extVars
  <2>2. j \in Inst /\ j # 0 /\ \A x \in 0..MaxInst : x <= made => x # j
    BY <1>8, NextInst DEF HandlerSetup
  <2>3. i # 0 /\ cfg[i].grp = G[n]
    BY <1>8 DEF HandlerSetup, Handling, Kept
  <2>4. h'.key = h.key /\ h'.row = h.row
    BY <1>8, HandlerFacts DEF HandlerSetup, HandlerType
  <2> HIDE DEF i, j
  <2>5. /\ subs'[n] = j /\ cfg'[j] = cfg[i]
        /\ \A m \in Names : m # n => subs'[m] = subs[m] /\ subs[m] # j
        /\ \A k \in Inst : k # j => cfg'[k] = cfg[k]
    BY <2>1, <2>2, SubFacts DEF TypeOK
  <2>6. \A m \in Names : subs[m] # 0 => subs[m] \in Inst
    BY SubFacts
  <2>7. \A m \in Names : subs'[m] # 0 => cfg'[subs'[m]].grp = G[m]
    BY <2>3, <2>5, <2>6 DEF Kept
  <2>8. \A g \in Groups : users[g] \subseteq Names
    BY DEF TypeOK
  <2>9. \A g \in Groups : \A m \in users[g] : g = G[m] /\ subs'[m] # 0
    BY <2>2, <2>5, <2>8 DEF Kept
  <2>. QED  BY <2>1, <2>4, <2>7, <2>9 DEF Kept
<1>. QED  BY <1>1, <1>2, <1>3, <1>4, <1>5, <1>6, <1>7, <1>8, <1>9 DEF Next, Handler, Runs

(***************************************************************************)
(* While every subscription keeps its group, DestGrp2ClientSubMap lists    *)
(* for a group exactly the subscriptions that use it, so that a change of  *)
(* the group reaches them and no other.  Without the hypothesis it does    *)
(* not: the group a subscription leaves keeps it.                          *)
(***************************************************************************)
THEOREM UsersAreListed ==
    ASSUME NEW G \in [Names -> Groups], OneGroup(G)
    PROVE  Spec => []UsersAccurate
<1>1. Init => StructInv /\ Kept(G)
  <2>1. SUFFICES ASSUME Init PROVE Kept(G)
    BY InitStructs
  <2>2. h.key \notin Names
    BY <2>1, IdleFacts, KeyFacts DEF Init
  <2>. QED  BY <2>1, <2>2 DEF Init, Kept, OneGroup
<1>2. StructInv /\ Kept(G) /\ [Next]_vars => (StructInv /\ Kept(G))'
  BY StepStructs, StepKept
<1>3. StructInv /\ Kept(G) => UsersAccurate
  BY DEF StructInv, Structs, Kept, UsersAccurate
<1>. QED  BY <1>1, <1>2, <1>3, PTL DEF Spec

-----------------------------------------------------------------------------
(* One publisher *)

(***************************************************************************)
(* Every step but a copy leaves each running goroutine its subscription or *)
(* a cancelled context.                                                    *)
(***************************************************************************)
LEMMA StepTold ==
    ASSUME StructInv, Told, OnePublisher, [Next]_vars, [NoCopy]_vars
    PROVE  Told' /\ OnePublisher'
<1> USE DEF StructInv
<1>0. CASE /\ UNCHANGED <<h, made, subs, name, ctx, cancel, cancelled>>
           /\ \A i \in Inst : Live(i)' => Live(i)
  BY <1>0 DEF Told, OnePublisher, Closing, CtxDone
<1>1. CASE UNCHANGED vars
  BY <1>0, <1>1 DEF vars, Live
<1>2. ASSUME NEW i \in Inst, Runs(i) PROVE Told' /\ OnePublisher'
  <2>1. UNCHANGED <<h, made, subs, name, ctx, cancel, cancelled>>
    BY <1>2, RunsFrame DEF mapVars, newVars
  <2>. QED  BY <1>0, <1>2, <2>1, RunsFrame
<1>3. CASE Environment
  <2>1. UNCHANGED <<h, made, subs, name, ctx, cancel, cancelled, pc>>
    BY <1>3, ChangeFrame DEF mapVars, newVars, runVars
  <2>. QED  BY <1>0, <2>1 DEF Live
<1>4. CASE HandlerStart
  <2>1. UNCHANGED <<made, subs, name, ctx, cancel, cancelled, pc>>
    BY <1>4 DEF HandlerStart, mapVars, newVars, runVars
  <2>2. h'.pc = "close" /\ h'.key \in Names /\ subs[h'.key] # 0 => h'.key \in h'.names
    BY <1>4, KeyFacts DEF HandlerStart, IdleHandler
  <2>3. h'.pc # "cancel"
    BY <1>4 DEF HandlerStart, IdleHandler
  <2>. QED  BY <2>1, <2>2, <2>3 DEF Told, OnePublisher, Closing, CtxDone, Live
<1>11. CASE HandlerLost
  BY <1>0, <1>11 DEF HandlerLost, mapVars, newVars, runVars, Live
<1>5. CASE \/ HandlerGroup \/ HandlerGroupDel \/ HandlerGroupSet \/ HandlerGlobalSet
           \/ HandlerSetupDone \/ HandlerSubIgnored
  <2>1. UNCHANGED <<made, subs, name, ctx, cancel, cancelled, pc>>
    BY <1>5 DEF HandlerGroup, HandlerGroupDel, HandlerGroupSet, HandlerGlobalSet,
                HandlerSetupDone, HandlerSubIgnored, mapVars, newVars, runVars
  <2>2. h'.pc \notin {"close", "cancel"} \/ h'.key \notin Names
    <3>1. CASE HandlerGroup
      <4>1. h'.key = Global \/ h'.pc = "idle"
        BY <3>1, IdleFacts, HandlerFacts DEF HandlerGroup, Handling, HandlerType
      <4>. QED  BY <4>1, KeyFacts
    <3>2. CASE \/ HandlerGroupDel \/ HandlerGroupSet \/ HandlerGlobalSet
               \/ HandlerSetupDone \/ HandlerSubIgnored
      BY <3>2, IdleFacts, HandlerFacts
         DEF HandlerGroupDel, HandlerGroupSet, HandlerGlobalSet, HandlerSetupDone,
             HandlerSubIgnored, HandlerType
    <3>. QED  BY <1>5, <3>1, <3>2
  <2>. QED  BY <2>1, <2>2 DEF Told, OnePublisher, Closing, CtxDone, Live
<1>6. ASSUME NEW n \in Names, HandlerClose(n) PROVE Told' /\ OnePublisher'
  <2>1. UNCHANGED <<made, subs, name, ctx, cancel, cancelled, pc>>
    BY <1>6 DEF HandlerClose, mapVars, newVars, runVars
  <2>2. h.key \in Names => n = h.key
    BY <1>6 DEF HandlerClose, Handling, Closing
  <2>3. CASE subs[n] = 0
    <3>1. h' = h
      BY <1>6, <2>3 DEF HandlerClose
    <3>. QED  BY <1>0, <2>1, <3>1 DEF Live
  <2>4. CASE subs[n] # 0
    <3>1. h'.pc = "cancel" /\ h'.cs = subs[n] /\ h'.key = h.key
      BY <1>6, <2>4, HandlerFacts DEF HandlerClose, HandlerType
    <3>. QED  BY <2>1, <2>2, <3>1 DEF Told, OnePublisher, Closing, CtxDone, Live
  <2>. QED  BY <2>3, <2>4
<1>7. CASE HandlerCancel
  <2>1. UNCHANGED <<made, subs, name, ctx, cancel, pc>>
    BY <1>7 DEF HandlerCancel, mapVars, newVars, runVars
  <2>2. /\ h'.pc = "close" /\ h'.key = h.key /\ h'.names = h.names
        /\ h.pc = "cancel" /\ h.cs # 0 /\ h.cs <= made
    BY <1>7, HandlerFacts DEF HandlerCancel, Handling, HandlerType
  <2>3. cancel[h.cs] = h.cs
    <3>1. h.cs \in Inst
      BY <2>2, HandlerFacts, InstFacts
    <3>. QED  BY <2>2, <3>1 DEF Told
  <2>4. cancelled' = cancelled \cup {h.cs}
    BY <1>7, <2>3 DEF HandlerCancel, Cancels
  <2>. QED  BY <2>1, <2>2, <2>4 DEF Told, OnePublisher, Closing, CtxDone, Live
<1>8. CASE HandlerSubDel
  <2>1. h.key \in Names /\ UNCHANGED <<made, name, ctx, cancel, cancelled, pc>>
    BY <1>8 DEF HandlerSubDel, newVars, runVars
  <2>2. CASE subs[h.key] = 0
    <3>1. h' = h /\ subs' = subs
      BY <1>8, <2>2 DEF HandlerSubDel
    <3>. QED  BY <1>0, <2>1, <3>1 DEF Live
  <2>3. CASE subs[h.key] # 0
    <3>1. subs' = [subs EXCEPT ![h.key] = 0] /\ h'.pc = "idle"
      BY <1>8, <2>3, IdleFacts DEF HandlerSubDel
    <3>2. subs[h.key] \in cancelled /\ subs[h.key] \in Inst /\ subs[h.key] <= made
      BY <1>8, <2>1, <2>3, SubFacts DEF HandlerSubDel, Told, Closing
    <3>3. CtxDone(subs[h.key])
      BY <3>2 DEF Told, CtxDone
    <3>4. \A n \in Names : n # h.key => subs'[n] = subs[n]
      BY <2>1, <3>1 DEF TypeOK
    <3>5. \A i \in Inst : name[i] \in Names
      BY DEF TypeOK
    <3>6. OnePublisher'
      <4>1. SUFFICES ASSUME NEW i \in Inst, Live(i) PROVE subs'[name[i]] = i \/ CtxDone(i)
        BY <2>1 DEF OnePublisher, Live, CtxDone
      <4>2. subs[name[i]] = i \/ CtxDone(i)
        BY <4>1 DEF OnePublisher
      <4>. QED  BY <3>3, <3>4, <3>5, <4>2
    <3>7. Told'
      BY <2>1, <3>1 DEF Told, Closing
    <3>. QED  BY <3>6, <3>7
  <2>. QED  BY <2>2, <2>3
<1>9. CASE HandlerSubSet
  <2> DEFINE j == made + 1
             n == h.key
  <2>1. /\ n \in Names /\ h'.pc = "idle" /\ made' = j /\ name' = [name EXCEPT ![j] = n]
        /\ ctx' = [ctx EXCEPT ![j] = j] /\ cancel' = [cancel EXCEPT ![j] = j]
        /\ subs' = [subs EXCEPT ![n] = j] /\ cancelled' = cancelled
    BY <1>9, IdleFacts DEF HandlerSubSet
  <2>2. /\ j \in Inst
        /\ \A k \in Inst : (k <= j => k <= made \/ k = j) /\ (k <= made => k # j)
    BY <1>9, NextInst DEF HandlerSubSet
  <2>3. h.row \in Row /\ NewInstance(j, h.row)
    BY <1>9, HandlerFacts DEF HandlerSubSet
  <2>4. \A k \in Inst : k # j => pc'[k] = pc[k]
    BY <2>2, <2>3, NewInstanceFacts
  <2>5. subs[n] # 0 => subs[n] \in cancelled /\ subs[n] \in Inst /\ subs[n] <= made
    BY <1>9, <2>1, SubFacts DEF HandlerSubSet, Told, Closing
  <2>6. subs[n] # 0 => CtxDone(subs[n])
    BY <2>5 DEF Told, CtxDone
  <2> HIDE DEF j, n
  <2>7. /\ name'[j] = n /\ ctx'[j] = j /\ cancel'[j] = j /\ subs'[n] = j
        /\ \A k \in Inst : k # j => name'[k] = name[k] /\ ctx'[k] = ctx[k] /\ cancel'[k] = cancel[k]
        /\ \A m \in Names : m # n => subs'[m] = subs[m]
        /\ \A k \in Inst : name[k] \in Names
    BY <2>1, <2>2 DEF TypeOK
  <2>8. OnePublisher'
    <3>1. SUFFICES ASSUME NEW i \in Inst, Live(i)'
                   PROVE  subs'[name'[i]] = i \/ ctx'[i] \in cancelled
      BY <2>1 DEF OnePublisher, CtxDone
    <3>2. CASE i = j
      BY <2>7, <3>2
    <3>3. CASE i # j
      <4>1. Live(i) /\ name'[i] = name[i] /\ ctx'[i] = ctx[i]
        BY <2>4, <2>7, <3>1, <3>3 DEF Live
      <4>2. subs[name[i]] = i \/ CtxDone(i)
        BY <4>1 DEF OnePublisher
      <4>3. i # 0
        BY InstFacts
      <4>. QED  BY <2>6, <2>7, <4>1, <4>2, <4>3 DEF CtxDone
    <3>. QED  BY <3>2, <3>3
  <2>9. Told'
    <3>1. \A i \in Inst : i <= made' => ctx'[i] = i /\ cancel'[i] = i
      BY <2>1, <2>2, <2>7 DEF Told
    <3>. QED  BY <2>1, <3>1 DEF Told, Closing
  <2>. QED  BY <2>8, <2>9
<1>10. ASSUME NEW n \in Names, HandlerSetup(n) PROVE Told' /\ OnePublisher'
  BY <1>1, <1>10 DEF NoCopy
<1>. QED  BY <1>1, <1>2, <1>3, <1>4, <1>5, <1>6, <1>7, <1>8, <1>9, <1>10, <1>11
          DEF Next, Handler, Runs

(***************************************************************************)
(* As long as no struct is copied, a publishRun goroutine that no longer   *)
(* serves the subscription of its name has been told to end: nobody loses  *)
(* the cancel function of a goroutine that runs.                           *)
(***************************************************************************)
THEOREM OnePublisherWithoutCopies == Spec /\ [][NoCopy]_vars => []OnePublisher
<1>1. Init => Told /\ OnePublisher
  <2>1. SUFFICES ASSUME Init PROVE Told /\ OnePublisher
    OBVIOUS
  <2>2. \A i \in Inst : ~(i <= 0) /\ ~Live(i)
    BY <2>1, InstFacts DEF Init, Live
  <2>3. h.pc = "idle"
    BY <2>1, IdleFacts DEF Init
  <2>4. made = 0
    BY <2>1 DEF Init
  <2>. QED  BY <2>2, <2>3, <2>4 DEF Told, OnePublisher, Closing
<1>2. StructInv /\ Told /\ OnePublisher /\ [Next]_vars /\ [NoCopy]_vars => Told' /\ OnePublisher'
  BY StepTold
<1>. QED  BY <1>1, <1>2, InitStructs, StepStructs, PTL DEF Spec

-----------------------------------------------------------------------------
(* One Close *)

(***************************************************************************)
(* Close of a struct that has its channel to itself.                       *)
(***************************************************************************)
LEMMA CloseOwn ==
    ASSUME TypeOK, OwnChan, NEW i \in Inst, NEW L, Close(i, L), stop' = stop
    PROVE  OwnChan'
<1>1. CASE ~NeedsClose(i)
  BY <1>1 DEF Close, OwnChan, ClosedOnce
<1>2. CASE NeedsClose(i)
  <2>1. opened[i] /\ stop[i] # 0 /\ stop[i] \notin closed
    BY <1>2 DEF NeedsClose, OwnChan
  <2>2. opened' = [opened EXCEPT ![i] = FALSE] /\ closed' = closed \cup {stop[i]} /\ panic' = panic
    BY <1>2, <2>1 DEF Close
  <2>3. ~opened'[i] /\ \A k \in Inst : k # i => opened'[k] = opened[k]
    BY <2>2 DEF TypeOK
  <2>4. \A k \in Inst : opened'[k] => stop[k] # 0 /\ stop[k] \notin closed'
    BY <2>1, <2>2, <2>3 DEF OwnChan
  <2>. QED  BY <2>2, <2>4 DEF OwnChan, ClosedOnce
<1>. QED  BY <1>1, <1>2

(***************************************************************************)
(* publishRun makes a channel nobody has, and closes its own.              *)
(***************************************************************************)
LEMMA RunsOwn ==
    ASSUME TypeOK, OwnChan, NEW i \in Inst, Runs(i)
    PROVE  OwnChan'
<1> USE DEF csVars
<1>0. CASE UNCHANGED <<opened, stop, closed, panic>>
  BY <1>0 DEF OwnChan, ClosedOnce
<1>1. CASE PubRestart(i)
  <2>1. FreshChan \in 1..(MaxInst + 1) /\ \A k \in Inst : stop[k] # FreshChan
    BY FreshIsFree, InstFacts
  <2>2. FreshChan # 0
    BY <2>1, InstFacts
  <2>3. /\ stop' = [stop EXCEPT ![i] = FreshChan] /\ closed' = closed \ {FreshChan}
        /\ opened' = [opened EXCEPT ![i] = TRUE]
        /\ panic' = panic \/ panic' = "indexOutOfRange"
    BY <1>1 DEF PubRestart
  <2> HIDE DEF FreshChan
  <2>4. /\ stop'[i] = FreshChan
        /\ \A k \in Inst : k # i => stop'[k] = stop[k] /\ opened'[k] = opened[k]
    BY <2>3 DEF TypeOK
  <2>5. \A k \in Inst : opened'[k] => stop'[k] # 0 /\ stop'[k] \notin closed'
    BY <2>2, <2>3, <2>4 DEF OwnChan
  <2>6. \A k, m \in Inst : stop'[k] # 0 /\ stop'[k] = stop'[m] => k = m
    BY <2>1, <2>4 DEF OwnChan
  <2>7. ClosedOnce'
    BY <2>3 DEF OwnChan, ClosedOnce
  <2>. QED  BY <2>5, <2>6, <2>7 DEF OwnChan
<1>2. CASE PubDial(i)
  <2>1. PICK ok : IF DialAborted(i) THEN Close(i, [linked EXCEPT ![i] = ok])
                  ELSE UNCHANGED <<opened, closed, panic>>
    BY <1>2 DEF PubDial
  <2>2. stop' = stop
    BY <1>2 DEF PubDial
  <2>3. CASE DialAborted(i)
    BY <2>1, <2>2, <2>3, CloseOwn
  <2>. QED  BY <1>0, <2>1, <2>2, <2>3
<1>3. CASE PubPublish(i)
  <2>1. Close(i, [linked EXCEPT ![i] = FALSE]) \/ UNCHANGED <<opened, closed, panic>>
    BY <1>3 DEF PubPublish
  <2>2. stop' = stop
    BY <1>3 DEF PubPublish
  <2>. QED  BY <1>0, <2>1, <2>2, CloseOwn
<1>4. CASE PubSelect(i) \/ PubReadError(i) \/ PubReport(i) \/ PubWait(i)
  BY <1>0, <1>4 DEF PubSelect, PubReadError, PubReport, PubWait
<1>6. CASE PubSend(i) \/ FeederPut(i) \/ FeederReturn(i)
  BY <1>0, <1>6 DEF PubSend, FeederPut, FeederReturn
<1>5. CASE PubReportError(i) \/ PubStreamEnd(i) \/ PubFatal(i)
  <2>1. Close(i, linked) /\ stop' = stop
    BY <1>5 DEF PubReportError, PubStreamEnd, PubFatal, StreamEnds
  <2>. QED  BY <2>1, CloseOwn
<1>. QED  BY <1>1, <1>2, <1>3, <1>4, <1>5, <1>6 DEF Runs, Publisher, Streams

(***************************************************************************)
(* Every step but a copy leaves each struct its own channel.               *)
(***************************************************************************)
LEMMA StepOwn ==
    ASSUME StructInv, OwnChan, [Next]_vars, [NoCopy]_vars
    PROVE  OwnChan'
<1> USE DEF StructInv
<1>0. CASE UNCHANGED <<opened, stop, closed>> /\ (panic' = panic \/ panic' = "nilPointer")
  BY <1>0 DEF OwnChan, ClosedOnce
<1>1. CASE UNCHANGED vars
  BY <1>0, <1>1 DEF vars
<1>2. ASSUME NEW i \in Inst, Runs(i) PROVE OwnChan'
  BY <1>2, RunsOwn
<1>3. CASE Environment
  BY <1>0, <1>3, ChangeFrame DEF chanVars
<1>4. CASE \/ HandlerStart \/ HandlerLost \/ HandlerGroup \/ HandlerGroupDel
           \/ HandlerGroupSet \/ HandlerGlobalSet \/ HandlerSetupDone
  BY <1>0, <1>4 DEF HandlerStart, HandlerLost, HandlerGroup, HandlerGroupDel, HandlerGroupSet,
                    HandlerGlobalSet, HandlerSetupDone, csVars
<1>5. CASE HandlerSubIgnored \/ HandlerCancel \/ HandlerSubDel \/ HandlerSubSet
  BY <1>0, <1>5 DEF HandlerSubIgnored, HandlerCancel, HandlerSubDel, HandlerSubSet, csVars
<1>6. ASSUME NEW n \in Names, HandlerClose(n) PROVE OwnChan'
  <2>1. stop' = stop
    BY <1>6 DEF HandlerClose
  <2>2. CASE subs[n] = 0
    BY <1>0, <1>6, <2>1, <2>2 DEF HandlerClose
  <2>3. CASE subs[n] # 0
    <3>1. subs[n] \in Inst /\ Close(subs[n], linked)
      BY <1>6, <2>3, SubFacts DEF HandlerClose
    <3>. QED  BY <2>1, <3>1, CloseOwn
  <2>. QED  BY <2>2, <2>3
<1>7. ASSUME NEW n \in Names, HandlerSetup(n) PROVE OwnChan'
  BY <1>1, <1>7 DEF NoCopy
<1>. QED  BY <1>1, <1>2, <1>3, <1>4, <1>5, <1>6, <1>7 DEF Next, Handler, Runs

(***************************************************************************)
(* As long as no struct is copied, the stop channel of a struct is closed  *)
(* once, whoever of the handler and publishRun calls Close first: the      *)
(* channel it sees in an open struct is open.                              *)
(***************************************************************************)
THEOREM ClosedOnceWithoutCopies == Spec /\ [][NoCopy]_vars => []ClosedOnce
<1>1. Init => OwnChan
  BY DEF Init, OwnChan, ClosedOnce
<1>2. StructInv /\ OwnChan /\ [Next]_vars /\ [NoCopy]_vars => OwnChan'
  BY StepOwn
<1>3. OwnChan => ClosedOnce
  BY DEF OwnChan
<1>. QED  BY <1>1, <1>2, <1>3, InitStructs, StepStructs, PTL DEF Spec

-----------------------------------------------------------------------------
(* Subscriptions that come after the groups *)

(***************************************************************************)
(* The table starts without subscriptions and only subscriptions are       *)
(* written.                                                                *)
(***************************************************************************)
SubsAfterGroups == Written \subseteq Names /\ \A n \in Names : FirstDb[n] = NoRow

(***************************************************************************)
(* Every step keeps groups ahead of subscriptions, and copies no struct.   *)
(***************************************************************************)
LEMMA StepGroupsRead ==
    ASSUME SubsAfterGroups, StructInv, GroupsRead, [Next]_vars
    PROVE  GroupsRead' /\ [NoCopy]_vars
<1> USE DEF StructInv
<1>0. \A n \in Names : ~HandlerSetup(n)
  BY DEF GroupsRead, HandlerSetup
<1> SUFFICES GroupsRead'
  BY <1>0 DEF NoCopy
<1>1. CASE UNCHANGED vars
  BY <1>1 DEF GroupsRead, Late, Closing, vars
<1>2. ASSUME NEW i \in Inst, Runs(i) PROVE GroupsRead'
  <2>1. UNCHANGED <<h, users, ntf>>
    BY <1>2, RunsFrame DEF extVars, mapVars
  <2>. QED  BY <2>1 DEF GroupsRead, Late, Closing
<1>3. CASE Environment
  <2>1. UNCHANGED <<h, users>>
    BY <1>3, ChangeFrame DEF mapVars
  <2>2. CASE ntf' = ntf
    BY <2>1, <2>2 DEF GroupsRead, Late, Closing
  <2>3. CASE ntf' # ntf
    <3>1. PICK k \in Written, op \in {"hset", "hdel"} : ntf' = Append(ntf, [key |-> k, op |-> op])
      BY <1>3, <2>3, ChangeFrame
    <3>2. DOMAIN ntf = 1..Len(ntf) /\ Len(ntf) \in Nat /\ k \in Names
      BY NtfFacts DEF SubsAfterGroups
    <3>3. ntf \in Seq([key : Keys, op : {"hset", "hdel"}])
      BY DEF TypeOK
    <3>4. \A x \in DOMAIN ntf' : \/ ntf'[x].key \in Names /\ x = Len(ntf) + 1
                                 \/ x \in DOMAIN ntf /\ ntf'[x] = ntf[x]
      BY <3>1, <3>2, <3>3
    <3>5. \A x \in DOMAIN ntf' : ntf'[x].key \notin Names => x \in DOMAIN ntf /\ ntf'[x] = ntf[x]
      BY <3>4
    <3>6. \A x, y \in DOMAIN ntf' : ntf'[x].key \in Names /\ x < y => ntf'[y].key \in Names
      <4>1. SUFFICES ASSUME NEW x \in DOMAIN ntf', NEW y \in DOMAIN ntf', ntf'[x].key \in Names,
                            x < y, ntf'[y].key \notin Names
                     PROVE  FALSE
        OBVIOUS
      <4>2. y \in DOMAIN ntf /\ ntf'[y] = ntf[y]
        BY <3>5, <4>1
      <4>3. x # Len(ntf) + 1
        BY <3>2, <4>1, <4>2
      <4>4. x \in DOMAIN ntf /\ ntf'[x] = ntf[x]
        BY <3>4, <4>3
      <4>. QED  BY <4>1, <4>2, <4>4 DEF GroupsRead
    <3>. QED  BY <2>1, <3>5, <3>6 DEF GroupsRead, Late, Closing
  <2>. QED  BY <2>2, <2>3
<1>4. CASE HandlerStart
  <2> DEFINE k == Head(ntf).key
  <2>1. /\ UNCHANGED <<users, subs>> /\ ntf' = Tail(ntf) /\ ntf # <<>>
    BY <1>4 DEF HandlerStart, mapVars
  <2>2. /\ DOMAIN ntf = 1..Len(ntf) /\ Len(ntf) \in Nat /\ 1 \in DOMAIN ntf
        /\ DOMAIN ntf' = 1..(Len(ntf) - 1)
        /\ \A x \in DOMAIN ntf' : ntf'[x] = ntf[x + 1]
        /\ k = ntf[1].key /\ k \in Keys
    BY <2>1, NtfFacts
  <2>3. /\ h'.pc \in {"idle", "groups"} => k = Global
        /\ h'.pc \in {"idle", "groups", "close"}
        /\ h'.key = k
        /\ h'.pc = "close" => k # Global /\ (k \in Groups => h'.names = users[k])
    BY <1>4, IdleFacts DEF HandlerStart, IdleHandler
  <2> HIDE DEF k
  <2>4. \A x \in DOMAIN ntf' : x + 1 \in DOMAIN ntf /\ 1 < x + 1
    BY <2>2
  <2>5. \A x, y \in DOMAIN ntf' : x < y => x + 1 < y + 1
    BY <2>2
  <2>6. \A x, y \in DOMAIN ntf' : ntf'[x].key \in Names /\ x < y => ntf'[y].key \in Names
    BY <2>2, <2>4, <2>5 DEF GroupsRead
  <2>7. k \in Names => \A x \in DOMAIN ntf' : ntf'[x].key \in Names
    BY <2>2, <2>4 DEF GroupsRead
  <2>8. (\E g \in Groups : users[g] # {}) => k \in Names
    BY <2>2 DEF GroupsRead, Late
  <2>9. h'.pc = "close" /\ k \notin Names => h'.names = {}
    BY <2>2, <2>3, <2>8, KeyFacts
  <2>. QED  BY <2>1, <2>3, <2>6, <2>7, <2>8, <2>9 DEF GroupsRead, Late, Closing
<1>9. CASE HandlerLost
  <2>1. /\ UNCHANGED <<users, h>> /\ h.pc = "idle" /\ ntf' = Tail(ntf) /\ ntf # <<>>
    BY <1>9 DEF HandlerLost, mapVars
  <2>2. DOMAIN ntf = 1..Len(ntf) /\ Len(ntf) \in Nat /\ DOMAIN ntf' = 1..(Len(ntf) - 1)
    BY <2>1, NtfFacts
  <2>3. \A x \in DOMAIN ntf' : x + 1 \in DOMAIN ntf /\ ntf'[x] = ntf[x + 1]
    BY <2>1, <2>2, NtfFacts
  <2>4. \A x, y \in DOMAIN ntf' : x < y => x + 1 < y + 1
    BY <2>2
  <2>5. \A x, y \in DOMAIN ntf' : ntf'[x].key \in Names /\ x < y => ntf'[y].key \in Names
    BY <2>3, <2>4 DEF GroupsRead
  <2>. QED  BY <2>1, <2>3, <2>5 DEF GroupsRead, Late, Closing
<1>5. CASE \/ HandlerGroup \/ HandlerGroupDel \/ HandlerGroupSet \/ HandlerGlobalSet
           \/ HandlerSetupDone
  <2>1. h.key \notin Names /\ h.pc # "idle" /\ UNCHANGED <<users, ntf>>
    BY <1>5, KeyFacts DEF HandlerGroup, HandlerGroupDel, HandlerGroupSet, HandlerGlobalSet,
                HandlerSetupDone, Handling, extVars, mapVars
  <2>2. \A g \in Groups : users[g] = {}
    BY <2>1 DEF GroupsRead, Late
  <2>3. h'.key \notin Names /\ (h'.pc \in {"close", "cancel", "setup"} => h'.names = {})
    <3>1. CASE h' = IdleHandler
      BY <3>1, IdleFacts, KeyFacts
    <3>2. CASE HandlerGroup /\ h.groups # {}
      <4>1. PICK g \in h.groups : h' = [h EXCEPT !.pc = "close", !.groups = @ \ {g}, !.grp = g,
                                                 !.names = users[g]]
        BY <3>2 DEF HandlerGroup
      <4>2. h'.key = h.key /\ h'.names = users[g] /\ g \in Groups
        BY <4>1, HandlerFacts DEF HandlerType
      <4>. QED  BY <2>1, <2>2, <4>2
    <3>3. CASE /\ h' = [h EXCEPT !.pc = "setup", !.names = users[h.grp]]
               /\ HandlerGroupSet \/ HandlerGlobalSet
      <4>1. h.grp \in Groups
        BY <2>1, <3>3 DEF HandlerGroupSet, HandlerGlobalSet, Handling, Closing
      <4>2. h'.key = h.key /\ h'.names = users[h.grp]
        BY <3>3, HandlerFacts DEF HandlerType
      <4>. QED  BY <2>1, <2>2, <4>1, <4>2
    <3>4. CASE h' = [h EXCEPT !.pc = "groups"]
      <4>1. h'.key = h.key /\ h'.pc = "groups"
        BY <3>4, HandlerFacts DEF HandlerType
      <4>. QED  BY <2>1, <4>1
    <3>. QED  BY <1>5, <3>1, <3>2, <3>3, <3>4 DEF HandlerGroup, HandlerGroupDel, HandlerGroupSet,
                HandlerGlobalSet, HandlerSetupDone
  <2>. QED  BY <2>1, <2>2, <2>3 DEF GroupsRead, Late, Closing
<1>6. CASE HandlerCancel \/ \E n \in Names : HandlerClose(n)
  <2>1. UNCHANGED <<users, ntf>>
    BY <1>6 DEF HandlerCancel, HandlerClose, extVars, mapVars
  <2>2. /\ h'.key = h.key /\ h'.names \subseteq h.names
        /\ h'.pc \in {"close", "cancel"} /\ h.pc \in {"close", "cancel"}
    <3>1. CASE HandlerCancel
      BY <3>1, HandlerFacts DEF HandlerCancel, HandlerType
    <3>2. ASSUME NEW n \in Names, HandlerClose(n)
          PROVE  /\ h'.key = h.key /\ h'.names \subseteq h.names
                 /\ h'.pc \in {"close", "cancel"} /\ h.pc \in {"close", "cancel"}
      BY <3>2, HandlerFacts DEF HandlerClose, HandlerType
    <3>. QED  BY <1>6, <3>1, <3>2
  <2>. QED  BY <2>1, <2>2 DEF GroupsRead, Late, Closing
<1>7. CASE HandlerSubDel \/ HandlerSubIgnored \/ HandlerSubSet
  <2>1. h.key \in Names /\ h.pc # "idle" /\ ntf' = ntf
    BY <1>7 DEF HandlerSubDel, HandlerSubIgnored, HandlerSubSet, extVars
  <2>2. \A x \in DOMAIN ntf : ntf[x].key \in Names
    BY <2>1 DEF GroupsRead, Late
  <2>3. h' = h \/ h'.pc = "idle"
    BY <1>7, IdleFacts DEF HandlerSubDel, HandlerSubIgnored, HandlerSubSet
  <2>. QED  BY <2>1, <2>2, <2>3 DEF GroupsRead, Late, Closing
<1>. QED  BY <1>0, <1>1, <1>2, <1>3, <1>4, <1>5, <1>6, <1>7, <1>9 DEF Next, Handler, Runs

(***************************************************************************)
(* At the start only groups are to be read.                                *)
(***************************************************************************)
LEMMA InitGroupsRead ==
    ASSUME SubsAfterGroups, Init
    PROVE  GroupsRead
<1>1. \A x \in DOMAIN ntf : ntf[x].key \notin Names
  BY FirstNtf DEF SubsAfterGroups
<1>2. h.pc = "idle" /\ \A g \in Groups : users[g] = {}
  BY IdleFacts DEF Init
<1>. QED  BY <1>1, <1>2 DEF GroupsRead, Late, Closing

(***************************************************************************)
(* When the groups are there first and only subscriptions are written, no  *)
(* struct is ever copied: setupDestGroupClients finds no users.            *)
(***************************************************************************)
THEOREM GroupsFirstNoCopies == SubsAfterGroups => (Spec => [][NoCopy]_vars)
<1> SUFFICES ASSUME SubsAfterGroups PROVE Spec => [][NoCopy]_vars
  OBVIOUS
<1>1. Init => StructInv /\ GroupsRead
  BY InitStructs, InitGroupsRead
<1>2. StructInv /\ GroupsRead /\ [Next]_vars => (StructInv /\ GroupsRead)' /\ [NoCopy]_vars
  BY StepStructs, StepGroupsRead
<1>. QED  BY <1>1, <1>2, PTL DEF Spec

(***************************************************************************)
(* So there OnePublisher and ClosedOnce hold, however the subscriptions    *)
(* are written, rewritten and deleted.                                     *)
(***************************************************************************)
COROLLARY GroupsFirstSafe == SubsAfterGroups => (Spec => [](OnePublisher /\ ClosedOnce))
BY GroupsFirstNoCopies, OnePublisherWithoutCopies, ClosedOnceWithoutCopies, PTL
===============================================================================
