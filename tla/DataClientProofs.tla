-------------------------- MODULE DataClientProofs --------------------------
(***************************************************************************)
(* Proofs about the routines of the data clients that are one goroutine    *)
(* each: FieldStream, for every set of fields and values, and CpuStats,    *)
(* for a ring of any capacity that its assumption allows, any offsets and  *)
(* any number of samples.                                                  *)
(***************************************************************************)
EXTENDS FieldStream, CpuStats, TLAPS

-----------------------------------------------------------------------------
(* Field subscriptions *)

(***************************************************************************)
(* What HGet yields is a value or the empty string, and None is neither.   *)
(***************************************************************************)
LEMMA ReadValType ==
    ASSUME db \in [Cells -> Vals \cup {None}], NEW c \in Cells, NEW v \in HGet(c)
    PROVE  ReadVal(v) \in Vals \cup {Blank} /\ ReadVal(v) # None
  BY FieldAssumption DEF ReadVal, HGet

(***************************************************************************)
(* What a read that does not leave the field out changes.                  *)
(***************************************************************************)
Takes(c, v) == IF Skipped(c, v)
               THEN UNCHANGED <<saved, msi>>
               ELSE /\ saved' = [saved EXCEPT ![c] = Saved(c, ReadVal(v))]
                    /\ msi' = [msi EXCEPT ![c] = ReadVal(v)]

(***************************************************************************)
(* The fields of the subscription are fields of redis.                     *)
(***************************************************************************)
LEMMA SubCells == ASSUME sub \in Subs PROVE sub.cells \subseteq Cells
  BY FieldAssumption DEF Subscription

(***************************************************************************)
(* Every step keeps the types.                                             *)
(***************************************************************************)
LEMMA TypeStep == TypeOK /\ [Next]_vars => TypeOK'
<1> SUFFICES ASSUME TypeOK, [Next]_vars PROVE TypeOK'
  OBVIOUS
<1>0. sub.cells \subseteq Cells
  BY SubCells DEF TypeOK
<1> USE DEF TypeOK, Maps, NoMap
<1>1. CASE Send
  BY <1>1 DEF Send
<1>2. CASE Refused
  BY <1>2 DEF Refused, RefusedSync
<1>3. CASE Tick
  BY <1>0, <1>3 DEF Tick
<1>4. CASE Stop
  BY <1>4 DEF Stop
<1>5. ASSUME NEW c \in Cells, Read(c) PROVE TypeOK'
  <2>1. PICK v \in HGet(c) : writes' \in {writes, writes + 1} /\ Takes(c, v)
    BY <1>5 DEF Read, Takes
  <2>2. ReadVal(v) \in Vals \cup {Blank}
    BY ReadValType
  <2> QED
    BY <1>5, <2>1, <2>2 DEF Read, Takes, Saved
<1>6. CASE SessionDispose
  BY <1>6 DEF SessionDispose
<1>7. CASE SessionClose
  BY <1>7 DEF SessionClose
<1>8. ASSUME NEW c \in Cells, Write(c) PROVE TypeOK'
  BY <1>8 DEF Write
<1>9. CASE UNCHANGED vars
  BY <1>9 DEF vars
<1> QED
  BY <1>0, <1>1, <1>2, <1>3, <1>4, <1>5, <1>6, <1>7, <1>8, <1>9
     DEF Next, Subscriber

(***************************************************************************)
(* The type invariant of dbFieldSubscribe and dbFieldMultiSubscribe.       *)
(***************************************************************************)
THEOREM FieldTypes == Spec => []TypeOK
<1>1. Init => TypeOK
  <2>1. NoMap \in Maps
    BY DEF Maps, NoMap
  <2>0. Init => sub \in Subs /\ todo \subseteq Cells
    BY SubCells DEF Init
  <2>2. Init => synced \in BOOLEAN /\ disposed \in BOOLEAN /\ closed \in BOOLEAN
    BY Zenon DEF Init
  <2>3. Init => writes \in Nat /\ puts \in {0, 1}
    BY DEF Init
  <2> QED
    BY <2>1, <2>2, <2>0, <2>3, Zenon DEF Init, TypeOK
<1> QED
  BY <1>1, TypeStep, PTL DEF Spec

(***************************************************************************)
(* A value is remembered when it is put into the message, and the message  *)
(* is forgotten when it has been sent.                                     *)
(***************************************************************************)
LEMMA SavedStep == TypeOK /\ SavedIsSent /\ [Next]_vars => SavedIsSent'
<1> SUFFICES ASSUME TypeOK, SavedIsSent, [Next]_vars PROVE SavedIsSent'
  OBVIOUS
<1>0. sub.cells \subseteq Cells
  BY SubCells DEF TypeOK
<1> USE DEF TypeOK, SavedIsSent, Maps, NoMap
<1>1. CASE Send
  BY <1>1 DEF Send, WorthSending
<1>2. CASE Refused
  BY <1>2 DEF Refused
<1>3. CASE Tick
  BY <1>3 DEF Tick
<1>4. CASE Stop
  BY <1>4 DEF Stop
<1>5. ASSUME NEW c \in Cells, Read(c) PROVE SavedIsSent'
  <2>1. PICK v \in HGet(c) : Takes(c, v)
    BY <1>5 DEF Read, Takes
  <2>2. ReadVal(v) \in Vals \cup {Blank} /\ ReadVal(v) # None
    BY ReadValType
  <2> QED
    BY <1>5, <2>1, <2>2 DEF Read, Takes, Saved
<1>6. CASE SessionDispose
  BY <1>6 DEF SessionDispose
<1>7. CASE SessionClose
  BY <1>7 DEF SessionClose
<1>8. ASSUME NEW c \in Cells, Write(c) PROVE SavedIsSent'
  BY <1>8 DEF Write
<1>9. CASE UNCHANGED vars
  BY <1>9 DEF vars
<1> QED
  BY <1>0, <1>1, <1>2, <1>3, <1>4, <1>5, <1>6, <1>7, <1>8, <1>9
     DEF Next, Subscriber

(***************************************************************************)
(* path2ValueMap never holds a value the client is not sent.               *)
(***************************************************************************)
THEOREM SavedValuesAreSent == Spec => []SavedIsSent
<1>1. Init => SavedIsSent
  BY DEF Init, SavedIsSent, NoMap
<1> QED
  BY <1>1, FieldTypes, SavedStep, PTL DEF Spec

-----------------------------------------------------------------------------
(***************************************************************************)
(* What ON_CHANGE is about to send is news, and was not read twice.        *)
(***************************************************************************)
News == pc # "done" =>
            \A c \in Cells : msi[c] # None =>
                /\ pc # "loop"
                /\ c \notin todo
                /\ (sub.onChange /\ pc # "first") => msi[c] # sent[c]

(***************************************************************************)
(* A field that is read at a tick differs from the remembered value, which *)
(* is what the client was sent.                                            *)
(***************************************************************************)
LEMMA NewsStep == TypeOK /\ SavedIsSent /\ News /\ [Next]_vars => News'
<1> SUFFICES ASSUME TypeOK, SavedIsSent, News, [Next]_vars PROVE News'
  OBVIOUS
<1>0. sub.cells \subseteq Cells
  BY SubCells DEF TypeOK
<1> USE DEF TypeOK, Maps, NoMap, News
<1>1. CASE Send
  BY <1>1 DEF Send
<1>2. CASE Refused
  BY <1>2 DEF Refused
<1>3. CASE Tick
  BY <1>3 DEF Tick
<1>4. CASE Stop
  BY <1>4 DEF Stop
<1>5. ASSUME NEW c \in Cells, Read(c) PROVE News'
  <2>1. PICK v \in HGet(c) : Takes(c, v)
    BY <1>5 DEF Read, Takes
  <2>2. ReadVal(v) \in Vals \cup {Blank} /\ ReadVal(v) # None
    BY ReadValType
  <2>3. msi[c] = None /\ saved[c] = sent[c]
    BY <1>5 DEF Read, SavedIsSent
  <2>4. CASE Skipped(c, v)
    BY <1>5, <2>1, <2>4 DEF Read, Takes
  <2>5. CASE ~Skipped(c, v)
    <3>1. sub.onChange => ReadVal(v) # sent[c]
      BY <2>2, <2>3, <2>5 DEF Skipped
    <3> QED
      BY <1>5, <2>1, <2>5, <3>1 DEF Read, Takes
  <2> QED
    BY <2>4, <2>5
<1>6. CASE SessionDispose
  BY <1>6 DEF SessionDispose
<1>7. CASE SessionClose
  BY <1>7 DEF SessionClose
<1>8. ASSUME NEW c \in Cells, Write(c) PROVE News'
  BY <1>8 DEF Write
<1>9. CASE UNCHANGED vars
  BY <1>9 DEF vars
<1> QED
  BY <1>0, <1>1, <1>2, <1>3, <1>4, <1>5, <1>6, <1>7, <1>8, <1>9
     DEF Next, Subscriber

(***************************************************************************)
(* A message puts something the client did not know into its queue.        *)
(***************************************************************************)
LEMMA OnlyChangesStep ==
    TypeOK /\ News /\ [Next]_vars
        => [(sub.onChange /\ pc # "first" /\ puts' # puts) => sent' # sent]_vars
<1> SUFFICES ASSUME TypeOK, News, Next, sub.onChange, pc # "first", puts' # puts
             PROVE  sent' # sent
  BY DEF vars
<1>1. Send /\ WorthSending
  BY DEF Next, Subscriber, Send, Refused, Tick, Stop, Read, SessionDispose,
         SessionClose, Write
<1>2. PICK c \in Cells : msi[c] # None
  <2>1. msi # NoMap /\ msi \in [Cells -> Vals \cup {Blank, None}]
    BY <1>1 DEF WorthSending, TypeOK, Maps
  <2> QED
    BY <2>1 DEF NoMap
<1>3. sent'[c] = msi[c] /\ msi[c] # sent[c]
  BY <1>1, <1>2 DEF Send, News
<1> QED
  BY <1>3

(***************************************************************************)
(* "For ON_CHANGE mode, it would send only if the value has changed since  *)
(* the last update", for every number of fields, values and writes.        *)
(***************************************************************************)
THEOREM OnChangeSendsChanges == Spec => OnlyChanges
<1>1. Init => News
  BY DEF Init, News, NoMap
<1>2. Spec => []News
  BY <1>1, FieldTypes, SavedValuesAreSent, NewsStep, PTL DEF Spec
<1> QED
  BY <1>2, FieldTypes, OnlyChangesStep, PTL DEF Spec, OnlyChanges

-----------------------------------------------------------------------------
(* The ring of CPU statistics *)

(***************************************************************************)
(* What is in the ring: before writeIdx the samples of this round, from    *)
(* writeIdx on those of the round before, or nothing.                      *)
(***************************************************************************)
Sample(s) ==
    IF s < writeIdx THEN taken - writeIdx + s + 1
    ELSE IF taken - writeIdx + s + 1 > Cap THEN taken - writeIdx + s + 1 - Cap
    ELSE 0

Ring ==
    /\ taken \in Nat
    /\ writeIdx \in Slots
    /\ writeIdx <= taken
    /\ buff \in [Slots -> Nat]
    /\ \A s \in Slots : buff[s] = Sample(s)

(***************************************************************************)
(* The remainder of a number below the divisor.                            *)
(***************************************************************************)
LEMMA ModSmall == ASSUME NEW n \in Nat \ {0}, NEW x \in 0..(n - 1) PROVE x % n = x
  OBVIOUS

(***************************************************************************)
(* The remainder of a number from the divisor to below twice it.           *)
(***************************************************************************)
LEMMA ModOnce == ASSUME NEW n \in Nat \ {0}, NEW x \in n..(2 * n - 1) PROVE x % n = x - n
  OBVIOUS

(***************************************************************************)
(* The capacity and the slots.                                             *)
(***************************************************************************)
LEMMA CapFacts ==
    Cap \in Nat \ {0} /\ Cap >= 2 /\ Slots = 0..(Cap - 1)
BY CpuStatsAssumption DEF Slots

(***************************************************************************)
(* The slot of an offset that fits in the ring holds the sample so many    *)
(* steps back, if there is one: the uint64 subtraction does not wrap.      *)
(***************************************************************************)
LEMMA SlotExact ==
    ASSUME Ring, NEW k \in 1..Cap
    PROVE  buff[Slot(k)] = IF taken >= k THEN taken - k + 1 ELSE 0
<1>. Cap \in Nat \ {0} /\ Cap >= 2 /\ Slots = 0..(Cap - 1)
  BY CapFacts
<1>1. writeIdx \in Nat /\ writeIdx < Cap /\ taken \in Nat /\ writeIdx <= taken /\ k \in Nat
  BY DEF Ring
<1>2. Slot(k) = (writeIdx + Cap - k) % Cap
  BY <1>1 DEF Slot
<1>3. CASE k <= writeIdx
  <2>1. Slot(k) = writeIdx - k
    <3>1. writeIdx + Cap - k \in Cap..(2 * Cap - 1)
      BY <1>1, <1>3
    <3>2. (writeIdx + Cap - k) % Cap = (writeIdx + Cap - k) - Cap
      BY <3>1, ModOnce
    <3>. QED  BY <1>1, <1>2, <3>2
  <2>2. writeIdx - k \in Slots /\ writeIdx - k < writeIdx
    BY <1>1, <1>3
  <2>3. buff[writeIdx - k] = Sample(writeIdx - k)
    BY <2>2 DEF Ring
  <2>. QED  BY <1>1, <1>3, <2>1, <2>2, <2>3 DEF Sample
<1>4. CASE k > writeIdx
  <2>1. Slot(k) = writeIdx + Cap - k
    <3>1. writeIdx + Cap - k \in 0..(Cap - 1)
      BY <1>1, <1>4
    <3>. QED  BY <1>2, <3>1, ModSmall
  <2>2. writeIdx + Cap - k \in Slots /\ writeIdx + Cap - k >= writeIdx
    BY <1>1, <1>4
  <2>3. buff[writeIdx + Cap - k] = Sample(writeIdx + Cap - k)
    BY <2>2 DEF Ring
  <2>4. Sample(writeIdx + Cap - k) = IF taken + Cap - k + 1 > Cap THEN taken - k + 1 ELSE 0
    BY <1>1, <2>2 DEF Sample
  <2>. QED  BY <1>1, <1>4, <2>1, <2>3, <2>4
<1>. QED  BY <1>1, <1>3, <1>4

(***************************************************************************)
(* A remainder is below the divisor.                                       *)
(***************************************************************************)
LEMMA ModRange == ASSUME NEW n \in Nat \ {0}, NEW x \in Int PROVE x % n \in 0..(n - 1)
  OBVIOUS

(***************************************************************************)
(* The slot of any offset is in the ring, whether the subtraction wraps or *)
(* not, and holds one of the last samples or none.                         *)
(***************************************************************************)
LEMMA SlotInRing ==
    ASSUME Ring, NEW k \in Nat
    PROVE  /\ buff[Slot(k)] \in Nat
           /\ buff[Slot(k)] = 0 \/ buff[Slot(k)] \in (taken - Cap + 1)..taken
<1>. Cap \in Nat \ {0} /\ Cap >= 2 /\ Slots = 0..(Cap - 1)
  BY CapFacts
<1>1. writeIdx \in Nat /\ writeIdx < Cap /\ taken \in Nat /\ writeIdx <= taken
  BY DEF Ring
<1>2. \A i \in Int : SquareMod(i) \in Int
  BY ModRange DEF SquareMod
<1>3. WordMod \in Int
  <2>1. 65536 % Cap \in Int
    BY ModRange
  <2>. QED  BY <1>2, <2>1 DEF WordMod
<1>4. Slot(k) \in Slots
  <2>. HIDE DEF WordMod
  <2>1. writeIdx + Cap - k \in Int /\ WordMod + (writeIdx + Cap - k) \in Int
    BY <1>1, <1>3
  <2>. QED  BY <2>1, ModRange DEF Slot
<1>5. ASSUME NEW s \in Slots PROVE Sample(s) = 0 \/ Sample(s) \in (taken - Cap + 1)..taken
  <2>1. s \in Nat /\ s < Cap
    OBVIOUS
  <2>. QED  BY <1>1, <2>1 DEF Sample
<1>. QED  BY <1>4, <1>5 DEF Ring

(***************************************************************************)
(* The ring at the start.                                                  *)
(***************************************************************************)
LEMMA InitRing ==
    ASSUME StatsInit
    PROVE  Ring
<1>. Cap \in Nat \ {0} /\ Cap >= 2 /\ Slots = 0..(Cap - 1)
  BY CapFacts
<1>1. taken \in Nat /\ taken <= Cap
  BY CpuStatsAssumption, SMTT(30) DEF StatsInit
<1>2. buff = [i \in Slots |-> IF i < taken THEN i + 1 ELSE 0] /\ writeIdx = taken % Cap
  BY DEF StatsInit
<1>3. buff \in [Slots -> Nat]
  BY <1>1, <1>2
<1>4. CASE taken < Cap
  <2>1. writeIdx = taken
    BY <1>1, <1>2, <1>4, ModSmall
  <2>2. \A s \in Slots : buff[s] = Sample(s)
    BY <1>1, <1>2, <1>4, <2>1 DEF Sample
  <2>. QED  BY <1>1, <1>3, <1>4, <2>1, <2>2 DEF Ring
<1>5. CASE taken = Cap
  <2>1. writeIdx = 0
    BY <1>2, <1>5, ModOnce
  <2>2. \A s \in Slots : buff[s] = Sample(s)
    BY <1>1, <1>2, <1>5, <2>1 DEF Sample
  <2>. QED  BY <1>1, <1>3, <1>5, <2>1, <2>2 DEF Ring
<1>. QED  BY <1>1, <1>4, <1>5

(***************************************************************************)
(* pollStats, in the middle of a round and at its end.                     *)
(***************************************************************************)
LEMMA PollRing ==
    ASSUME Ring, PollStats
    PROVE  Ring'
<1>. Cap \in Nat \ {0} /\ Cap >= 2 /\ Slots = 0..(Cap - 1)
  BY CapFacts
<1>1. writeIdx \in Nat /\ writeIdx < Cap /\ taken \in Nat /\ writeIdx <= taken
  BY DEF Ring
<1>2. taken' = taken + 1 /\ writeIdx' = (writeIdx + 1) % Cap
  BY DEF PollStats, NextIdx
<1>3. /\ buff' \in [Slots -> Nat] /\ buff'[writeIdx] = taken + 1
      /\ \A s \in Slots : s # writeIdx => buff'[s] = buff[s]
  <2>1. buff' = [buff EXCEPT ![writeIdx] = taken + 1] /\ taken + 1 \in Nat
    BY <1>1 DEF PollStats
  <2>. QED  BY <2>1 DEF Ring
<1>4. \A s \in Slots : s \in Nat /\ s < Cap
  OBVIOUS
<1>5. \A s \in Slots : buff[s] = Sample(s)
  BY DEF Ring
<1>6. CASE writeIdx + 1 < Cap
  <2>1. writeIdx' = writeIdx + 1
    <3>1. writeIdx + 1 \in 0..(Cap - 1)
      BY <1>1, <1>6
    <3>. QED  BY <1>2, <3>1, ModSmall
  <2>2. writeIdx' \in Slots /\ writeIdx' <= taken' /\ taken' \in Nat
    BY <1>1, <1>2, <1>6, <2>1
  <2>3. ASSUME NEW s \in Slots
        PROVE  buff'[s] = Sample(s)'
    <3>1. s \in Nat /\ s < Cap
      BY <1>4
    <3>2. CASE s = writeIdx
      BY <1>1, <1>2, <1>3, <2>1, <3>1, <3>2 DEF Sample
    <3>3. CASE s # writeIdx
      <4>1. taken' - writeIdx' = taken - writeIdx /\ (s < writeIdx' <=> s < writeIdx)
        BY <1>1, <1>2, <2>1, <3>1, <3>3
      <4>2. Sample(s)' = Sample(s)
        BY <4>1 DEF Sample
      <4>. QED  BY <1>3, <1>5, <3>3, <4>2
    <3>. QED  BY <3>2, <3>3
  <2>4. Slots' = Slots
    BY DEF Slots
  <2>. QED  BY <1>3, <2>2, <2>3, <2>4 DEF Ring
<1>7. CASE writeIdx + 1 = Cap
  <2>1. writeIdx' = 0
    BY <1>2, <1>7, ModOnce
  <2>2. writeIdx' \in Slots /\ writeIdx' <= taken' /\ taken' \in Nat
    BY <1>1, <1>2, <2>1
  <2>3. ASSUME NEW s \in Slots
        PROVE  buff'[s] = Sample(s)'
    <3>1. s \in Nat /\ s < Cap /\ Cap \in Nat
      BY <1>4
    <3>2. Sample(s)' = IF taken + s + 2 > Cap THEN taken + s + 2 - Cap ELSE 0
      BY <1>1, <1>2, <2>1, <3>1 DEF Sample
    <3>3. CASE s = writeIdx
      BY <1>1, <1>3, <1>7, <3>2, <3>1, <3>3
    <3>4. CASE s # writeIdx
      <4>1. s < writeIdx
        BY <1>1, <1>7, <3>1, <3>4
      <4>2. Sample(s) = taken - writeIdx + s + 1
        BY <4>1 DEF Sample
      <4>3. Sample(s)' = Sample(s)
        BY <1>1, <1>7, <3>2, <3>1, <4>1, <4>2
      <4>. QED  BY <1>3, <1>5, <3>4, <4>3
    <3>. QED  BY <3>3, <3>4
  <2>4. Slots' = Slots
    BY DEF Slots
  <2>. QED  BY <1>3, <2>2, <2>3, <2>4 DEF Ring
<1>. QED  BY <1>1, <1>6, <1>7

(***************************************************************************)
(* Every step keeps the ring and the rates taken from it.                  *)
(***************************************************************************)
LEMMA WindowStep ==
    ASSUME Ring, WindowSpans, [StatsNext]_statsVars
    PROVE  (Ring /\ WindowSpans)'
<1>. Cap \in Nat \ {0} /\ Cap >= 2 /\ Slots = 0..(Cap - 1)
  BY CapFacts
<1>1. CASE PollStats
  BY <1>1, PollRing DEF PollStats, NoRates, WindowSpans
<1>2. CASE GetCpuUtilStat
  <2>1. UNCHANGED <<writeIdx, buff, taken>>
    BY <1>2 DEF GetCpuUtilStat
  <2>2. Ring'
    BY <2>1 DEF Ring, Sample, Slots
  <2>3. ASSUME NEW x \in DOMAIN Offsets, rates'[x] # 0
        PROVE  /\ buff[Slot(1)] = taken
               /\ rates'[x] \in (taken - Cap + 1)..taken
               /\ Offsets[x] <= Cap => taken - rates'[x] = Offsets[x] - 1
    <3>1. Offsets[x] \in Nat /\ Offsets[x] >= 1 /\ 1 \in 1..Cap /\ x \in Nat /\ x >= 1
      <4>1. Offsets \in Seq(Nat \ {0})
        BY CpuStatsAssumption, SMTT(30)
      <4>2. DOMAIN Offsets = 1..Len(Offsets) /\ Len(Offsets) \in Nat /\ Offsets[x] \in Nat \ {0}
        BY <4>1
      <4>. QED  BY <2>3, <4>2
    <3>2. rates'[x] = buff[Slot(Offsets[x])]
      BY <1>2, <2>3 DEF GetCpuUtilStat
    <3>3. taken \in Nat
      BY DEF Ring
    <3>4. ASSUME Offsets[x] <= Cap PROVE taken - rates'[x] = Offsets[x] - 1
      <4>1. Offsets[x] \in 1..Cap
        BY <3>1, <3>4
      <4>2. rates'[x] = taken - Offsets[x] + 1
        BY <2>3, <3>2, <4>1, SlotExact
      <4>. QED  BY <3>1, <3>3, <4>2
    <3>5. rates'[x] \in Nat /\ rates'[x] \in (taken - Cap + 1)..taken
      BY <2>3, <3>1, <3>2, SlotInRing
    <3>6. buff[Slot(1)] = IF taken >= 1 THEN taken - 1 + 1 ELSE 0
      BY <3>1, SlotExact
    <3>7. taken >= 1
      BY <2>3, <3>3, <3>5
    <3>. QED  BY <3>3, <3>4, <3>5, <3>6, <3>7
  <2>4. Slot(1)' = Slot(1)
    BY <2>1 DEF Slot
  <2>. QED  BY <2>1, <2>2, <2>3, <2>4 DEF WindowSpans
<1>3. CASE UNCHANGED statsVars
  <2>1. UNCHANGED <<writeIdx, buff, taken, rates>>
    BY <1>3 DEF statsVars
  <2>2. Ring'
    BY <2>1 DEF Ring, Sample, Slots
  <2>3. Slot(1)' = Slot(1)
    BY <2>1 DEF Slot
  <2>. QED  BY <2>1, <2>2, <2>3 DEF WindowSpans
<1>. QED  BY <1>1, <1>2, <1>3 DEF StatsNext

(***************************************************************************)
(* getCpuUtilStat, for a ring of any capacity, any offsets and any number  *)
(* of samples: a rate compares the newest sample with one that is still in *)
(* the ring, and goes back one interval less than its offset, if that fits *)
(* in the ring.                                                            *)
(***************************************************************************)
THEOREM WindowsSpanSamples ==
    StatsSpec => []WindowSpans
<1>1. StatsInit => Ring
  BY InitRing
<1>2. StatsInit => WindowSpans
  BY DEF StatsInit, NoRates, WindowSpans
<1>3. Ring /\ WindowSpans /\ [StatsNext]_statsVars => (Ring /\ WindowSpans)'
  BY WindowStep
<1>. QED  BY <1>1, <1>2, <1>3, PTL DEF StatsSpec
=============================================================================
