-------------------------- MODULE TableStreamProofs --------------------------
(***************************************************************************)
(* Proofs about TableStream, for every set of rows, values and             *)
(* subscriptions and every bound.                                          *)
(***************************************************************************)
EXTENDS TableStream, TLAPS

(***************************************************************************)
(* What the client knows under a name, with what the next tick will send.  *)
(***************************************************************************)
Shown(n) == Merged(sent, msiAll)[n]

(***************************************************************************)
(* How far dbTableKeySubscribe is: it listens to what it has passed, sends *)
(* nothing and has no listener before its loop, and keeps no data for the  *)
(* next tick if there is none.                                             *)
(***************************************************************************)
Staged ==
    /\ pc # "done" => pubsub = TblPaths \ todo
    /\ pc \in {"setup", "keys", "read", "first"} =>
          sent = NoMap /\ \A t \in AllPaths : lpc[t] = "off" /\ msi[t] = NoMap
    /\ pc \in {"first", "loop"} => todo = {}
    /\ pc \in {"keys", "read"} => cur \in TblPaths \ todo
    /\ pc = "read" /\ sub.shape # "table" => left \subseteq {cur}
    /\ pc = "setup" /\ sub.shape = "table" => msiAll = NoMap
    /\ pc = "loop" /\ ~sub.sampled => msiAll = NoMap
    /\ closed => disposed

(***************************************************************************)
(* The listener of a key hears of that key only, and any listener reads    *)
(* the row of a notification.                                              *)
(***************************************************************************)
Heeded ==
    /\ \A t \in Rows : lrow[t] = t /\ \A i \in DOMAIN ntf[t] : ntf[t][i].row = t
    /\ \A t \in AllPaths : lpc[t] = "read" => lrow[t] \in Rows

(***************************************************************************)
(* What the listener of a key compares the next data with has been sent or *)
(* is about to be, under the names of the key.                             *)
(***************************************************************************)
NamesOf(t) == IF sub.shape = "key" THEN Fields ELSE {t}

Last(t) ==
    /\ \A n \in JsonNames \ NamesOf(t) : msi[t][n] = None
    /\ lpc[t] = "push" => newMsi[t] = msi[t]
    /\ lpc[t] # "push" => \A n \in NamesOf(t) : msi[t][n] # None => Shown(n) = msi[t][n]

(***************************************************************************)
(* The values of a row of a key are known, or a notification of it is      *)
(* under way, or somebody is yet to read it or to pass it on, or the row   *)
(* was last changed by a command that is ignored.                          *)
(***************************************************************************)
Told(t) == \E i \in DOMAIN ntf[t] : ntf[t][i].op = "hset"

Unread(t) == \/ t \in todo
             \/ pc = "keys" /\ cur = t
             \/ pc = "read" /\ t \in left

Latest(t, n) ==
    IF lpc[t] = "push" /\ newMsi[t][n] # None THEN newMsi[t][n] ELSE Shown(n)

\* v, under name n, is up to date with the fields there are of row t
Good(t, n, v) ==
    IF sub.shape = "key"
    THEN db[t][n] # None => v = db[t][n]
    ELSE \A f \in Fields : db[t][f] # None => v # None /\ v[f] = db[t][f]

Known(t) == \A n \in NamesOf(t) : Good(t, n, Latest(t, n))

Current(t) ==
    lpc[t] \notin {"blocked", "exit"} =>
        Told(t) \/ Unread(t) \/ lpc[t] = "read" \/ t \in unseen \/ Known(t)

(***************************************************************************)
(* A row of a table that is gone is not shown, or a notification of that   *)
(* is under way or about to be passed on, or it went by a command that is  *)
(* ignored.                                                                *)
(***************************************************************************)
ToldGone(r) ==
    \E i \in DOMAIN ntf[Table] : ntf[Table][i].row = r /\ ntf[Table][i].op \in {"hdel", "del"}

Gone(r) ==
    /\ lpc[Table] = "push" => newMsi[Table][r] \in {None, Empty}
    /\ db[r] = Empty /\ r \notin unseen =>
          \/ Shown(r) \in {None, Empty}
          \/ ToldGone(r)
          \/ lpc[Table] = "push" /\ newMsi[Table][r] = Empty

Kept ==
    IF sub.shape = "table"
    THEN pc # "done" => \A r \in Rows : Gone(r)
    ELSE pc # "done" => \A t \in sub.rows : Last(t) /\ (~disposed => Current(t))

TableInv == TypeOK /\ Staged /\ Heeded /\ Kept

-----------------------------------------------------------------------------
(* Operators *)

(***************************************************************************)
(* The names and the values of the assumption.                             *)
(***************************************************************************)
LEMMA Constants ==
    /\ Fields \cap Rows = {} /\ Table \notin Rows
    /\ Empty \in Contents /\ None \notin Contents
    /\ \A c \in Contents, f \in Fields : c[f] \in Vals \cup {None}
    /\ \A f \in Fields : Empty[f] = None
BY TableAssumption DEF Empty

(***************************************************************************)
(* A subscription and its table paths.                                     *)
(***************************************************************************)
LEMMA SubFacts ==
    ASSUME sub \in Subs
    PROVE  /\ sub.shape \in {"key", "named", "table"}
           /\ sub.rows \subseteq Rows
           /\ sub.shape = "key" => \E r \in Rows : sub.rows = {r}
           /\ sub.shape = "table" => sub.rows = Rows /\ TblPaths = {Table}
           /\ sub.shape # "table" => TblPaths = sub.rows
           /\ TblPaths \subseteq AllPaths
           /\ sub.sampled \in BOOLEAN /\ sub.updateOnly \in BOOLEAN
           /\ sub.sampled \/ sub.updateOnly
<1>1. sub \in Subscription
  BY TableAssumption
<1>2. /\ sub.shape = "key" => \E r \in Rows : sub.rows = {r}
      /\ sub.shape = "table" => sub.rows = Rows
      /\ sub.sampled \/ sub.updateOnly
  BY TableAssumption
<1>. QED  BY <1>1, <1>2 DEF Subscription, TblPaths, AllPaths

(***************************************************************************)
(* The map without entries.                                                *)
(***************************************************************************)
LEMMA NoMapFacts == NoMap \in Maps /\ \A n \in JsonNames : NoMap[n] = None
BY DEF NoMap, Maps

(***************************************************************************)
(* A map in which one entry has been stored.                               *)
(***************************************************************************)
LEMMA OneEntry ==
    ASSUME NEW k \in JsonNames, NEW v \in Contents
    PROVE  /\ [NoMap EXCEPT ![k] = v] \in Maps
           /\ [NoMap EXCEPT ![k] = v][k] = v
           /\ \A n \in JsonNames : n # k => [NoMap EXCEPT ![k] = v][n] = None
BY DEF NoMap, Maps

(***************************************************************************)
(* A merge, name by name.                                                  *)
(***************************************************************************)
LEMMA MergedFacts ==
    ASSUME NEW m \in Maps, NEW u \in Maps
    PROVE  /\ Merged(m, u) \in Maps
           /\ \A n \in JsonNames : Merged(m, u)[n] = IF u[n] = None THEN m[n] ELSE u[n]
BY DEF Merged, Maps

(***************************************************************************)
(* Maps that agree on every name are equal.                                *)
(***************************************************************************)
LEMMA MapsEqual ==
    ASSUME NEW m \in Maps, NEW u \in Maps, \A n \in JsonNames : m[n] = u[n]
    PROVE  m = u
BY DEF Maps

(***************************************************************************)
(* The data of a row: the fields, or one entry with its name.              *)
(***************************************************************************)
LEMMA RowMsiFacts ==
    ASSUME TypeOK, NEW r \in Rows, NEW alone \in BOOLEAN
    PROVE  /\ RowMsi(r, alone) \in Maps
           /\ alone /\ sub.shape # "named" =>
                 \A n \in JsonNames :
                     RowMsi(r, alone)[n] = IF n \in Fields THEN db[r][n] ELSE None
           /\ ~(alone /\ sub.shape # "named") =>
                 /\ RowMsi(r, alone)[r] = db[r]
                 /\ \A n \in JsonNames : n # r => RowMsi(r, alone)[n] = None
<1>1. db[r] \in Contents /\ r \in JsonNames /\ Fields \subseteq JsonNames
  BY DEF TypeOK, JsonNames
<1>2. CASE alone /\ sub.shape # "named"
  <2>1. RowMsi(r, alone) = [n \in JsonNames |-> IF n \in Fields THEN db[r][n] ELSE None]
    BY <1>2 DEF RowMsi
  <2>2. \A f \in Fields : db[r][f] \in Vals \cup {None}
    BY <1>1, Constants
  <2>. QED  BY <1>2, <2>1, <2>2 DEF Maps
<1>3. CASE ~(alone /\ sub.shape # "named")
  <2>1. RowMsi(r, alone) = [NoMap EXCEPT ![r] = db[r]]
    BY <1>3 DEF RowMsi
  <2>2. /\ [NoMap EXCEPT ![r] = db[r]] \in Maps /\ [NoMap EXCEPT ![r] = db[r]][r] = db[r]
        /\ \A n \in JsonNames : n # r => [NoMap EXCEPT ![r] = db[r]][n] = None
    BY <1>1, OneEntry
  <2>. QED  BY <1>3, <2>1, <2>2
<1>. QED  BY <1>2, <1>3

(***************************************************************************)
(* The data of the row of a key, under the names of the row: whoever is    *)
(* shown it, on top of anything, is up to date.                            *)
(***************************************************************************)
LEMMA KeyMsi ==
    ASSUME TypeOK, NEW r \in Rows, sub.shape # "table"
    PROVE  /\ RowMsi(r, TRUE) \in Maps
           /\ \A n \in JsonNames \ NamesOf(r) : RowMsi(r, TRUE)[n] = None
           /\ \A n \in NamesOf(r) : \A v :
                 (RowMsi(r, TRUE)[n] # None => v = RowMsi(r, TRUE)[n]) => Good(r, n, v)
<1>1. sub.shape \in {"key", "named", "table"}
  BY SubFacts DEF TypeOK
<1>2. TRUE \in BOOLEAN /\ db[r] \in Contents /\ db[r] # None /\ Fields \subseteq JsonNames
  BY Constants DEF TypeOK, JsonNames
<1>3. CASE sub.shape = "key"
  <2>1. \A n \in JsonNames : RowMsi(r, TRUE)[n] = IF n \in Fields THEN db[r][n] ELSE None
    BY <1>2, <1>3, RowMsiFacts
  <2>. QED  BY <1>2, <1>3, <2>1, RowMsiFacts DEF NamesOf, Good
<1>4. CASE sub.shape = "named"
  <2>1. /\ RowMsi(r, TRUE)[r] = db[r]
        /\ \A n \in JsonNames : n # r => RowMsi(r, TRUE)[n] = None
    BY <1>2, <1>4, RowMsiFacts
  <2>. QED  BY <1>2, <1>4, <2>1, RowMsiFacts DEF NamesOf, Good
<1>. QED  BY <1>1, <1>3, <1>4

(***************************************************************************)
(* What the client knows, name by name.                                    *)
(***************************************************************************)
LEMMA ShownIs ==
    ASSUME NEW n \in JsonNames
    PROVE  Shown(n) = IF msiAll[n] = None THEN sent[n] ELSE msiAll[n]
BY DEF Shown, Merged

(***************************************************************************)
(* The notifications of a write, as a sequence.                            *)
(***************************************************************************)
Notes(r, ops) == [x \in DOMAIN ops |-> [row |-> r, op |-> ops[x]]]

(***************************************************************************)
(* They are a sequence of messages, one for each operation.                *)
(***************************************************************************)
LEMMA NotesFacts ==
    ASSUME NEW r \in Rows, NEW ops \in Seq(Ops)
    PROVE  /\ Notes(r, ops) \in Seq(Message)
           /\ Len(Notes(r, ops)) = Len(ops)
           /\ \A i \in 1..Len(ops) : Notes(r, ops)[i] = [row |-> r, op |-> ops[i]]
<1>1. DOMAIN ops = 1..Len(ops) /\ Len(ops) \in Nat
  OBVIOUS
<1>2. \A i \in 1..Len(ops) : ops[i] \in Ops
  OBVIOUS
<1>3. Notes(r, ops) = [x \in 1..Len(ops) |-> [row |-> r, op |-> ops[x]]]
  BY <1>1 DEF Notes
<1>4. \A i \in 1..Len(ops) : [row |-> r, op |-> ops[i]] \in Message
  BY <1>2 DEF Message
<1>5. Notes(r, ops) \in [1..Len(ops) -> Message]
  BY <1>3, <1>4
<1>. QED  BY <1>1, <1>3, <1>5

(***************************************************************************)
(* Whatever is found in a sequence is found after its head has been taken, *)
(* unless it is the head, and after something has been appended.           *)
(***************************************************************************)
LEMMA TailKeeps ==
    ASSUME NEW S, NEW s \in Seq(S), s # <<>>
    PROVE  /\ Tail(s) \in Seq(S)
           /\ \A i \in DOMAIN s : s[i] = Head(s) \/ \E j \in DOMAIN Tail(s) : Tail(s)[j] = s[i]
           /\ \A j \in DOMAIN Tail(s) : \E i \in DOMAIN s : Tail(s)[j] = s[i]
<1>1. /\ Len(s) \in Nat /\ Len(s) > 0 /\ DOMAIN s = 1..Len(s)
      /\ Tail(s) \in Seq(S) /\ Len(Tail(s)) = Len(s) - 1
      /\ DOMAIN Tail(s) = 1..(Len(s) - 1) /\ Head(s) = s[1]
      /\ \A j \in 1..(Len(s) - 1) : Tail(s)[j] = s[j + 1]
  OBVIOUS
<1>2. ASSUME NEW i \in DOMAIN s, s[i] # Head(s)
      PROVE  \E j \in DOMAIN Tail(s) : Tail(s)[j] = s[i]
  <2>1. i \in 1..Len(s) /\ i # 1
    BY <1>1, <1>2
  <2>2. i - 1 \in 1..(Len(s) - 1) /\ (i - 1) + 1 = i
    BY <1>1, <2>1
  <2>. QED  BY <1>1, <2>2
<1>3. ASSUME NEW j \in DOMAIN Tail(s) PROVE \E i \in DOMAIN s : Tail(s)[j] = s[i]
  <2>1. j + 1 \in 1..Len(s)
    BY <1>1
  <2>. QED  BY <1>1, <2>1
<1>. QED  BY <1>1, <1>2, <1>3

(***************************************************************************)
(* What is in a sequence that two others make up is in one of them, and    *)
(* the other way round.                                                    *)
(***************************************************************************)
LEMMA ConcatKeeps ==
    ASSUME NEW s \in Seq(Message), NEW u \in Seq(Message), NEW w \in Seq(Message),
           Len(w) = Len(s) + Len(u),
           \A j \in 1..Len(w) : w[j] = IF j <= Len(s) THEN s[j] ELSE u[j - Len(s)]
    PROVE  /\ \A i \in DOMAIN s : \E j \in DOMAIN w : w[j] = s[i]
           /\ \A i \in DOMAIN u : \E j \in DOMAIN w : w[j] = u[i]
           /\ \A j \in DOMAIN w : \/ \E i \in DOMAIN s : w[j] = s[i]
                                  \/ \E i \in DOMAIN u : w[j] = u[i]
<1>1. /\ Len(s) \in Nat /\ DOMAIN s = 1..Len(s) /\ Len(u) \in Nat /\ DOMAIN u = 1..Len(u)
      /\ DOMAIN w = 1..(Len(s) + Len(u))
  OBVIOUS
<1>2. ASSUME NEW i \in DOMAIN s PROVE \E j \in DOMAIN w : w[j] = s[i]
  <2>1. i \in 1..(Len(s) + Len(u)) /\ i <= Len(s)
    BY <1>1
  <2>. QED  BY <1>1, <2>1
<1>3. ASSUME NEW i \in DOMAIN u PROVE \E j \in DOMAIN w : w[j] = u[i]
  <2>1. /\ i + Len(s) \in 1..(Len(s) + Len(u))
        /\ ~(i + Len(s) <= Len(s)) /\ (i + Len(s)) - Len(s) = i
    BY <1>1
  <2>. QED  BY <1>1, <2>1
<1>4. ASSUME NEW j \in DOMAIN w
      PROVE  \/ \E i \in DOMAIN s : w[j] = s[i]
             \/ \E i \in DOMAIN u : w[j] = u[i]
  <2>1. CASE j <= Len(s)
    <3>1. j \in 1..Len(s)
      BY <1>1, <2>1
    <3>. QED  BY <1>1, <2>1, <3>1
  <2>2. CASE ~(j <= Len(s))
    <3>1. j - Len(s) \in 1..Len(u)
      BY <1>1, <2>2
    <3>. QED  BY <1>1, <2>2, <3>1
  <2>. QED  BY <2>1, <2>2
<1>. QED  BY <1>2, <1>3, <1>4

-----------------------------------------------------------------------------
(* Types and stages *)

(***************************************************************************)
(* The subscription stays, and with it its table paths and names.          *)
(***************************************************************************)
LEMMA PathsFixed ==
    ASSUME sub' = sub
    PROVE  TblPaths' = TblPaths /\ \A t : NamesOf(t)' = NamesOf(t)
BY DEF TblPaths, NamesOf

Base == TypeOK /\ Staged /\ Heeded

(***************************************************************************)
(* Every step of dbTableKeySubscribe keeps the types.                      *)
(***************************************************************************)
LEMMA SetupTypes ==
    ASSUME Base,
           \/ \E t \in TblPaths : MainSubscribe(t)
           \/ \E r \in Rows : MainRead(r)
           \/ MainKeys \/ MainReadDone \/ MainFatal
    PROVE  TypeOK'
<1>. TypeOK
  BY DEF Base
<1>. USE SubFacts, PathsFixed DEF TypeOK, redisVars, setupVars, lisVars, endVars
<1>1. CASE \E t \in TblPaths : MainSubscribe(t)
  BY <1>1 DEF MainSubscribe
<1>2. CASE MainKeys
  <2>1. sub.shape # "table" => cur \in Rows
    BY <1>2 DEF MainKeys, Base, Staged
  <2>2. left' \subseteq Rows
    BY <1>2, <2>1 DEF MainKeys
  <2>. QED  BY <1>2, <2>2 DEF MainKeys
<1>3. CASE \E r \in Rows : MainRead(r)
  <2>1. PICK r \in Rows : MainRead(r)
    BY <1>3
  <2>2. msiAll' \in Maps
    <3>1. (sub.shape # "table") \in BOOLEAN
      OBVIOUS
    <3>2. RowMsi(r, sub.shape # "table") \in Maps
      BY <3>1, RowMsiFacts
    <3>. QED  BY <2>1, <3>2, MergedFacts DEF MainRead
  <2>. QED  BY <2>1, <2>2 DEF MainRead
<1>4. CASE MainReadDone
  BY <1>4 DEF MainReadDone
<1>5. CASE MainFatal
  BY <1>5 DEF MainFatal, HandleFatal, Return, SignalSync
<1>. QED  BY <1>1, <1>2, <1>3, <1>4, <1>5

(***************************************************************************)
(* The steps from the first message on keep the types.                     *)
(***************************************************************************)
LEMMA LoopTypes ==
    ASSUME Base,
           \/ \E t \in TblPaths : MainUpdate(t)
           \/ MainFirst \/ MainTick \/ MainRefused \/ MainStop
    PROVE  TypeOK'
<1>. TypeOK
  BY DEF Base
<1>. USE SubFacts, PathsFixed DEF TypeOK, redisVars, setupVars, lisVars, endVars
<1>1. CASE \E t \in TblPaths : MainUpdate(t)
  <2>1. PICK t \in TblPaths : MainUpdate(t)
    BY <1>1
  <2>2. newMsi[t] \in Maps
    OBVIOUS
  <2>3. sent' \in Maps /\ msiAll' \in Maps
    BY <2>1, <2>2, MergedFacts DEF MainUpdate, Overall, SendMsi
  <2>. QED  BY <2>1, <2>3 DEF MainUpdate
<1>2. CASE MainFirst
  <2>1. sent' \in Maps /\ msiAll' \in Maps
    BY <1>2, MergedFacts, NoMapFacts DEF MainFirst, SendMsi
  <2>. QED  BY <1>2, <2>1 DEF MainFirst, SignalSync, Heard
<1>3. CASE MainTick
  <2>1. sent' \in Maps /\ msiAll' \in Maps
    BY <1>3, MergedFacts, NoMapFacts DEF MainTick, Ticked
  <2>. QED  BY <1>3, <2>1 DEF MainTick
<1>4. CASE MainRefused
  <2>1. lpc' \in [AllPaths -> {"off", "select", "recv", "read", "push", "blocked", "exit"}]
    BY <1>4 DEF MainRefused
  <2>. QED  BY <1>4, <2>1 DEF MainRefused, HandleFatal, Return, SignalSync
<1>5. CASE MainStop
  BY <1>5 DEF MainStop, Return
<1>. QED  BY <1>1, <1>2, <1>3, <1>4, <1>5

(***************************************************************************)
(* Every step of a listener, of redis and of the session keeps them.       *)
(***************************************************************************)
LEMMA ListenTypes ==
    ASSUME Base, NEW t \in TblPaths, Listener(t) \/ ListenFatal(t) \/ ListenError(t)
    PROVE  TypeOK'
<1>. TypeOK /\ t \in AllPaths
  BY SubFacts DEF Base, TypeOK
<1>. USE SubFacts, PathsFixed DEF TypeOK, redisVars, setupVars, lisVars, endVars
<1>1. CASE ListenSelect(t)
  BY <1>1 DEF ListenSelect
<1>2. CASE ListenTimeout(t)
  BY <1>2 DEF ListenTimeout
<1>3. CASE ListenRecv(t)
  <2>. DEFINE m == Head(ntf[t])
  <2>1. ntf[t] \in Seq(Message) /\ ntf[t] # <<>>
    BY <1>3 DEF ListenRecv
  <2>2. m \in Message /\ Tail(ntf[t]) \in Seq(Message)
    BY <2>1
  <2>3. m.row \in Rows /\ m.row \in AllPaths /\ m.row \in JsonNames
    BY <2>2 DEF Message, AllPaths, JsonNames
  <2>. HIDE DEF m
  <2>4. [NoMap EXCEPT ![m.row] = Empty] \in Maps
    BY <2>3, OneEntry, Constants
  <2>5. newMsi' \in [AllPaths -> Maps]
    BY <1>3, <2>4, NoMapFacts DEF ListenRecv, m
  <2>6. ntf' \in [AllPaths -> Seq(Message)]
    BY <1>3, <2>2 DEF ListenRecv
  <2>7. lrow' \in [AllPaths -> AllPaths]
    BY <1>3, <2>3 DEF ListenRecv, m
  <2>8. lpc' \in [AllPaths -> {"off", "select", "recv", "read", "push", "blocked", "exit"}]
    BY <1>3 DEF ListenRecv
  <2>. QED  BY <1>3, <2>5, <2>6, <2>7, <2>8 DEF ListenRecv
<1>4. CASE ListenRead(t)
  <2>1. lrow[t] \in Rows
    BY <1>4 DEF ListenRead, Base, Heeded
  <2>2. RowMsi(lrow[t], TRUE) \in Maps
    BY <2>1, RowMsiFacts
  <2>3. msi' \in [AllPaths -> Maps] /\ newMsi' \in [AllPaths -> Maps]
    BY <1>4, <2>2 DEF ListenRead
  <2>4. lpc' \in [AllPaths -> {"off", "select", "recv", "read", "push", "blocked", "exit"}]
    BY <1>4 DEF ListenRead
  <2>. QED  BY <1>4, <2>3, <2>4 DEF ListenRead
<1>5. CASE ListenUnblock(t)
  BY <1>5 DEF ListenUnblock
<1>6. CASE ListenError(t)
  <2>1. lost' \in Nat
    BY <1>6 DEF ListenError
  <2>2. lpc' \in [AllPaths -> {"off", "select", "recv", "read", "push", "blocked", "exit"}]
    BY <1>6 DEF ListenError
  <2>. QED  BY <1>6, <2>1, <2>2 DEF ListenError
<1>7. CASE ListenFatal(t)
  BY <1>7 DEF ListenFatal
<1>. QED  BY <1>1, <1>2, <1>3, <1>4, <1>5, <1>6, <1>7 DEF Listener

(***************************************************************************)
(* The notifications of a write go to the paths that match.                *)
(***************************************************************************)
LEMMA NotifyFacts ==
    ASSUME TypeOK, NEW r \in Rows, NEW ops \in Seq(Ops), Notify(r, ops)
    PROVE  /\ ntf' \in [AllPaths -> Seq(Message)]
           /\ \A t \in AllPaths :
                 ntf'[t] = IF t \in pubsub /\ r \in RowsOf(t) THEN ntf[t] \o Notes(r, ops)
                                                            ELSE ntf[t]
<1>1. \A t \in AllPaths : ntf[t] \in Seq(Message)
  BY DEF TypeOK
<1>2. Notes(r, ops) \in Seq(Message)
  BY NotesFacts
<1>3. ntf' = [t \in AllPaths |-> IF t \in pubsub /\ r \in RowsOf(t)
                                THEN ntf[t] \o Notes(r, ops) ELSE ntf[t]]
  BY DEF Notify, Notes
<1>4. \A t \in AllPaths : ntf[t] \o Notes(r, ops) \in Seq(Message)
  BY <1>1, <1>2
<1>. QED  BY <1>1, <1>3, <1>4

(***************************************************************************)
(* What a write changes: the row, as the contents of one, and the          *)
(* notifications.                                                          *)
(***************************************************************************)
Rest == <<sub, lost, pubsub, pc, todo, cur, left, msiAll, synced, lpc, lrow, msi, newMsi,
          sent, fatal, disposed, closed>>

LEMMA WriteFacts ==
    ASSUME TypeOK, NEW r \in sub.rows, NEW c \in Contents, NEW ops \in Seq(Ops),
           Write(r, c, ops)
    PROVE  /\ UNCHANGED Rest /\ Notify(r, ops) /\ r \in Rows
           /\ db' = [db EXCEPT ![r] = c] /\ db' \in [Rows -> Contents]
           /\ ntf' \in [AllPaths -> Seq(Message)] /\ writes' \in Nat
<1>1. r \in Rows
  BY SubFacts DEF TypeOK
<1>2. /\ UNCHANGED Rest /\ Notify(r, ops) /\ db' = [db EXCEPT ![r] = c]
      /\ writes' = writes + 1
  BY DEF Write, Rest, setupVars, lisVars, endVars
<1>. QED  BY <1>1, <1>2, NotifyFacts DEF TypeOK

(***************************************************************************)
(* Every command is a write of its own kind.                               *)
(***************************************************************************)
LEMMA RedisWrites ==
    ASSUME TypeOK, NEW r \in sub.rows
    PROVE  /\ <<"hset">> \in Seq(Ops) /\ <<"hdel">> \in Seq(Ops) /\ <<"other">> \in Seq(Ops)
           /\ <<"hdel", "del">> \in Seq(Ops) /\ <<"del">> \in Seq(Ops)
           /\ RedisDel(r) => \E ops \in Seq(Ops) : Write(r, Empty, ops)
           /\ \A c : RedisSet(r, c) \/ RedisHdel(r, c) \/ RedisOther(r, c) =>
                        \E ops \in Seq(Ops) : Write(r, c, ops)
<1>1. /\ <<"hset">> \in Seq(Ops) /\ <<"hdel">> \in Seq(Ops) /\ <<"other">> \in Seq(Ops)
      /\ <<"hdel", "del">> \in Seq(Ops) /\ <<"del">> \in Seq(Ops)
  BY DEF Ops
<1>. QED  BY <1>1 DEF RedisDel, RedisSet, RedisHdel, RedisOther

(***************************************************************************)
(* A step of redis writes one row of the subscription.                     *)
(***************************************************************************)
LEMMA RedisFacts ==
    ASSUME TypeOK, Redis
    PROVE  /\ \E r \in sub.rows, c \in Contents, ops \in Seq(Ops) : Write(r, c, ops)
           /\ unseen' \subseteq Rows
<1>1. PICK r \in sub.rows : \/ RedisDel(r)
                           \/ \E c \in Contents : RedisSet(r, c) \/ RedisHdel(r, c) \/ RedisOther(r, c)
  BY DEF Redis
<1>2. \E c \in Contents, ops \in Seq(Ops) : Write(r, c, ops)
  BY <1>1, RedisWrites, Constants
<1>3. unseen' \in {unseen, unseen \ {r}, unseen \cup {r}} /\ r \in Rows
  BY <1>1, SubFacts DEF RedisDel, RedisSet, RedisHdel, RedisOther, TypeOK
<1>. QED  BY <1>2, <1>3 DEF TypeOK

(***************************************************************************)
(* The steps of redis and of the session keep the types.                   *)
(***************************************************************************)
LEMMA OutsideTypes ==
    ASSUME Base, Redis \/ Session
    PROVE  TypeOK'
<1>. TypeOK
  BY DEF Base
<1>1. CASE Redis
  <2>1. /\ UNCHANGED Rest /\ db' \in [Rows -> Contents] /\ writes' \in Nat
        /\ ntf' \in [AllPaths -> Seq(Message)] /\ unseen' \subseteq Rows
    BY <1>1, RedisFacts, WriteFacts
  <2>. QED  BY <2>1, PathsFixed DEF TypeOK, Rest
<1>2. CASE Session
  BY <1>2, PathsFixed DEF Session, SessionDispose, SessionClose, TypeOK, redisVars, setupVars,
                          lisVars, endVars
<1>. QED  BY <1>1, <1>2

(***************************************************************************)
(* Every step of dbTableKeySubscribe keeps the stages.                     *)
(***************************************************************************)
LEMMA SetupStaged ==
    ASSUME Base,
           \/ \E t \in TblPaths : MainSubscribe(t)
           \/ \E r \in Rows : MainRead(r)
           \/ MainKeys \/ MainReadDone \/ MainFatal
    PROVE  Staged'
<1>. TypeOK /\ Staged
  BY DEF Base
<1>. USE SubFacts, PathsFixed DEF TypeOK, redisVars, setupVars, lisVars, endVars
<1>1. CASE \E t \in TblPaths : MainSubscribe(t)
  BY <1>1 DEF MainSubscribe, Staged
<1>2. CASE MainKeys
  BY <1>2 DEF MainKeys, Staged
<1>3. CASE \E r \in Rows : MainRead(r)
  BY <1>3 DEF MainRead, Staged
<1>4. CASE MainReadDone
  <2>1. sub.shape = "table" => todo = {}
    BY <1>4 DEF MainReadDone, Staged
  <2>. QED  BY <1>4, <2>1 DEF MainReadDone, Staged
<1>5. CASE MainFatal
  BY <1>5 DEF MainFatal, HandleFatal, Return, Staged
<1>. QED  BY <1>1, <1>2, <1>3, <1>4, <1>5

(***************************************************************************)
(* The steps from the first message on keep the stages: only the first     *)
(* leaves the set-up, and a tick keeps nothing if there are no ticks.      *)
(***************************************************************************)
LEMMA LoopStaged ==
    ASSUME Base,
           \/ \E t \in TblPaths : MainUpdate(t)
           \/ MainFirst \/ MainTick \/ MainRefused \/ MainStop
    PROVE  Staged'
<1>. TypeOK /\ Staged
  BY DEF Base
<1>. USE SubFacts, PathsFixed DEF TypeOK, redisVars, setupVars, lisVars, endVars
<1>1. CASE \E t \in TblPaths : MainUpdate(t)
  BY <1>1 DEF MainUpdate, Staged
<1>2. CASE MainFirst
  BY <1>2 DEF MainFirst, Staged
<1>3. CASE MainTick
  BY <1>3 DEF MainTick, Staged
<1>4. CASE MainRefused
  BY <1>4 DEF MainRefused, HandleFatal, Return, Staged
<1>5. CASE MainStop
  BY <1>5 DEF MainStop, Return, Staged
<1>. QED  BY <1>1, <1>2, <1>3, <1>4, <1>5

(***************************************************************************)
(* A listener that runs is one of the loop.                                *)
(***************************************************************************)
LEMMA Awake ==
    ASSUME Base, NEW t \in AllPaths, lpc[t] # "off"
    PROVE  pc \in {"loop", "done"}
BY DEF Base, Staged, TypeOK

(***************************************************************************)
(* A listener changes nothing of the stages.                               *)
(***************************************************************************)
LEMMA ListenStaged ==
    ASSUME Base, NEW t \in TblPaths, Listener(t) \/ ListenFatal(t) \/ ListenError(t)
    PROVE  Staged'
<1>. TypeOK /\ Staged /\ t \in AllPaths
  BY SubFacts DEF Base, TypeOK
<1>1. /\ lpc[t] # "off"
      /\ UNCHANGED <<sub, pubsub, todo, cur, left, pc, msiAll, sent, disposed, closed>>
  BY DEF Listener, ListenSelect, ListenTimeout, ListenRecv, ListenRead, ListenUnblock,
         ListenError, ListenFatal, redisVars, setupVars, endVars
<1>2. pc \in {"loop", "done"}
  BY <1>1, Awake
<1>. QED  BY <1>1, <1>2, PathsFixed DEF Staged

(***************************************************************************)
(* Redis and the session change nothing of the stages; the channel is      *)
(* closed after the queue has been disposed of.                            *)
(***************************************************************************)
LEMMA OutsideStaged ==
    ASSUME Base, Redis \/ Session
    PROVE  Staged'
<1>. TypeOK /\ Staged
  BY DEF Base
<1>1. /\ UNCHANGED <<sub, pubsub, todo, cur, left, pc, msiAll, sent, lpc, msi>>
      /\ closed' => disposed'
  <2>1. CASE Redis
    BY <2>1, RedisFacts, WriteFacts DEF Rest, Staged
  <2>2. CASE Session
    BY <2>2 DEF Session, SessionDispose, SessionClose, redisVars, setupVars, lisVars, endVars,
                Staged
  <2>. QED  BY <2>1, <2>2
<1>. QED  BY <1>1, PathsFixed DEF Staged

(***************************************************************************)
(* Every step keeps what a listener reads.                                 *)
(***************************************************************************)
LEMMA MainHeeded ==
    ASSUME Base, Main \/ MainFatal
    PROVE  Heeded'
<1>. TypeOK /\ Heeded
  BY DEF Base
<1>1. /\ UNCHANGED <<ntf, lrow>>
      /\ \A t \in AllPaths : lpc'[t] = "read" => lpc[t] = "read"
  BY DEF Main, MainFatal, MainKeys, MainReadDone, MainFirst, MainTick, MainRefused, MainStop,
         MainSubscribe, MainUpdate, MainRead, Heard, lisVars, TypeOK
<1>. QED  BY <1>1 DEF Heeded

(***************************************************************************)
(* A listener takes the row from the notification.                         *)
(***************************************************************************)
LEMMA ListenHeeded ==
    ASSUME Base, NEW t \in TblPaths, Listener(t) \/ ListenFatal(t) \/ ListenError(t)
    PROVE  Heeded'
<1>. TypeOK /\ Heeded /\ t \in AllPaths
  BY SubFacts DEF Base, TypeOK
<1>1. CASE ListenRecv(t)
  <2>1. ntf[t] \in Seq(Message) /\ ntf[t] # <<>>
    BY <1>1 DEF ListenRecv, TypeOK, Message
  <2>2. Head(ntf[t]) \in Message /\ Head(ntf[t]) = ntf[t][1] /\ 1 \in DOMAIN ntf[t]
    BY <2>1
  <2>3. Head(ntf[t]).row \in Rows /\ (t \in Rows => Head(ntf[t]).row = t)
    BY <2>2 DEF Message, Heeded
  <2>4. t \in Rows => \A j \in DOMAIN Tail(ntf[t]) : Tail(ntf[t])[j].row = t
    BY <2>1, TailKeeps DEF Heeded
  <2>5. /\ ntf' = [ntf EXCEPT ![t] = Tail(ntf[t])]
        /\ lrow' = [lrow EXCEPT ![t] = Head(ntf[t]).row]
        /\ \A u \in AllPaths : u # t => lpc'[u] = lpc[u]
    BY <1>1 DEF ListenRecv, TypeOK
  <2>6. Rows \subseteq AllPaths
    BY DEF AllPaths
  <2>. QED  BY <2>3, <2>4, <2>5, <2>6 DEF Heeded, TypeOK
<1>2. CASE ~ListenRecv(t)
  <2>1. /\ UNCHANGED <<ntf, lrow>>
        /\ \A u \in AllPaths : lpc'[u] = "read" => lpc[u] = "read"
    BY <1>2 DEF Listener, ListenSelect, ListenTimeout, ListenRead, ListenUnblock,
                ListenError, ListenFatal, TypeOK
  <2>. QED  BY <2>1 DEF Heeded
<1>. QED  BY <1>1, <1>2

(***************************************************************************)
(* What a write of a row leaves of the notifications of a path: they stay, *)
(* and those that are added tell of the row.                               *)
(***************************************************************************)
LEMMA WriteTells ==
    ASSUME TypeOK, NEW r \in Rows, NEW ops \in Seq(Ops), Notify(r, ops),
           NEW t \in AllPaths
    PROVE  /\ \A i \in DOMAIN ntf[t] : \E j \in DOMAIN ntf'[t] : ntf'[t][j] = ntf[t][i]
           /\ \A j \in DOMAIN ntf'[t] :
                 \/ \E i \in DOMAIN ntf[t] : ntf'[t][j] = ntf[t][i]
                 \/ r \in RowsOf(t) /\ ntf'[t][j].row = r
           /\ t \in pubsub /\ r \in RowsOf(t) =>
                 \A k \in 1..Len(ops) : \E j \in DOMAIN ntf'[t] :
                     ntf'[t][j] = [row |-> r, op |-> ops[k]]
<1>1. ntf[t] \in Seq(Message)
  BY DEF TypeOK
<1>2. /\ Notes(r, ops) \in Seq(Message)
      /\ DOMAIN Notes(r, ops) = 1..Len(ops)
      /\ \A i \in 1..Len(ops) : Notes(r, ops)[i] = [row |-> r, op |-> ops[i]]
  BY NotesFacts
<1>3. CASE t \in pubsub /\ r \in RowsOf(t)
  <2>1. ntf'[t] = ntf[t] \o Notes(r, ops)
    BY <1>3, NotifyFacts
  <2>2. /\ \A i \in DOMAIN ntf[t] : \E j \in DOMAIN ntf'[t] : ntf'[t][j] = ntf[t][i]
        /\ \A i \in DOMAIN Notes(r, ops) : \E j \in DOMAIN ntf'[t] :
              ntf'[t][j] = Notes(r, ops)[i]
        /\ \A j \in DOMAIN ntf'[t] :
              \/ \E i \in DOMAIN ntf[t] : ntf'[t][j] = ntf[t][i]
              \/ \E i \in DOMAIN Notes(r, ops) : ntf'[t][j] = Notes(r, ops)[i]
    <3>1. /\ ntf'[t] \in Seq(Message) /\ Len(ntf'[t]) = Len(ntf[t]) + Len(Notes(r, ops))
          /\ \A j \in 1..Len(ntf'[t]) :
                ntf'[t][j] = IF j <= Len(ntf[t]) THEN ntf[t][j]
                                                 ELSE Notes(r, ops)[j - Len(ntf[t])]
      BY <1>1, <1>2, <2>1
    <3>. QED  BY <1>1, <1>2, <3>1, ConcatKeeps
  <2>. QED  BY <1>2, <1>3, <2>2
<1>4. CASE ~(t \in pubsub /\ r \in RowsOf(t))
  <2>1. ntf'[t] = ntf[t]
    BY <1>4, NotifyFacts
  <2>. QED  BY <1>4, <2>1
<1>. QED  BY <1>3, <1>4

(***************************************************************************)
(* A write tells the listener of a key of that key only.                   *)
(***************************************************************************)
LEMMA OutsideHeeded ==
    ASSUME Base, Redis \/ Session
    PROVE  Heeded'
<1>. TypeOK /\ Heeded
  BY DEF Base
<1>1. ASSUME NEW r \in Rows, NEW ops \in Seq(Ops), Notify(r, ops),
             UNCHANGED <<lrow, lpc>>
      PROVE  Heeded'
  <2>1. ASSUME NEW t \in Rows, NEW j \in DOMAIN ntf'[t] PROVE ntf'[t][j].row = t
    <3>1. t \in AllPaths /\ RowsOf(t) = {t}
      BY Constants DEF AllPaths, RowsOf
    <3>2. \/ \E i \in DOMAIN ntf[t] : ntf'[t][j] = ntf[t][i]
          \/ r \in RowsOf(t) /\ ntf'[t][j].row = r
      BY <1>1, <3>1, WriteTells
    <3>. QED  BY <3>1, <3>2 DEF Heeded
  <2>. QED  BY <1>1, <2>1 DEF Heeded
<1>4. CASE Redis
  <2>1. \E r \in Rows, ops \in Seq(Ops) : Notify(r, ops) /\ UNCHANGED <<lrow, lpc>>
    BY <1>4, RedisFacts, WriteFacts DEF Rest
  <2>. QED  BY <1>1, <2>1
<1>5. CASE Session
  BY <1>5 DEF Session, SessionDispose, SessionClose, lisVars, Heeded
<1>. QED  BY <1>4, <1>5

(***************************************************************************)
(* The types and the stages, in every step.                                *)
(***************************************************************************)
LEMMA BaseStep == ASSUME Base, [Next]_vars PROVE Base'
<1>1. CASE Main \/ MainFatal
  BY <1>1, SetupTypes, LoopTypes, SetupStaged, LoopStaged, MainHeeded DEF Main, Base
<1>2. CASE \E t \in TblPaths : Listener(t) \/ ListenFatal(t) \/ ListenError(t)
  BY <1>2, ListenTypes, ListenStaged, ListenHeeded DEF Base
<1>3. CASE Redis \/ Session
  BY <1>3, OutsideTypes, OutsideStaged, OutsideHeeded DEF Base
<1>4. CASE UNCHANGED vars
  BY <1>4, PathsFixed, ZenonT(40) DEF vars, Base, TypeOK, Staged, Heeded
<1>. QED  BY <1>1, <1>2, <1>3, <1>4 DEF Next, Failure

-----------------------------------------------------------------------------
(* Keys *)

KeysKept == pc # "done" => \A t \in sub.rows : Last(t) /\ (~disposed => Current(t))

(***************************************************************************)
(* Rows of one subscription have names of their own.                       *)
(***************************************************************************)
LEMMA OwnNames ==
    ASSUME sub \in Subs, sub.shape # "table"
    PROVE  /\ \A t \in sub.rows : /\ t \in Rows /\ t \in AllPaths /\ t # Table
                                 /\ RowsOf(t) = {t} /\ NamesOf(t) \subseteq JsonNames
           /\ \A t, u \in sub.rows : t # u => NamesOf(t) \cap NamesOf(u) = {}
<1>1. \A t \in sub.rows : /\ t \in Rows /\ t \in AllPaths /\ t # Table
                         /\ RowsOf(t) = {t} /\ NamesOf(t) \subseteq JsonNames
  BY SubFacts, Constants DEF AllPaths, RowsOf, NamesOf, JsonNames
<1>2. ASSUME NEW t \in sub.rows, NEW u \in sub.rows, t # u
      PROVE  NamesOf(t) \cap NamesOf(u) = {}
  <2>1. sub.shape # "key"
    BY <1>2, SubFacts
  <2>. QED  BY <1>2, <2>1 DEF NamesOf
<1>. QED  BY <1>1, <1>2

(***************************************************************************)
(* What is up to date stays so while the row does.                         *)
(***************************************************************************)
LEMMA KnownSame ==
    ASSUME NEW t, Known(t), sub' = sub, db'[t] = db[t],
           \A n \in NamesOf(t) : Latest(t, n)' = Latest(t, n)
    PROVE  Known(t)'
<1>1. NamesOf(t)' = NamesOf(t)
  BY PathsFixed
<1>2. ASSUME NEW n \in NamesOf(t) PROVE Good(t, n, Latest(t, n))'
  <2>1. Good(t, n, Latest(t, n)) /\ Latest(t, n)' = Latest(t, n)
    BY DEF Known
  <2>. QED  BY <2>1 DEF Good
<1>. QED  BY <1>1, <1>2 DEF Known

(***************************************************************************)
(* What a step leaves alone of a key stays true of it.                     *)
(***************************************************************************)
LEMMA KeySame ==
    ASSUME NEW t, Last(t), ~disposed => Current(t), sub' = sub, disposed => disposed',
           db'[t] = db[t], ntf'[t] = ntf[t], lpc'[t] = lpc[t], msi'[t] = msi[t],
           newMsi'[t] = newMsi[t], \A n \in NamesOf(t) : Shown(n)' = Shown(n),
           Unread(t) => Unread(t)', t \in unseen => t \in unseen'
    PROVE  Last(t)' /\ (~disposed' => Current(t)')
<1>1. NamesOf(t)' = NamesOf(t)
  BY PathsFixed
<1>2. Last(t)'
  <2>1. \A n \in JsonNames \ NamesOf(t) : msi'[t][n] = None
    BY DEF Last
  <2>2. lpc'[t] = "push" => newMsi'[t] = msi'[t]
    BY DEF Last
  <2>3. lpc'[t] # "push" => \A n \in NamesOf(t) : msi'[t][n] # None => Shown(n)' = msi'[t][n]
    BY DEF Last
  <2>. QED  BY <1>1, <2>1, <2>2, <2>3 DEF Last, JsonNames
<1>3. Told(t)' = Told(t) /\ \A n \in NamesOf(t) : Latest(t, n)' = Latest(t, n)
  BY DEF Told, Latest
<1>4. Known(t) => Known(t)'
  BY <1>3, KnownSame
<1>5. ASSUME ~disposed' PROVE Current(t)'
  BY <1>3, <1>4, <1>5 DEF Current
<1>. QED  BY <1>2, <1>5

(***************************************************************************)
(* The set-up: a row that is still to be read is so until it has been.     *)
(***************************************************************************)
LEMMA SetupKeys ==
    ASSUME Base, KeysKept, sub.shape # "table",
           (\E t \in TblPaths : MainSubscribe(t)) \/ MainKeys \/ MainReadDone
    PROVE  KeysKept'
<1>. TypeOK /\ Staged
  BY DEF Base
<1>1. /\ UNCHANGED <<sub, disposed, db, unseen, ntf, lpc, msi, newMsi, sent, msiAll>>
      /\ pc # "done"
  BY DEF MainSubscribe, MainKeys, MainReadDone, redisVars, lisVars, endVars
<1>2. ASSUME NEW t \in sub.rows, Unread(t) PROVE Unread(t)'
  <2>1. CASE \E u \in TblPaths : MainSubscribe(u)
    BY <1>2, <2>1 DEF MainSubscribe, Unread
  <2>2. CASE MainKeys
    BY <1>2, <2>2 DEF MainKeys, Unread
  <2>3. CASE MainReadDone
    BY <1>2, <2>3 DEF MainReadDone, Unread, setupVars
  <2>. QED  BY <2>1, <2>2, <2>3
<1>3. \A n : Shown(n)' = Shown(n)
  BY <1>1 DEF Shown, Merged
<1>4. ASSUME NEW t \in sub.rows PROVE Last(t)' /\ (~disposed' => Current(t)')
  BY <1>1, <1>2, <1>3, KeySame DEF KeysKept
<1>. QED  BY <1>1, <1>4 DEF KeysKept

(***************************************************************************)
(* The first read of a row: its value is what will be sent, and no other   *)
(* name changes.                                                           *)
(***************************************************************************)
LEMMA ReadKeys ==
    ASSUME Base, KeysKept, sub.shape # "table", NEW r \in Rows, MainRead(r)
    PROVE  KeysKept'
<1>. TypeOK /\ Staged
  BY DEF Base
<1>1. /\ UNCHANGED <<sub, disposed, db, unseen, ntf, lpc, msi, newMsi, sent, todo, cur, pc>>
      /\ pc = "read" /\ r \in left /\ left' = left \ {r}
      /\ msiAll' = Merged(msiAll, RowMsi(r, TRUE))
  BY DEF MainRead, redisVars, lisVars, endVars
<1>2. r \in sub.rows /\ sub \in Subs
  BY <1>1, SubFacts DEF Staged, TypeOK
<1>3. /\ RowMsi(r, TRUE) \in Maps
      /\ \A n \in JsonNames \ NamesOf(r) : RowMsi(r, TRUE)[n] = None
      /\ \A n \in NamesOf(r) : \A v :
            (RowMsi(r, TRUE)[n] # None => v = RowMsi(r, TRUE)[n]) => Good(r, n, v)
  BY KeyMsi
<1>4. \A n \in JsonNames : msiAll'[n] = IF RowMsi(r, TRUE)[n] = None THEN msiAll[n]
                                       ELSE RowMsi(r, TRUE)[n]
  BY <1>1, <1>3, MergedFacts DEF TypeOK
<1>5. \A n \in JsonNames : Shown(n)' = IF RowMsi(r, TRUE)[n] = None THEN Shown(n)
                                       ELSE RowMsi(r, TRUE)[n]
  <2>1. \A n \in JsonNames : Shown(n)' = IF msiAll'[n] = None THEN sent[n] ELSE msiAll'[n]
    BY <1>1 DEF Shown, Merged, JsonNames
  <2>. QED  BY <1>4, <2>1, ShownIs
<1>6. ASSUME NEW t \in sub.rows, t # r PROVE Last(t)' /\ (~disposed' => Current(t)')
  <2>1. NamesOf(t) \subseteq JsonNames /\ NamesOf(t) \cap NamesOf(r) = {}
    BY <1>2, <1>6, OwnNames
  <2>2. \A n \in NamesOf(t) : Shown(n)' = Shown(n)
    BY <1>3, <1>5, <2>1
  <2>3. Unread(t) => Unread(t)'
    BY <1>1, <1>6 DEF Unread
  <2>. QED  BY <1>1, <2>2, <2>3, KeySame DEF KeysKept
<1>7. Last(r)' /\ (~disposed' => Current(r)')
  <2>1. /\ lpc'[r] = "off" /\ msi'[r] = NoMap /\ NamesOf(r) \subseteq JsonNames
        /\ r \in AllPaths /\ NamesOf(r)' = NamesOf(r)
    BY <1>1, <1>2, OwnNames, PathsFixed DEF Staged
  <2>2. \A n \in JsonNames : msi'[r][n] = None
    BY <2>1, NoMapFacts
  <2>3. Last(r)'
    BY <2>1, <2>2 DEF Last, JsonNames
  <2>4. ASSUME NEW n \in NamesOf(r) PROVE Good(r, n, Latest(r, n))'
    <3>1. Latest(r, n)' = Shown(n)'
      BY <2>1 DEF Latest
    <3>2. RowMsi(r, TRUE)[n] # None => Shown(n)' = RowMsi(r, TRUE)[n]
      BY <1>5, <2>1
    <3>3. Good(r, n, Shown(n)')
      BY <1>3, <3>2
    <3>. QED  BY <1>1, <3>1, <3>3 DEF Good
  <2>5. Known(r)'
    BY <2>1, <2>4 DEF Known
  <2>. QED  BY <2>3, <2>5 DEF Current
<1>. QED  BY <1>1, <1>6, <1>7 DEF KeysKept

(***************************************************************************)
(* A message to the client with what is kept for the next one changes      *)
(* nothing of what is shown, whether the data is kept or not.              *)
(***************************************************************************)
LEMMA SentIsShown ==
    ASSUME TypeOK, sent' = Merged(sent, msiAll), msiAll' \in {NoMap, msiAll},
           NEW n \in JsonNames
    PROVE  Merged(sent', msiAll')[n] = Shown(n)
<1>1. sent'[n] = Shown(n)
  BY DEF Shown
<1>2. Shown(n) = IF msiAll[n] = None THEN sent[n] ELSE msiAll[n]
  BY ShownIs
<1>3. Merged(sent', msiAll')[n] = IF msiAll'[n] = None THEN sent'[n] ELSE msiAll'[n]
  BY DEF Merged
<1>. QED  BY <1>1, <1>2, <1>3, NoMapFacts

(***************************************************************************)
(* The first message: from now on the listeners have what is told.         *)
(***************************************************************************)
LEMMA FirstKeys ==
    ASSUME Base, KeysKept, sub.shape # "table", MainFirst
    PROVE  KeysKept'
<1>. TypeOK /\ Staged
  BY DEF Base
<1>1. /\ UNCHANGED <<sub, disposed, db, unseen, ntf, msi, newMsi, todo, cur, left>>
      /\ pc = "first" /\ pc' = "loop"
      /\ sent' = Merged(sent, msiAll) /\ msiAll' \in {NoMap, msiAll}
      /\ \A t \in sub.rows : lpc'[t] = "select"
  BY SubFacts DEF MainFirst, SendMsi, Heard, redisVars, setupVars, endVars, TypeOK, AllPaths
<1>2. ASSUME NEW t \in sub.rows PROVE Last(t)' /\ (~disposed' => Current(t)')
  <2>1. /\ t \in AllPaths /\ NamesOf(t) \subseteq JsonNames /\ NamesOf(t)' = NamesOf(t)
    BY <1>1, OwnNames, PathsFixed DEF TypeOK
  <2>2. lpc[t] = "off" /\ msi'[t] = NoMap /\ lpc'[t] = "select"
    BY <1>1, <2>1 DEF Staged
  <2>3. \A n \in NamesOf(t) : Shown(n)' = Shown(n)
    BY <1>1, <2>1, SentIsShown DEF Shown
  <2>4. Last(t)'
    <3>1. \A n \in JsonNames : msi'[t][n] = None
      BY <2>2, NoMapFacts
    <3>. QED  BY <2>1, <2>2, <3>1 DEF Last, JsonNames
  <2>5. Told(t)' = Told(t) /\ \A n \in NamesOf(t) : Latest(t, n)' = Latest(t, n)
    BY <1>1, <2>2, <2>3 DEF Told, Latest
  <2>6. ~Unread(t)
    BY <1>1 DEF Unread, Staged
  <2>7. ASSUME ~disposed' PROVE Current(t)'
    <3>1. Current(t)
      BY <1>1, <2>7 DEF KeysKept
    <3>2. Known(t) => Known(t)'
      BY <1>1, <2>5, KnownSame
    <3>. QED  BY <1>1, <2>2, <2>5, <2>6, <3>1, <3>2 DEF Current
  <2>. QED  BY <2>4, <2>7
<1>. QED  BY <1>1, <1>2 DEF KeysKept

(***************************************************************************)
(* A tick sends what is kept, and shows nothing new.                       *)
(***************************************************************************)
LEMMA TickKeys ==
    ASSUME Base, KeysKept, sub.shape # "table", MainTick
    PROVE  KeysKept'
<1>. TypeOK /\ Staged
  BY DEF Base
<1>1. /\ UNCHANGED <<sub, disposed, db, unseen, ntf, lpc, msi, newMsi, todo, cur, left, pc>>
      /\ pc # "done"
      /\ sent' = Merged(sent, msiAll) /\ msiAll' \in {NoMap, msiAll}
  BY DEF MainTick, Ticked, redisVars, setupVars, lisVars, endVars
<1>2. ASSUME NEW t \in sub.rows PROVE Last(t)' /\ (~disposed' => Current(t)')
  <2>1. NamesOf(t) \subseteq JsonNames
    BY OwnNames DEF TypeOK
  <2>2. \A n \in NamesOf(t) : Shown(n)' = Shown(n)
    BY <1>1, <2>1, SentIsShown DEF Shown
  <2>3. Unread(t) => Unread(t)'
    BY <1>1 DEF Unread
  <2>. QED  BY <1>1, <2>2, <2>3, KeySame DEF KeysKept
<1>. QED  BY <1>1, <1>2 DEF KeysKept

(***************************************************************************)
(* The data of a listener, sent or kept for the next tick, is what is      *)
(* shown under its names; nothing else changes.                            *)
(***************************************************************************)
LEMMA UpdateShows ==
    ASSUME Base, NEW u \in AllPaths, MainUpdate(u), NEW n \in JsonNames
    PROVE  Merged(sent', msiAll')[n] = IF newMsi[u][n] = None THEN Shown(n) ELSE newMsi[u][n]
<1>. TypeOK /\ Staged
  BY DEF Base
<1>1. newMsi[u] \in Maps /\ sent \in Maps /\ msiAll \in Maps
  BY DEF TypeOK
<1>2. Shown(n) = IF msiAll[n] = None THEN sent[n] ELSE msiAll[n]
  BY ShownIs
<1>3. Merged(sent', msiAll')[n] = IF msiAll'[n] = None THEN sent'[n] ELSE msiAll'[n]
  BY DEF Merged
<1>4. CASE sub.sampled
  <2>1. sent' = sent /\ msiAll' = Merged(msiAll, newMsi[u])
    BY <1>4 DEF MainUpdate, Overall
  <2>2. msiAll'[n] = IF newMsi[u][n] = None THEN msiAll[n] ELSE newMsi[u][n]
    BY <1>1, <2>1, MergedFacts
  <2>. QED  BY <1>2, <1>3, <2>1, <2>2
<1>5. CASE ~sub.sampled
  <2>1. sent' = Merged(sent, newMsi[u]) /\ msiAll' = msiAll /\ msiAll = NoMap
    BY <1>5 DEF MainUpdate, SendMsi, Staged
  <2>2. sent'[n] = IF newMsi[u][n] = None THEN sent[n] ELSE newMsi[u][n]
    BY <1>1, <2>1, MergedFacts
  <2>. QED  BY <1>2, <1>3, <2>1, <2>2, NoMapFacts
<1>. QED  BY <1>4, <1>5

(***************************************************************************)
(* The data of a listener is passed on: its row is shown as it was last    *)
(* read, no other changes.                                                 *)
(***************************************************************************)
LEMMA UpdateKeys ==
    ASSUME Base, KeysKept, sub.shape # "table", NEW u \in TblPaths, MainUpdate(u)
    PROVE  KeysKept'
<1>. TypeOK /\ Staged
  BY DEF Base
<1>1. /\ UNCHANGED <<sub, disposed, db, unseen, ntf, msi, newMsi, todo, cur, left, pc>>
      /\ pc # "done" /\ lpc[u] = "push"
      /\ lpc' = [lpc EXCEPT ![u] = "select"]
  BY DEF MainUpdate, redisVars, setupVars, endVars
<1>2. u \in sub.rows /\ sub \in Subs /\ u \in AllPaths
  BY SubFacts DEF TypeOK
<1>3. /\ newMsi[u] = msi[u] /\ msi[u] \in Maps
      /\ \A n \in JsonNames \ NamesOf(u) : msi[u][n] = None
  BY <1>1, <1>2 DEF KeysKept, Last, TypeOK
<1>4. \A n \in JsonNames : Shown(n)' = IF newMsi[u][n] = None THEN Shown(n) ELSE newMsi[u][n]
  BY <1>2, UpdateShows DEF Shown
<1>5. ASSUME NEW t \in sub.rows, t # u PROVE Last(t)' /\ (~disposed' => Current(t)')
  <2>1. NamesOf(t) \subseteq JsonNames /\ NamesOf(t) \cap NamesOf(u) = {}
    BY <1>2, <1>5, OwnNames
  <2>2. \A n \in NamesOf(t) : Shown(n)' = Shown(n)
    BY <1>3, <1>4, <2>1
  <2>3. (Unread(t) => Unread(t)') /\ lpc'[t] = lpc[t]
    BY <1>1, <1>5 DEF Unread, TypeOK
  <2>. QED  BY <1>1, <2>2, <2>3, KeySame DEF KeysKept
<1>6. Last(u)' /\ (~disposed' => Current(u)')
  <2>1. lpc'[u] = "select" /\ NamesOf(u)' = NamesOf(u) /\ NamesOf(u) \subseteq JsonNames
    BY <1>1, <1>2, OwnNames, PathsFixed DEF TypeOK
  <2>2. Last(u)'
    <3>1. \A n \in NamesOf(u) : msi'[u][n] # None => Shown(n)' = msi'[u][n]
      BY <1>1, <1>3, <1>4, <2>1
    <3>2. \A n \in JsonNames \ NamesOf(u) : msi'[u][n] = None
      BY <1>1, <1>3
    <3>. QED  BY <2>1, <3>1, <3>2 DEF Last, JsonNames
  <2>3. \A n \in NamesOf(u) : Latest(u, n)' = Latest(u, n)
    BY <1>1, <1>4, <2>1 DEF Latest
  <2>4. Told(u)' = Told(u) /\ (Unread(u) => Unread(u)') /\ (Known(u) => Known(u)')
    BY <1>1, <2>3, KnownSame DEF Told, Unread
  <2>5. ASSUME ~disposed' PROVE Current(u)'
    <3>1. Current(u)
      BY <1>1, <1>2, <2>5 DEF KeysKept
    <3>. QED  BY <1>1, <2>1, <2>4, <3>1 DEF Current
  <2>. QED  BY <2>2, <2>5
<1>. QED  BY <1>1, <1>5, <1>6 DEF KeysKept

(***************************************************************************)
(* A step of another listener.                                             *)
(***************************************************************************)
ListenStep(u) == Listener(u) \/ ListenFatal(u) \/ ListenError(u)

(***************************************************************************)
(* A listener leaves alone what belongs to the others.                     *)
(***************************************************************************)
LEMMA ListenFrame ==
    ASSUME TypeOK, NEW u \in AllPaths, ListenStep(u)
    PROVE  /\ UNCHANGED <<sub, db, unseen, pubsub, pc, todo, cur, left, msiAll, sent, disposed,
                          closed>>
           /\ \A t \in AllPaths \ {u} : /\ ntf'[t] = ntf[t] /\ lpc'[t] = lpc[t]
                                       /\ msi'[t] = msi[t] /\ newMsi'[t] = newMsi[t]
<1>. USE DEF redisVars, setupVars, lisVars, endVars, TypeOK
<1>1. CASE ListenSelect(u) \/ ListenTimeout(u) \/ ListenUnblock(u)
  BY <1>1 DEF ListenSelect, ListenTimeout, ListenUnblock
<1>2. CASE ListenRecv(u)
  BY <1>2 DEF ListenRecv
<1>3. CASE ListenRead(u)
  BY <1>3 DEF ListenRead
<1>4. CASE ListenFatal(u) \/ ListenError(u)
  BY <1>4 DEF ListenFatal, ListenError
<1>. QED  BY <1>1, <1>2, <1>3, <1>4 DEF ListenStep, Listener

(***************************************************************************)
(* A listener of a key that receives.                                      *)
(***************************************************************************)
LEMMA RecvKey ==
    ASSUME Base, NEW u \in sub.rows, sub.shape # "table", ListenRecv(u),
           Last(u), ~disposed => Current(u)
    PROVE  Last(u)' /\ (~disposed' => Current(u)')
<1>. TypeOK /\ u \in AllPaths /\ u # Table
  BY OwnNames DEF Base, TypeOK
<1>1. /\ UNCHANGED <<sub, db, unseen, pc, todo, cur, left, msiAll, sent, disposed, msi>>
      /\ lpc[u] = "recv" /\ ntf[u] # <<>> /\ ntf[u] \in Seq(Message)
      /\ ntf'[u] = Tail(ntf[u])
      /\ lpc'[u] = IF Head(ntf[u]).op = "hset" THEN "read" ELSE "select"
  BY DEF ListenRecv, redisVars, setupVars, endVars, TypeOK
<1>2. NamesOf(u)' = NamesOf(u)
  BY <1>1, PathsFixed
<1>3. \A n : Shown(n)' = Shown(n)
  BY <1>1 DEF Shown, Merged
<1>4. Last(u)'
  BY <1>1, <1>2, <1>3 DEF Last, JsonNames
<1>5. ASSUME Head(ntf[u]).op # "hset", Told(u) PROVE Told(u)'
  <2>1. PICK i \in DOMAIN ntf[u] : ntf[u][i].op = "hset"
    BY <1>5 DEF Told
  <2>2. ntf[u][i] # Head(ntf[u])
    BY <1>5, <2>1
  <2>3. \E j \in DOMAIN Tail(ntf[u]) : Tail(ntf[u])[j] = ntf[u][i]
    BY <1>1, <2>2, TailKeeps
  <2>. QED  BY <1>1, <2>1, <2>3 DEF Told
<1>6. ASSUME ~disposed' PROVE Current(u)'
  <2>1. Current(u)
    BY <1>1, <1>6
  <2>2. CASE Head(ntf[u]).op = "hset"
    BY <1>1, <2>2 DEF Current
  <2>3. CASE Head(ntf[u]).op # "hset"
    <3>1. \A n : Latest(u, n)' = Latest(u, n)
      BY <1>1, <1>3, <2>3 DEF Latest
    <3>2. (Known(u) => Known(u)') /\ (Unread(u) => Unread(u)')
      BY <1>1, <3>1, KnownSame DEF Unread
    <3>. QED  BY <1>1, <1>5, <2>1, <2>3, <3>2 DEF Current
  <2>. QED  BY <2>2, <2>3
<1>. QED  BY <1>4, <1>6

(***************************************************************************)
(* A listener of a key that reads: data that equals the last is skipped,   *)
(* and has been shown.                                                     *)
(***************************************************************************)
LEMMA ReadKey ==
    ASSUME Base, NEW u \in sub.rows, sub.shape # "table", ListenRead(u),
           Last(u), ~disposed => Current(u)
    PROVE  Last(u)' /\ (~disposed' => Current(u)')
<1>. TypeOK /\ u \in AllPaths /\ u \in Rows
  BY OwnNames DEF Base, TypeOK
<1>. DEFINE new == RowMsi(u, TRUE)
<1>1. /\ UNCHANGED <<sub, db, unseen, ntf, pc, todo, cur, left, msiAll, sent, disposed>>
      /\ lpc[u] = "read" /\ lrow[u] = u
  BY DEF ListenRead, redisVars, setupVars, endVars, Base, Heeded
<1>2. /\ newMsi'[u] = new
      /\ msi'[u] = IF new # msi[u] THEN new ELSE msi[u]
      /\ lpc'[u] = IF new # msi[u] /\ new # NoMap THEN "push" ELSE "select"
  BY <1>1 DEF ListenRead, Changed, TypeOK
<1>3. /\ new \in Maps
      /\ \A n \in JsonNames \ NamesOf(u) : new[n] = None
      /\ \A n \in NamesOf(u) : \A v : (new[n] # None => v = new[n]) => Good(u, n, v)
  BY KeyMsi
<1>. HIDE DEF new
<1>4. NamesOf(u)' = NamesOf(u) /\ NamesOf(u) \subseteq JsonNames
  BY <1>1, OwnNames, PathsFixed DEF TypeOK
<1>5. \A n : Shown(n)' = Shown(n)
  BY <1>1 DEF Shown, Merged
<1>6. msi'[u] = new
  BY <1>2
<1>7. ASSUME lpc'[u] # "push", NEW n \in NamesOf(u), new[n] # None PROVE Shown(n) = new[n]
  <2>1. new # NoMap
    BY <1>4, <1>7, NoMapFacts
  <2>2. new = msi[u]
    BY <1>2, <1>7, <2>1
  <2>. QED  BY <1>1, <1>7, <2>2 DEF Last
<1>8. Last(u)'
  BY <1>2, <1>3, <1>4, <1>5, <1>6, <1>7 DEF Last, JsonNames
<1>9. ASSUME NEW n \in NamesOf(u) PROVE Good(u, n, Latest(u, n))'
  <2>1. new[n] # None => Latest(u, n)' = new[n]
    BY <1>2, <1>5, <1>7 DEF Latest
  <2>2. Good(u, n, Latest(u, n)')
    BY <1>3, <2>1
  <2>. QED  BY <1>1, <2>2 DEF Good
<1>10. Known(u)'
  BY <1>4, <1>9 DEF Known
<1>. QED  BY <1>8, <1>10 DEF Current

(***************************************************************************)
(* Every step of a listener of a key.                                      *)
(***************************************************************************)
LEMMA ListenKeys ==
    ASSUME Base, KeysKept, sub.shape # "table", NEW u \in TblPaths, ListenStep(u)
    PROVE  KeysKept'
<1>. TypeOK /\ Staged
  BY DEF Base
<1>1. u \in sub.rows /\ sub \in Subs /\ u \in AllPaths
  BY SubFacts DEF TypeOK
<1>2. UNCHANGED <<sub, db, unseen, pubsub, pc, todo, cur, left, msiAll, sent, disposed, closed>>
  BY <1>1, ListenFrame
<1>3. \A t \in sub.rows : NamesOf(t)' = NamesOf(t)
  BY <1>2, PathsFixed
<1>4. /\ \A n : Shown(n)' = Shown(n)
      /\ \A t \in sub.rows : Unread(t) => Unread(t)'
  BY <1>2 DEF Shown, Merged, Unread
<1>5. ASSUME NEW t \in sub.rows, t # u, pc # "done"
      PROVE  Last(t)' /\ (~disposed' => Current(t)')
  <2>1. ntf'[t] = ntf[t] /\ lpc'[t] = lpc[t] /\ msi'[t] = msi[t] /\ newMsi'[t] = newMsi[t]
    BY <1>1, <1>5, ListenFrame, OwnNames
  <2>. QED  BY <1>2, <1>4, <1>5, <2>1, KeySame DEF KeysKept
<1>6. ASSUME pc # "done" PROVE Last(u)' /\ (~disposed' => Current(u)')
  <2>. Last(u) /\ (~disposed => Current(u))
    BY <1>1, <1>6 DEF KeysKept
  <2>1. CASE ListenRecv(u)
    BY <1>1, <2>1, RecvKey
  <2>2. CASE ListenRead(u)
    BY <1>1, <2>2, ReadKey
  <2>3. CASE ~ListenRecv(u) /\ ~ListenRead(u)
    <3>1. /\ UNCHANGED <<ntf, msi, newMsi>>
          /\ lpc[u] # "push" /\ lpc'[u] # "push"
          /\ ~closed => (lpc'[u] \in {"blocked", "exit"} \/ lpc[u] \in {"select", "recv"})
      BY <1>1, <2>3 DEF ListenStep, Listener, ListenSelect, ListenTimeout, ListenUnblock,
                        ListenError, ListenFatal, lisVars, TypeOK
    <3>2. Last(u)'
      BY <1>1, <1>3, <1>4, <3>1 DEF Last, JsonNames
    <3>3. /\ \A n : Latest(u, n)' = Latest(u, n)
          /\ Told(u)' = Told(u)
      BY <1>1, <1>4, <3>1 DEF Latest, Told
    <3>5. Known(u) => Known(u)'
      BY <1>1, <1>2, <3>3, KnownSame
    <3>4. ASSUME ~disposed' PROVE Current(u)'
      <4>1. ~closed /\ Current(u)
        BY <1>2, <3>4 DEF Staged
      <4>. QED  BY <1>1, <1>2, <1>4, <3>1, <3>3, <3>5, <4>1 DEF Current
    <3>. QED  BY <3>2, <3>4
  <2>. QED  BY <2>1, <2>2, <2>3
<1>. QED  BY <1>2, <1>5, <1>6 DEF KeysKept

(***************************************************************************)
(* A write leaves alone what is known of the other rows, and what the      *)
(* listener of its row compares with.                                      *)
(***************************************************************************)
LEMMA WriteKeys ==
    ASSUME Base, KeysKept, sub.shape # "table", pc # "done", NEW r \in sub.rows,
           NEW c \in Contents, NEW ops \in Seq(Ops), Write(r, c, ops),
           unseen \ {r} \subseteq unseen'
    PROVE  /\ \A t \in sub.rows \ {r} : Last(t)' /\ (~disposed' => Current(t)')
           /\ Last(r)' /\ (Unread(r) => Unread(r)') /\ (Told(r) => Told(r)')
           /\ \A n : Latest(r, n)' = Latest(r, n)
           /\ UNCHANGED <<sub, lpc, disposed>> /\ db'[r] = c
<1>. TypeOK
  BY DEF Base
<1>1. /\ UNCHANGED <<sub, pubsub, lpc, msi, newMsi, pc, todo, cur, left, msiAll, sent, disposed>>
      /\ Notify(r, ops) /\ db' = [db EXCEPT ![r] = c] /\ r \in Rows
  BY WriteFacts DEF Rest
<1>2. sub \in Subs /\ db'[r] = c
  BY <1>1 DEF TypeOK
<1>3. \A n : Shown(n)' = Shown(n)
  BY <1>1 DEF Shown, Merged
<1>4. \A t \in sub.rows : Unread(t) => Unread(t)'
  BY <1>1 DEF Unread
<1>5. ASSUME NEW t \in sub.rows \ {r} PROVE Last(t)' /\ (~disposed' => Current(t)')
  <2>1. t \in Rows /\ t \in AllPaths /\ r \notin RowsOf(t)
    BY <1>2, OwnNames
  <2>2. ntf'[t] = ntf[t]
    BY <1>1, <2>1, NotifyFacts
  <2>3. db'[t] = db[t] /\ (t \in unseen => t \in unseen')
    BY <1>1, <2>1 DEF TypeOK
  <2>. QED  BY <1>1, <1>3, <1>4, <2>2, <2>3, KeySame DEF KeysKept
<1>6. Last(r)'
  <2>1. Last(r) /\ NamesOf(r)' = NamesOf(r)
    BY <1>1, PathsFixed DEF KeysKept
  <2>. QED  BY <1>1, <1>3, <2>1 DEF Last, JsonNames
<1>7. \A n : Latest(r, n)' = Latest(r, n)
  BY <1>1, <1>3 DEF Latest
<1>8. Told(r) => Told(r)'
  <2>1. r \in AllPaths
    BY <1>1 DEF AllPaths
  <2>2. \A i \in DOMAIN ntf[r] : \E j \in DOMAIN ntf'[r] : ntf'[r][j] = ntf[r][i]
    BY <1>1, <2>1, WriteTells
  <2>. QED  BY <2>2 DEF Told
<1>. QED  BY <1>1, <1>2, <1>4, <1>5, <1>6, <1>7, <1>8

(***************************************************************************)
(* Redis tells of what it sets, if the row has been subscribed to.         *)
(***************************************************************************)
LEMMA SetKeys ==
    ASSUME Base, KeysKept, sub.shape # "table", NEW r \in sub.rows, NEW c \in Contents,
           RedisSet(r, c)
    PROVE  KeysKept'
<1>. TypeOK /\ Staged
  BY DEF Base
<1>. DEFINE ops == <<"hset">>
<1>1. Write(r, c, ops) /\ unseen' = unseen \ {r}
  BY DEF RedisSet
<1>2. ops \in Seq(Ops) /\ 1 \in 1..Len(ops) /\ ops[1] = "hset"
  BY DEF Ops
<1>. HIDE DEF ops
<1>3. UNCHANGED <<sub, pubsub, pc, todo>> /\ Notify(r, ops) /\ r \in Rows
  BY <1>1, <1>2, WriteFacts DEF Rest
<1>4. ASSUME pc # "done" PROVE \A t \in sub.rows : Last(t)' /\ (~disposed' => Current(t)')
  <2>1. /\ \A t \in sub.rows \ {r} : Last(t)' /\ (~disposed' => Current(t)')
        /\ Last(r)' /\ (Unread(r) => Unread(r)')
    BY <1>1, <1>2, <1>4, WriteKeys
  <2>2. CASE r \in todo
    BY <1>3, <2>1, <2>2 DEF Current, Unread
  <2>3. CASE r \notin todo
    <3>1. r \in pubsub /\ r \in RowsOf(r) /\ r \in AllPaths
      BY <1>4, <2>3, SubFacts, OwnNames DEF Staged, TypeOK
    <3>2. \E j \in DOMAIN ntf'[r] : ntf'[r][j] = [row |-> r, op |-> "hset"]
      BY <1>2, <1>3, <3>1, WriteTells
    <3>3. Told(r)'
      BY <3>2 DEF Told
    <3>. QED  BY <2>1, <3>3 DEF Current
  <2>. QED  BY <2>2, <2>3
<1>. QED  BY <1>3, <1>4 DEF KeysKept

(***************************************************************************)
(* Fields that are deleted have no value to be known, and the values of    *)
(* the others stay known; a row changed by another command is excepted.    *)
(***************************************************************************)
LEMMA DelKeys ==
    ASSUME Base, KeysKept, sub.shape # "table", NEW r \in sub.rows, NEW c \in Contents,
           RedisHdel(r, c) \/ (RedisDel(r) /\ c = Empty) \/ RedisOther(r, c)
    PROVE  KeysKept'
<1>. TypeOK
  BY DEF Base
<1>1. PICK ops \in Seq(Ops) : Write(r, c, ops)
  BY RedisWrites
<1>2. /\ unseen \ {r} \subseteq unseen'
      /\ \/ r \in unseen'
         \/ r \notin unseen /\ \A f \in Fields : c[f] \in {db[r][f], None}
         \/ \A f \in Fields : c[f] = None
  BY Constants DEF RedisHdel, RedisDel, RedisOther
<1>3. UNCHANGED <<sub, pc>>
  BY <1>1, WriteFacts DEF Rest
<1>4. ASSUME pc # "done" PROVE \A t \in sub.rows : Last(t)' /\ (~disposed' => Current(t)')
  <2>1. /\ \A t \in sub.rows \ {r} : Last(t)' /\ (~disposed' => Current(t)')
        /\ Last(r)' /\ (Unread(r) => Unread(r)') /\ (Told(r) => Told(r)')
        /\ \A n : Latest(r, n)' = Latest(r, n)
        /\ UNCHANGED <<sub, lpc, disposed>> /\ db'[r] = c
    BY <1>1, <1>2, <1>4, WriteKeys
  <2>2. ASSUME ~disposed PROVE Current(r)'
    <3>1. Current(r) /\ NamesOf(r)' = NamesOf(r)
      BY <1>4, <2>1, <2>2, PathsFixed DEF KeysKept
    <3>2. ASSUME \A f \in Fields : c[f] \in {db[r][f], None}, Known(r) PROVE Known(r)'
      <4>1. ASSUME NEW n \in NamesOf(r) PROVE Good(r, n, Latest(r, n))'
        <5>1. Good(r, n, Latest(r, n)) /\ Latest(r, n)' = Latest(r, n)
          BY <2>1, <3>2 DEF Known
        <5>. QED  BY <2>1, <3>2, <5>1 DEF Good, NamesOf
      <4>. QED  BY <3>1, <4>1 DEF Known
    <3>3. ASSUME \A f \in Fields : c[f] = None PROVE Known(r)'
      <4>1. \A n \in NamesOf(r) : Good(r, n, Latest(r, n))'
        BY <2>1, <3>3 DEF Good, NamesOf
      <4>. QED  BY <3>1, <4>1 DEF Known
    <3>. QED  BY <1>2, <2>1, <3>1, <3>2, <3>3 DEF Current
  <2>. QED  BY <2>1, <2>2
<1>. QED  BY <1>3, <1>4 DEF KeysKept

(***************************************************************************)
(* Every step keeps what is known of the keys.                             *)
(***************************************************************************)
LEMMA KeysStep ==
    ASSUME Base, KeysKept, sub.shape # "table", [Next]_vars
    PROVE  KeysKept'
<1>1. CASE Main
  <2>1. CASE MainRefused \/ MainStop
    BY <2>1 DEF MainRefused, MainStop, Return, KeysKept
  <2>. QED  BY <1>1, <2>1, SetupKeys, ReadKeys, FirstKeys, TickKeys, UpdateKeys DEF Main
<1>2. CASE MainFatal
  BY <1>2 DEF MainFatal, Return, KeysKept
<1>3. CASE \E t \in TblPaths : ListenStep(t)
  BY <1>3, ListenKeys
<1>4. CASE Redis
  BY <1>4, SetKeys, DelKeys, Constants DEF Redis
<1>5. CASE Session
  <2>1. /\ UNCHANGED <<sub, db, ntf, lpc, msi, newMsi, pc, todo, cur, left, msiAll, sent>>
        /\ disposed'
    BY <1>5 DEF Session, SessionDispose, SessionClose, redisVars, setupVars, lisVars, endVars
  <2>2. \A t \in sub.rows : Last(t) => Last(t)'
    BY <2>1 DEF Last, Shown, Merged, NamesOf, JsonNames
  <2>. QED  BY <2>1, <2>2 DEF KeysKept
<1>6. CASE UNCHANGED vars
  <2>1. /\ UNCHANGED <<sub, disposed, db, unseen, ntf, lpc, msi, newMsi, todo, cur, left, pc>>
        /\ \A n : Shown(n)' = Shown(n)
    BY <1>6 DEF vars, Shown, Merged
  <2>2. \A t \in sub.rows : Unread(t) => Unread(t)'
    BY <2>1 DEF Unread
  <2>. QED  BY <2>1, <2>2, KeySame DEF KeysKept
<1>. QED  BY <1>1, <1>2, <1>3, <1>4, <1>5, <1>6 DEF Next, Failure, ListenStep

-----------------------------------------------------------------------------
(* Tables *)

RowsKept == pc # "done" => \A r \in Rows : Gone(r)

(***************************************************************************)
(* What a step leaves alone of a row stays true of it.                     *)
(***************************************************************************)
LEMMA RowSame ==
    ASSUME NEW r, Gone(r), db'[r] = db[r], r \in unseen => r \in unseen',
           ntf'[Table] = ntf[Table],
           lpc'[Table] = "push" <=> lpc[Table] = "push",
           newMsi'[Table] = newMsi[Table], Shown(r)' = Shown(r)
    PROVE  Gone(r)'
BY DEF Gone, ToldGone

(***************************************************************************)
(* The set-up sends what it finds: a row that is gone by then is empty.    *)
(***************************************************************************)
LEMMA ReadRows ==
    ASSUME Base, RowsKept, sub.shape = "table", NEW k \in Rows, MainRead(k)
    PROVE  RowsKept'
<1>. TypeOK /\ Staged
  BY DEF Base
<1>1. /\ UNCHANGED <<db, unseen, ntf, lpc, newMsi, sent, pc>> /\ pc # "done"
      /\ msiAll' = Merged(msiAll, RowMsi(k, FALSE))
  BY DEF MainRead, redisVars, lisVars, endVars
<1>2. FALSE \in BOOLEAN /\ Rows \subseteq JsonNames
  BY DEF JsonNames
<1>3. /\ RowMsi(k, FALSE) \in Maps
      /\ RowMsi(k, FALSE)[k] = db[k]
      /\ \A n \in JsonNames : n # k => RowMsi(k, FALSE)[n] = None
  BY <1>2, RowMsiFacts
<1>4. \A n \in JsonNames : msiAll'[n] = IF RowMsi(k, FALSE)[n] = None THEN msiAll[n]
                                       ELSE RowMsi(k, FALSE)[n]
  BY <1>1, <1>3, MergedFacts DEF TypeOK
<1>5. \A n \in JsonNames : Shown(n)' = IF msiAll'[n] = None THEN sent'[n] ELSE msiAll'[n]
  BY DEF Shown, Merged, JsonNames
<1>6. ASSUME NEW r \in Rows, r # k PROVE Gone(r)'
  <2>1. Shown(r)' = Shown(r)
    BY <1>1, <1>2, <1>3, <1>4, <1>5, <1>6, ShownIs, ZenonT(40)
  <2>. QED  BY <1>1, <2>1, RowSame DEF RowsKept
<1>7. Gone(k)'
  <2>1. db'[k] = Empty => Shown(k)' = Empty
    BY <1>1, <1>2, <1>3, <1>4, <1>5, Constants
  <2>2. lpc'[Table] = "push" => newMsi'[Table][k] \in {None, Empty}
    BY <1>1 DEF RowsKept, Gone
  <2>. QED  BY <2>1, <2>2 DEF Gone
<1>. QED  BY <1>6, <1>7 DEF RowsKept

(***************************************************************************)
(* The other steps of dbTableKeySubscribe up to its loop, and the ticks.   *)
(***************************************************************************)
LEMMA MainRows ==
    ASSUME Base, RowsKept, sub.shape = "table",
           \/ \E t \in TblPaths : MainSubscribe(t)
           \/ MainKeys \/ MainReadDone \/ MainFirst \/ MainTick
    PROVE  RowsKept'
<1>. TypeOK /\ Staged
  BY DEF Base
<1>1. /\ UNCHANGED <<db, unseen, ntf, newMsi>> /\ pc # "done"
      /\ lpc'[Table] = "push" <=> lpc[Table] = "push"
  BY DEF MainSubscribe, MainKeys, MainReadDone, MainFirst, MainTick, redisVars, lisVars, Heard,
         Staged, AllPaths
<1>2. \/ UNCHANGED <<sent, msiAll>>
      \/ sent' = Merged(sent, msiAll) /\ msiAll' \in {NoMap, msiAll}
  BY DEF MainSubscribe, MainKeys, MainReadDone, MainFirst, MainTick, SendMsi, Ticked
<1>3. ASSUME NEW r \in Rows PROVE Shown(r)' = Shown(r)
  <2>1. r \in JsonNames
    BY DEF JsonNames
  <2>. QED  BY <1>2, <2>1, SentIsShown DEF Shown, Merged, JsonNames
<1>. QED  BY <1>1, <1>3, RowSame DEF RowsKept

(***************************************************************************)
(* The data of the listener of a table shows a row as empty or not at all. *)
(***************************************************************************)
LEMMA UpdateRows ==
    ASSUME Base, RowsKept, sub.shape = "table", MainUpdate(Table)
    PROVE  RowsKept'
<1>. TypeOK /\ Staged
  BY DEF Base
<1>1. /\ UNCHANGED <<db, unseen, ntf, newMsi, pc>> /\ pc # "done"
      /\ lpc[Table] = "push" /\ lpc'[Table] = "select" /\ Table \in AllPaths
  BY DEF MainUpdate, redisVars, TypeOK, AllPaths
<1>2. ASSUME NEW r \in Rows PROVE Gone(r)'
  <2>1. r \in JsonNames /\ newMsi[Table][r] \in {None, Empty} /\ Gone(r)
    BY <1>1 DEF JsonNames, RowsKept, Gone
  <2>2. Shown(r)' = IF newMsi[Table][r] = None THEN Shown(r) ELSE newMsi[Table][r]
    BY <1>1, <2>1, UpdateShows DEF Shown
  <2>3. ToldGone(r)' = ToldGone(r)
    BY <1>1 DEF ToldGone
  <2>. QED  BY <1>1, <2>1, <2>2, <2>3, Constants DEF Gone
<1>. QED  BY <1>1, <1>2 DEF RowsKept

(***************************************************************************)
(* The listener of the table: a row that goes is passed on as empty.       *)
(***************************************************************************)
LEMMA RecvRows ==
    ASSUME Base, NEW r \in Rows, Gone(r), ListenRecv(Table)
    PROVE  Gone(r)'
<1>. TypeOK /\ Table \in AllPaths
  BY DEF Base, AllPaths
<1>. DEFINE m == Head(ntf[Table])
<1>1. /\ UNCHANGED <<db, unseen, msiAll, sent>>
      /\ lpc[Table] = "recv" /\ ntf[Table] # <<>> /\ ntf[Table] \in Seq(Message)
      /\ ntf'[Table] = Tail(ntf[Table])
      /\ m.op \notin {"hdel", "del"} => lpc'[Table] # "push"
      /\ m.op \in {"hdel", "del"} =>
            lpc'[Table] = "push" /\ newMsi'[Table] = [NoMap EXCEPT ![m.row] = Empty]
  BY DEF ListenRecv, redisVars, setupVars, endVars, TypeOK
<1>2. m \in Message
  BY <1>1
<1>3. m.row \in JsonNames /\ r \in JsonNames
  BY <1>2 DEF Message, JsonNames
<1>. HIDE DEF m
<1>4. Shown(r)' = Shown(r)
  BY <1>1 DEF Shown, Merged
<1>5. ASSUME ToldGone(r) PROVE ToldGone(r)' \/ (m.row = r /\ m.op \in {"hdel", "del"})
  <2>1. PICK i \in DOMAIN ntf[Table] : /\ ntf[Table][i].row = r
                                      /\ ntf[Table][i].op \in {"hdel", "del"}
    BY <1>5 DEF ToldGone
  <2>2. CASE ntf[Table][i] = Head(ntf[Table])
    BY <2>1, <2>2 DEF m
  <2>3. CASE ntf[Table][i] # Head(ntf[Table])
    <3>1. \E j \in DOMAIN Tail(ntf[Table]) : Tail(ntf[Table])[j] = ntf[Table][i]
      BY <1>1, <2>3, TailKeeps
    <3>. QED  BY <1>1, <2>1, <3>1 DEF ToldGone
  <2>. QED  BY <2>2, <2>3
<1>6. CASE m.op \notin {"hdel", "del"}
  BY <1>1, <1>4, <1>5, <1>6 DEF Gone
<1>7. CASE m.op \in {"hdel", "del"}
  <2>1. newMsi'[Table][r] = IF m.row = r THEN Empty ELSE None
    BY <1>1, <1>3, <1>7, NoMapFacts DEF NoMap
  <2>. QED  BY <1>1, <1>4, <1>5, <1>7, <2>1 DEF Gone
<1>. QED  BY <1>6, <1>7

(***************************************************************************)
(* Every step of the listener of a table.                                  *)
(***************************************************************************)
LEMMA ListenRows ==
    ASSUME Base, RowsKept, sub.shape = "table", ListenStep(Table)
    PROVE  RowsKept'
<1>. TypeOK /\ Table \in AllPaths
  BY DEF Base, AllPaths
<1>1. UNCHANGED <<db, unseen, pc, msiAll, sent>>
  BY ListenFrame
<1>2. \A r \in Rows : Shown(r)' = Shown(r)
  BY <1>1 DEF Shown, Merged
<1>3. CASE ListenRecv(Table)
  BY <1>1, <1>3, RecvRows DEF RowsKept
<1>4. CASE ListenRead(Table)
  <2>1. lrow[Table] \in Rows /\ lpc[Table] = "read" /\ UNCHANGED ntf
    BY <1>4 DEF ListenRead, Base, Heeded
  <2>2. newMsi'[Table] = RowMsi(lrow[Table], TRUE)
    BY <1>4 DEF ListenRead, TypeOK
  <2>3. \A r \in Rows : newMsi'[Table][r] = None
    <3>1. \A n \in JsonNames \ Fields : RowMsi(lrow[Table], TRUE)[n] = None
      <4>1. TRUE \in BOOLEAN
        OBVIOUS
      <4>2. \A n \in JsonNames :
                RowMsi(lrow[Table], TRUE)[n] = IF n \in Fields THEN db[lrow[Table]][n] ELSE None
        BY <2>1, <4>1, RowMsiFacts
      <4>. QED  BY <4>2
    <3>. QED  BY <2>2, <3>1, Constants DEF JsonNames
  <2>. QED  BY <1>1, <1>2, <2>1, <2>3 DEF RowsKept, Gone, ToldGone
<1>5. CASE ~ListenRecv(Table) /\ ~ListenRead(Table)
  <2>1. UNCHANGED <<ntf, newMsi>> /\ lpc[Table] # "push" /\ lpc'[Table] # "push"
    BY <1>5 DEF ListenStep, Listener, ListenSelect, ListenTimeout, ListenUnblock,
                ListenError, ListenFatal, lisVars, TypeOK
  <2>. QED  BY <1>1, <1>2, <2>1, RowSame DEF RowsKept
<1>. QED  BY <1>3, <1>4, <1>5

(***************************************************************************)
(* A write leaves alone what is known of the other rows.                   *)
(***************************************************************************)
LEMMA WriteRows ==
    ASSUME Base, RowsKept, sub.shape = "table", pc # "done", NEW k \in sub.rows,
           NEW c \in Contents, NEW ops \in Seq(Ops), Write(k, c, ops),
           unseen \ {k} \subseteq unseen'
    PROVE  /\ \A r \in Rows \ {k} : Gone(r)'
           /\ Gone(k) /\ Shown(k)' = Shown(k) /\ (ToldGone(k) => ToldGone(k)')
           /\ UNCHANGED <<lpc, newMsi>> /\ db'[k] = c
<1>. TypeOK
  BY DEF Base
<1>1. /\ UNCHANGED <<lpc, newMsi, msiAll, sent>>
      /\ Notify(k, ops) /\ db' = [db EXCEPT ![k] = c] /\ k \in Rows
  BY WriteFacts DEF Rest
<1>2. db'[k] = c /\ Table \in AllPaths
  BY <1>1 DEF TypeOK, AllPaths
<1>3. \A r \in Rows : Shown(r)' = Shown(r) /\ Gone(r)
  BY <1>1 DEF Shown, Merged, RowsKept
<1>4. \A r \in Rows : ToldGone(r) => ToldGone(r)'
  <2>1. \A i \in DOMAIN ntf[Table] : \E j \in DOMAIN ntf'[Table] : ntf'[Table][j] = ntf[Table][i]
    BY <1>1, <1>2, WriteTells
  <2>. QED  BY <2>1 DEF ToldGone
<1>5. ASSUME NEW r \in Rows \ {k} PROVE Gone(r)'
  <2>1. db'[r] = db[r] /\ (r \in unseen => r \in unseen')
    BY <1>1 DEF TypeOK
  <2>. QED  BY <1>1, <1>3, <1>4, <2>1 DEF Gone
<1>. QED  BY <1>1, <1>2, <1>3, <1>4, <1>5

(***************************************************************************)
(* Redis tells of a row that goes, if the table has been subscribed to;    *)
(* before, nothing has been read.                                          *)
(***************************************************************************)
LEMMA DelRows ==
    ASSUME Base, RowsKept, sub.shape = "table", NEW k \in sub.rows, RedisDel(k)
    PROVE  RowsKept'
<1>. TypeOK /\ Staged
  BY DEF Base
<1>1. PICK ops \in {<<"hdel", "del">>, <<"del">>} : Write(k, Empty, ops)
  BY DEF RedisDel
<1>2. /\ ops \in Seq(Ops) /\ 1 \in 1..Len(ops) /\ ops[1] \in {"hdel", "del"}
      /\ unseen' = unseen \ {k} /\ Empty \in Contents
  <2>1. ops \in Seq(Ops)
    BY <1>1, RedisWrites
  <2>2. 1 \in 1..Len(ops) /\ ops[1] \in {"hdel", "del"}
    BY <1>1
  <2>. QED  BY <2>1, <2>2, Constants DEF RedisDel
<1>3. k \in Rows /\ Table \in AllPaths /\ TblPaths = {Table} /\ RowsOf(Table) = Rows
  BY SubFacts DEF TypeOK, AllPaths, RowsOf
<1>4. UNCHANGED pc /\ Notify(k, ops)
  BY <1>1, <1>2, WriteFacts DEF Rest
<1>5. ASSUME pc # "done" PROVE \A r \in Rows : Gone(r)'
  <2>1. /\ \A r \in Rows \ {k} : Gone(r)'
        /\ Gone(k) /\ Shown(k)' = Shown(k)
        /\ UNCHANGED <<lpc, newMsi>>
    BY <1>1, <1>2, <1>5, WriteRows
  <2>2. CASE Table \in pubsub
    <3>1. \E j \in DOMAIN ntf'[Table] : ntf'[Table][j] = [row |-> k, op |-> ops[1]]
      BY <1>2, <1>3, <1>4, <2>2, WriteTells
    <3>2. ToldGone(k)'
      BY <1>2, <3>1 DEF ToldGone
    <3>. QED  BY <2>1, <3>2 DEF Gone
  <2>3. CASE Table \notin pubsub
    <3>1. todo = {Table}
      BY <1>3, <1>5, <2>3 DEF Staged, TypeOK
    <3>2. pc = "setup"
      BY <1>3, <1>5, <3>1 DEF Staged, TypeOK
    <3>3. msiAll = NoMap /\ sent = NoMap /\ k \in JsonNames
      BY <1>3, <3>2 DEF Staged, JsonNames
    <3>4. Shown(k)' = None
      BY <2>1, <3>3, ShownIs, NoMapFacts
    <3>. QED  BY <2>1, <3>4 DEF Gone
  <2>. QED  BY <2>2, <2>3
<1>. QED  BY <1>4, <1>5 DEF RowsKept

(***************************************************************************)
(* A row that has fields is not gone, and a row changed by another command *)
(* is excepted.                                                            *)
(***************************************************************************)
LEMMA SetRows ==
    ASSUME Base, RowsKept, sub.shape = "table", NEW k \in sub.rows, NEW c \in Contents,
           RedisSet(k, c) \/ RedisHdel(k, c) \/ RedisOther(k, c)
    PROVE  RowsKept'
<1>. TypeOK
  BY DEF Base
<1>1. PICK ops \in Seq(Ops) : Write(k, c, ops)
  BY RedisWrites
<1>2. unseen \ {k} \subseteq unseen' /\ (c # Empty \/ k \in unseen')
  BY DEF RedisSet, RedisHdel, RedisOther
<1>3. UNCHANGED pc
  BY <1>1, WriteFacts DEF Rest
<1>4. ASSUME pc # "done" PROVE \A r \in Rows : Gone(r)'
  <2>1. /\ \A r \in Rows \ {k} : Gone(r)'
        /\ Gone(k) /\ UNCHANGED <<lpc, newMsi>> /\ db'[k] = c
    BY <1>1, <1>2, <1>4, WriteRows
  <2>. QED  BY <1>2, <2>1 DEF Gone
<1>. QED  BY <1>3, <1>4 DEF RowsKept

(***************************************************************************)
(* Every step keeps what is known of the rows of a table.                  *)
(***************************************************************************)
LEMMA RowsStep ==
    ASSUME Base, RowsKept, sub.shape = "table", [Next]_vars
    PROVE  RowsKept'
<1>0. TblPaths = {Table}
  BY SubFacts DEF Base, TypeOK
<1>1. CASE Main
  <2>1. CASE MainRefused \/ MainStop
    BY <2>1 DEF MainRefused, MainStop, Return, RowsKept
  <2>2. CASE \E t \in TblPaths : MainUpdate(t)
    BY <1>0, <2>2, UpdateRows
  <2>. QED  BY <1>1, <2>1, <2>2, MainRows, ReadRows DEF Main
<1>2. CASE MainFatal
  BY <1>2 DEF MainFatal, Return, RowsKept
<1>3. CASE \E t \in TblPaths : ListenStep(t)
  BY <1>0, <1>3, ListenRows
<1>4. CASE Redis
  BY <1>4, SetRows, DelRows DEF Redis
<1>5. CASE Session \/ UNCHANGED vars
  <2>1. UNCHANGED <<db, unseen, ntf, lpc, newMsi, pc, msiAll, sent>>
    BY <1>5 DEF Session, SessionDispose, SessionClose, redisVars, lisVars, vars
  <2>2. \A r \in Rows : Shown(r)' = Shown(r)
    BY <2>1 DEF Shown, Merged
  <2>. QED  BY <2>1, <2>2, RowSame DEF RowsKept
<1>. QED  BY <1>1, <1>2, <1>3, <1>4, <1>5 DEF Next, Failure, ListenStep

-----------------------------------------------------------------------------
(* Theorems *)

(***************************************************************************)
(* The invariant holds at first: there are no notifications, and all is    *)
(* still to be read.                                                       *)
(***************************************************************************)
LEMMA InitInv == Init => TableInv
<1>. SUFFICES ASSUME Init PROVE TableInv
  OBVIOUS
<1>1. Table \in AllPaths /\ Rows \subseteq AllPaths /\ Rows \subseteq JsonNames
  BY DEF AllPaths, JsonNames
<1>2. <<>> \in Seq(Message)
  OBVIOUS
<1>3. TypeOK
  BY <1>1, <1>2, NoMapFacts, TableAssumption DEF Init, TypeOK
<1>4. Staged
  BY DEF Init, Staged
<1>5. Heeded
  BY <1>1 DEF Init, Heeded
<1>6. CASE sub.shape = "table"
  <2>1. \A r \in Rows : Shown(r) = None
    BY <1>1, ShownIs, NoMapFacts DEF Init
  <2>2. lpc[Table] = "off"
    BY <1>1 DEF Init
  <2>. QED  BY <1>3, <1>4, <1>5, <1>6, <2>1, <2>2 DEF TableInv, Kept, Gone
<1>7. CASE sub.shape # "table"
  <2>1. sub.rows \subseteq Rows /\ todo = sub.rows
    BY <1>7, SubFacts DEF Init
  <2>2. \A t \in sub.rows : Last(t) /\ Unread(t)
    <3>1. \A t \in sub.rows : NamesOf(t) \subseteq JsonNames
      BY <1>3, <1>7, OwnNames DEF TypeOK
    <3>. QED  BY <1>1, <2>1, <3>1, NoMapFacts DEF Init, Last, Unread
  <2>. QED  BY <1>3, <1>4, <1>5, <1>7, <2>2 DEF TableInv, Kept, Current
<1>. QED  BY <1>6, <1>7

(***************************************************************************)
(* Every step keeps the invariant.                                         *)
(***************************************************************************)
LEMMA NextInv == ASSUME TableInv, [Next]_vars PROVE TableInv'
<1>1. Base /\ Base'
  BY BaseStep DEF TableInv, Base
<1>2. sub' = sub
  BY DEF Next, Main, Failure, Redis, Session, Listener, MainKeys, MainReadDone, MainFirst,
         MainTick, MainRefused, MainStop, MainSubscribe, MainUpdate, MainRead, MainFatal,
         ListenSelect, ListenTimeout, ListenRecv, ListenRead, ListenUnblock, ListenError,
         ListenFatal, RedisSet, RedisHdel, RedisDel, RedisOther, Write, SessionDispose,
         SessionClose, redisVars, vars
<1>3. CASE sub.shape = "table"
  BY <1>1, <1>2, <1>3, RowsStep DEF TableInv, Kept, RowsKept, Base
<1>4. CASE sub.shape # "table"
  BY <1>1, <1>2, <1>4, KeysStep DEF TableInv, Kept, KeysKept, Base
<1>. QED  BY <1>3, <1>4

(***************************************************************************)
(* The invariant holds in every behaviour.                                 *)
(***************************************************************************)
LEMMA InvHolds == Spec => []TableInv
BY InitInv, NextInv, PTL DEF Spec

(***************************************************************************)
(* Every variable of dbTableKeySubscribe and its listeners keeps its type; *)
(* a listener reads a row that is one.                                     *)
(***************************************************************************)
THEOREM TableTypes == Spec => []TypeOK
<1>1. TableInv => TypeOK
  BY DEF TableInv
<1>. QED  BY <1>1, InvHolds, PTL

(***************************************************************************)
(* dbTableKeySubscribe and dbSingleTableKeySubscribe: once no notification *)
(* is on its way and the session has not ended, the client has been sent,  *)
(* or will be at the next tick, the value of every field there is of the   *)
(* rows of a path with keys, and no value of a row of a table that is      *)
(* gone, but for rows last changed by a command the listeners ignore.      *)
(***************************************************************************)
THEOREM ClientConverges == Spec => []Converged
<1>1. ASSUME TableInv, Quiet, ~Ended
      PROVE  IF sub.shape = "table" THEN DeletionsKnown(Rows \ unseen)
                                    ELSE ValuesKnown(sub.rows \ unseen)
  <2>1. ~disposed /\ pc = "loop" /\ sub \in Subs /\ todo = {}
    BY <1>1 DEF Ended, Quiet, TableInv, TypeOK, Staged
  <2>2. CASE sub.shape = "table"
    <3>1. lpc[Table] \in {"select", "recv"} /\ ntf[Table] = <<>>
      BY <1>1, <2>1, <2>2, SubFacts DEF Quiet
    <3>2. ASSUME NEW r \in Rows \ unseen, db[r] = Empty PROVE Shown(r) \in {None, Empty}
      <4>1. Gone(r) /\ ~ToldGone(r)
        BY <1>1, <2>1, <2>2, <3>1 DEF TableInv, Kept, ToldGone
      <4>. QED  BY <3>1, <3>2, <4>1 DEF Gone
    <3>. QED  BY <2>2, <3>2 DEF DeletionsKnown, Shown
  <2>3. CASE sub.shape # "table"
    <3>1. ASSUME NEW t \in sub.rows \ unseen, NEW f \in Fields, db[t][f] # None
          PROVE  FieldIn(Merged(sent, msiAll), t, f) = db[t][f]
      <4>1. lpc[t] \in {"select", "recv"} /\ ntf[t] = <<>>
        BY <1>1, <2>1, <2>3, SubFacts DEF Quiet
      <4>2. Known(t)
        <5>1. Current(t) /\ ~Told(t) /\ ~Unread(t)
          BY <1>1, <2>1, <2>3, <4>1 DEF TableInv, Kept, Told, Unread
        <5>. QED  BY <3>1, <4>1, <5>1 DEF Current
      <4>3. \A n \in NamesOf(t) : Good(t, n, Merged(sent, msiAll)[n])
        BY <4>1, <4>2 DEF Known, Latest, Shown
      <4>. QED  BY <3>1, <4>3 DEF NamesOf, Good, FieldIn
    <3>. QED  BY <2>3, <3>1 DEF ValuesKnown, ValuesIn
  <2>. QED  BY <2>2, <2>3
<1>2. TableInv => Converged
  BY <1>1 DEF Converged
<1>. QED  BY <1>2, InvHolds, PTL
=============================================================================
