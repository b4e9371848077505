------------------------ MODULE PathResolutionProofs ------------------------
(***************************************************************************)
(* Proofs about PathResolution, for every set of ports, namespaces and     *)
(* OIDs, any number of concurrent requests and every bound: the trie finds *)
(* the right translator for any path, counters are shown under the name of *)
(* the port they belong to, and a request that begins alone or with        *)
(* complete alias maps is answered in full.                                *)
(***************************************************************************)
EXTENDS PathResolution, SequenceTheorems, WellFoundedInduction, TLAPS

-----------------------------------------------------------------------------
(* Tries *)

(***************************************************************************)
(* The nodes of the trie that NewTrie and Add make of pathTransFuncTbl.    *)
(***************************************************************************)
Root == <<"COUNTERS_DB">>
Table == <<"COUNTERS_DB", "COUNTERS">>
PortNode == <<"COUNTERS_DB", "COUNTERS", "Ethernet*">>
Leaf(k) == <<"COUNTERS_DB", "COUNTERS", "Ethernet*", k>>
Names(k) == {"COUNTERS_DB", "COUNTERS", "Ethernet*", k}

(***************************************************************************)
(* A sequence of at most four elements is the tuple of its elements.       *)
(***************************************************************************)
LEMMA SameTuples ==
    ASSUME NEW S, NEW s \in Seq(S)
    PROVE  /\ Len(s) = 0 => s = <<>>
           /\ Len(s) = 1 => s = <<s[1]>>
           /\ Len(s) = 2 => s = <<s[1], s[2]>>
           /\ Len(s) = 3 => s = <<s[1], s[2], s[3]>>
           /\ Len(s) = 4 => s = <<s[1], s[2], s[3], s[4]>>
OBVIOUS

(***************************************************************************)
(* Append to a sequence of at most three elements, as a tuple: a node of a *)
(* trie and a child of it.                                                 *)
(***************************************************************************)
LEMMA AppendTuple ==
    ASSUME NEW S, NEW s \in Seq(S), NEW k \in S
    PROVE  /\ Append(<<>>, k) = <<k>>
           /\ Len(s) = 1 => Append(s, k) = <<s[1], k>>
           /\ Len(s) = 2 => Append(s, k) = <<s[1], s[2], k>>
           /\ Len(s) = 3 => Append(s, k) = <<s[1], s[2], s[3], k>>
           /\ Len(Append(s, k)) = Len(s) + 1
<1> DEFINE w == Append(s, k)
<1>1. /\ w \in Seq(S) /\ Len(w) = Len(s) + 1
      /\ \A i \in 1..Len(s) : w[i] = s[i]
      /\ w[Len(s) + 1] = k
  BY AppendProperties
<1> HIDE DEF w
<1>2. Append(<<>>, k) = <<k>>
  OBVIOUS
<1>3. Len(s) = 1 => w = <<s[1], k>>
  BY <1>1, SameTuples
<1>4. Len(s) = 2 => w = <<s[1], s[2], k>>
  BY <1>1, SameTuples
<1>5. Len(s) = 3 => w = <<s[1], s[2], s[3], k>>
  BY <1>1, SameTuples
<1> QED BY <1>1, <1>2, <1>3, <1>4, <1>5 DEF w

(***************************************************************************)
(* Three elements with one more, as a tuple: an entry of pathTransFuncTbl. *)
(***************************************************************************)
LEMMA ConcatTuple == ASSUME NEW S, NEW s \in Seq(S), NEW u \in Seq(S), Len(u) = 1, Len(s) = 3
    PROVE s \o u = <<s[1], s[2], s[3], u[1]>>
<1> DEFINE w == s \o u
<1>1. w \in Seq(S) /\ Len(w) = Len(s) + Len(u) /\ \A i \in 1 .. Len(s) + Len(u) : w[i] =
                     IF i <= Len(s) THEN s[i] ELSE u[i - Len(s)]
  BY ConcatProperties
<1> HIDE DEF w
<1>2. Len(w) = 4 /\ w[1] = s[1] /\ w[2] = s[2] /\ w[3] = s[3] /\ w[4] = u[1]
  BY <1>1
<1>3. w = <<s[1], s[2], s[3], u[1]>>
  BY <1>1, <1>2, SameTuples
<1> QED BY <1>3 DEF w

(***************************************************************************)
(* The prefixes of a sequence of at most four elements, as tuples: the     *)
(* nodes that Trie.Add makes for a path.                                   *)
(***************************************************************************)
LEMMA PrefixTuple ==
    ASSUME NEW S, NEW s \in Seq(S)
    PROVE  /\ SubSeq(s, 1, 0) = <<>>
           /\ Len(s) > 0 => SubSeq(s, 1, 1) = <<s[1]>>
           /\ Len(s) > 1 => SubSeq(s, 1, 2) = <<s[1], s[2]>>
           /\ Len(s) > 2 => SubSeq(s, 1, 3) = <<s[1], s[2], s[3]>>
           /\ Len(s) > 3 => SubSeq(s, 1, 4) = <<s[1], s[2], s[3], s[4]>>
<1>1. ASSUME NEW n \in Nat, NEW w, n <= Len(s), w = SubSeq(s, 1, n)
      PROVE  w \in Seq(S) /\ Len(w) = n /\ \A i \in 1..n : w[i] = s[i]
  <2>1. w \in Seq(S) /\ Len(w) = n
    BY <1>1
  <2>2. \A i \in 1..n : w[i] = s[i]
    BY <1>1
  <2> QED BY <2>1, <2>2
<1>2. SubSeq(s, 1, 0) = <<>>
  OBVIOUS
<1>3. ASSUME NEW w, Len(s) > 0, w = SubSeq(s, 1, 1) PROVE w = <<s[1]>>
  <2>1. w \in Seq(S) /\ Len(w) = 1 /\ w[1] = s[1]
    BY <1>1, <1>3
  <2> QED BY <2>1, SameTuples
<1>4. ASSUME NEW w, Len(s) > 1, w = SubSeq(s, 1, 2) PROVE w = <<s[1], s[2]>>
  <2>1. w \in Seq(S) /\ Len(w) = 2 /\ w[1] = s[1] /\ w[2] = s[2]
    BY <1>1, <1>4
  <2> QED BY <2>1, SameTuples
<1>5. ASSUME NEW w, Len(s) > 2, w = SubSeq(s, 1, 3) PROVE w = <<s[1], s[2], s[3]>>
  <2>1. w \in Seq(S) /\ Len(w) = 3 /\ w[1] = s[1] /\ w[2] = s[2] /\ w[3] = s[3]
    BY <1>1, <1>5
  <2> QED BY <2>1, SameTuples
<1>6. ASSUME NEW w, Len(s) > 3, w = SubSeq(s, 1, 4) PROVE w = <<s[1], s[2], s[3], s[4]>>
  <2>1. /\ w \in Seq(S) /\ Len(w) = 4
        /\ w[1] = s[1] /\ w[2] = s[2] /\ w[3] = s[3] /\ w[4] = s[4]
    BY <1>1, <1>6
  <2> QED BY <2>1, SameTuples
<1> QED BY <1>2, <1>3, <1>4, <1>5, <1>6

(***************************************************************************)
(* The nodes of the trie are sequences of path elements, with these        *)
(* lengths and elements.                                                   *)
(***************************************************************************)
LEMMA NodesAreTuples ==
    ASSUME NEW k
    PROVE  /\ Root \in Seq(Names(k)) /\ Len(Root) = 1 /\ Root[1] = "COUNTERS_DB"
           /\ Table \in Seq(Names(k)) /\ Len(Table) = 2
           /\ Table[1] = "COUNTERS_DB" /\ Table[2] = "COUNTERS"
           /\ PortNode \in Seq(Names(k)) /\ Len(PortNode) = 3
           /\ PortNode[1] = "COUNTERS_DB" /\ PortNode[2] = "COUNTERS"
           /\ PortNode[3] = "Ethernet*"
           /\ Leaf(k) \in Seq(Names(k)) /\ Len(Leaf(k)) = 4
           /\ Leaf(k)[1] = "COUNTERS_DB" /\ Leaf(k)[2] = "COUNTERS"
           /\ Leaf(k)[3] = "Ethernet*" /\ Leaf(k)[4] = k
BY DEF Root, Table, PortNode, Leaf, Names

(***************************************************************************)
(* The entries of pathTransFuncTbl: a port's path, and that with one more  *)
(* element.                                                                *)
(***************************************************************************)
LEMMA CounterPaths ==
    /\ Counter(<<>>) = PortNode
    /\ \A k : Counter(<<k>>) = Leaf(k)
<1>1. ASSUME NEW k PROVE Counter(<<k>>) = Leaf(k)
  <2> DEFINE u == <<k>>
  <2>1. u \in Seq(Names(k)) /\ Len(u) = 1 /\ u[1] = k
    BY DEF Names
  <2> HIDE DEF u
  <2>2. PortNode \o u = <<PortNode[1], PortNode[2], PortNode[3], u[1]>>
    BY <2>1, NodesAreTuples, ConcatTuple
  <2> QED BY <2>1, <2>2, NodesAreTuples DEF Counter, PortNode, Leaf, u
<1>2. Counter(<<>>) = PortNode
  BY DEF Counter, PortNode
<1> QED BY <1>1, <1>2

(***************************************************************************)
(* Different entries of pathTransFuncTbl are different paths.              *)
(***************************************************************************)
LEMMA LeavesDiffer ==
    /\ \A k : Leaf(k) # PortNode /\ Len(Leaf(k)) = 4 /\ Leaf(k)[4] = k
    /\ Len(PortNode) = 3
    /\ \A k, l : Leaf(k) = Leaf(l) => k = l
BY DEF Leaf, PortNode

(***************************************************************************)
(* pathTransFuncTbl has these four entries with these functions.           *)
(***************************************************************************)
LEMMA EntriesOfV2R ==
    /\ DOMAIN V2R = {PortNode, Leaf("*"), Leaf("Queues"), Leaf("Pfcwd")}
    /\ V2R[PortNode] = "v2rEthPortStats"
    /\ V2R[Leaf("*")] = "v2rEthPortFieldStats"
    /\ V2R[Leaf("Queues")] = "v2rEthPortQueStats"
    /\ V2R[Leaf("Pfcwd")] = "v2rEthPortPfcwdStats"
<1> DEFINE D == {Counter(t) : t \in {<<>>, <<"*">>, <<"Queues">>, <<"Pfcwd">>}}
<1>1. D = {PortNode, Leaf("*"), Leaf("Queues"), Leaf("Pfcwd")}
  BY CounterPaths
<1> HIDE DEF D
<1>2. V2R = [e \in D |-> CASE e = PortNode -> "v2rEthPortStats"
                          [] e = Leaf("*") -> "v2rEthPortFieldStats"
                          [] e = Leaf("Queues") -> "v2rEthPortQueStats"
                          [] e = Leaf("Pfcwd") -> "v2rEthPortPfcwdStats"]
  BY CounterPaths DEF V2R, D
<1> QED BY <1>1, <1>2, LeavesDiffer

(***************************************************************************)
(* The nodes that Trie.Add makes for a path.                               *)
(***************************************************************************)
Added(s) == {SubSeq(s, 1, i) : i \in 0..Len(s)}

(***************************************************************************)
(* What Trie.Add makes of an entry with four elements.                     *)
(***************************************************************************)
LEMMA PrefixesOfLeaf ==
    ASSUME NEW k
    PROVE  Added(Leaf(k)) = {<<>>, Root, Table, PortNode, Leaf(k)}
<1> DEFINE l == Leaf(k)
           S == Names(k)
<1>1. /\ l \in Seq(S) /\ Len(l) = 4
      /\ l[1] = "COUNTERS_DB" /\ l[2] = "COUNTERS" /\ l[3] = "Ethernet*" /\ l[4] = k
  BY NodesAreTuples
<1> HIDE DEF l, S
<1>2. Added(l) = {SubSeq(l, 1, i) : i \in {0, 1, 2, 3, 4}}
  <2>1. 0..4 = {0, 1, 2, 3, 4}
    OBVIOUS
  <2> QED BY <1>1, <2>1 DEF Added
<1>3. SubSeq(l, 1, 0) = <<>>
  BY <1>1, PrefixTuple
<1>4. SubSeq(l, 1, 1) = Root
  BY <1>1, PrefixTuple DEF Root
<1>5. SubSeq(l, 1, 2) = Table
  BY <1>1, PrefixTuple DEF Table
<1>6. SubSeq(l, 1, 3) = PortNode
  <2>1. l \in Seq(S) /\ Len(l) > 2
    BY <1>1
  <2>2. SubSeq(l, 1, 3) = <<l[1], l[2], l[3]>>
    BY <2>1, PrefixTuple
  <2> QED BY <1>1, <2>2 DEF PortNode
<1>7. SubSeq(l, 1, 4) = Leaf(k)
  <2>1. l \in Seq(S) /\ Len(l) > 3
    BY <1>1
  <2>2. SubSeq(l, 1, 4) = <<l[1], l[2], l[3], l[4]>>
    BY <2>1, PrefixTuple
  <2> QED BY <1>1, <2>2 DEF Leaf
<1> QED BY <1>2, <1>3, <1>4, <1>5, <1>6, <1>7 DEF l

(***************************************************************************)
(* What Trie.Add makes of the entry with three elements.                   *)
(***************************************************************************)
LEMMA PrefixesOfPort == Added(PortNode) = {<<>>, Root, Table, PortNode}
<1> DEFINE l == PortNode
           S == Names("*")
<1>1. /\ l \in Seq(S) /\ Len(l) = 3
      /\ l[1] = "COUNTERS_DB" /\ l[2] = "COUNTERS" /\ l[3] = "Ethernet*"
  BY NodesAreTuples
<1> HIDE DEF l, S
<1>2. Added(l) = {SubSeq(l, 1, i) : i \in {0, 1, 2, 3}}
  <2>1. 0..3 = {0, 1, 2, 3}
    OBVIOUS
  <2> QED BY <1>1, <2>1 DEF Added
<1>3. SubSeq(l, 1, 0) = <<>>
  BY <1>1, PrefixTuple
<1>4. SubSeq(l, 1, 1) = Root
  BY <1>1, PrefixTuple DEF Root
<1>5. SubSeq(l, 1, 2) = Table
  BY <1>1, PrefixTuple DEF Table
<1>6. SubSeq(l, 1, 3) = PortNode
  <2>1. SubSeq(l, 1, 3) = <<l[1], l[2], l[3]>>
    BY <1>1, PrefixTuple
  <2> QED BY <1>1, <2>1 DEF PortNode
<1> QED BY <1>2, <1>3, <1>4, <1>5, <1>6 DEF l

(***************************************************************************)
(* The trie that pathTransFuncTbl makes has seven nodes.                   *)
(***************************************************************************)
LEMMA NodesOfV2R ==
    Nodes(V2R) = {<<>>, Root, Table, PortNode, Leaf("*"), Leaf("Queues"), Leaf("Pfcwd")}
<1>1. Nodes(V2R) = UNION {Added(s) : s \in DOMAIN V2R}
  BY DEF Nodes, Added
<1> QED BY <1>1, EntriesOfV2R, PrefixesOfLeaf, PrefixesOfPort

(***************************************************************************)
(* The children that the nodes of the trie have.                           *)
(***************************************************************************)
LEMMA Steps ==
    ASSUME NEW k
    PROVE  /\ Append(<<>>, k) \in Nodes(V2R) <=> k = "COUNTERS_DB"
           /\ Append(Root, k) \in Nodes(V2R) <=> k = "COUNTERS"
           /\ Append(Table, k) \in Nodes(V2R) <=> k = "Ethernet*"
           /\ Append(PortNode, k) \in Nodes(V2R) <=> k \in {"*", "Queues", "Pfcwd"}
           /\ \A l : Append(Leaf(l), k) \notin Nodes(V2R)
           /\ Append(<<>>, k) = <<k>> /\ Append(Root, k) = <<"COUNTERS_DB", k>>
           /\ Append(Table, k) = <<"COUNTERS_DB", "COUNTERS", k>>
           /\ Append(PortNode, k) = Leaf(k)
<1> DEFINE S == Names(k)
<1>0. k \in S
  BY DEF Names
<1>1. Append(<<>>, k) = <<k>>
  OBVIOUS
<1>2. Append(Root, k) = <<"COUNTERS_DB", k>>
  <2>1. Root \in Seq(S) /\ Len(Root) = 1 /\ Root[1] = "COUNTERS_DB"
    BY NodesAreTuples
  <2> HIDE DEF S
  <2> QED BY <1>0, <2>1, AppendTuple
<1>3. Append(Table, k) = <<"COUNTERS_DB", "COUNTERS", k>>
  <2>1. /\ Table \in Seq(S) /\ Len(Table) = 2
        /\ Table[1] = "COUNTERS_DB" /\ Table[2] = "COUNTERS"
    BY NodesAreTuples
  <2> HIDE DEF S
  <2> QED BY <1>0, <2>1, AppendTuple
<1>4. Append(PortNode, k) = Leaf(k)
  <2>1. /\ PortNode \in Seq(S) /\ Len(PortNode) = 3 /\ PortNode[1] = "COUNTERS_DB"
        /\ PortNode[2] = "COUNTERS" /\ PortNode[3] = "Ethernet*"
    BY NodesAreTuples
  <2> HIDE DEF S
  <2> QED BY <1>0, <2>1, AppendTuple DEF Leaf
<1>5. ASSUME NEW l PROVE Len(Append(Leaf(l), k)) = 5
  BY DEF Leaf
<1>6. /\ Len(<<>>) = 0 /\ Len(Root) = 1 /\ Len(Table) = 2 /\ Len(PortNode) = 3
      /\ \A l : Len(Leaf(l)) = 4
  BY NodesAreTuples
<1>7. Append(<<>>, k) \in Nodes(V2R) <=> k = "COUNTERS_DB"
  BY <1>1, NodesOfV2R DEF Root, Table, PortNode, Leaf
<1>8. Append(Root, k) \in Nodes(V2R) <=> k = "COUNTERS"
  BY <1>2, NodesOfV2R DEF Root, Table, PortNode, Leaf
<1>9. Append(Table, k) \in Nodes(V2R) <=> k = "Ethernet*"
  BY <1>3, NodesOfV2R DEF Root, Table, PortNode, Leaf
<1>10. Append(PortNode, k) \in Nodes(V2R) <=> k \in {"*", "Queues", "Pfcwd"}
  BY <1>4, <1>6, NodesOfV2R, LeavesDiffer
<1>11. \A l : Append(Leaf(l), k) \notin Nodes(V2R)
  BY <1>5, <1>6, NodesOfV2R
<1> QED BY <1>1, <1>2, <1>3, <1>4, <1>7, <1>8, <1>9, <1>10, <1>11

(***************************************************************************)
(* No node of the trie is the nil that findNode returns when it finds      *)
(* none.                                                                   *)
(***************************************************************************)
LEMMA NotNil ==
    /\ <<>> # NoNode /\ Root # NoNode /\ Table # NoNode /\ PortNode # NoNode
    /\ \A k : Leaf(k) # NoNode
    /\ NoNode \notin DOMAIN V2R
BY EntriesOfV2R DEF NoNode, Root, Table, PortNode, Leaf

(***************************************************************************)
(* One level of findNode, from every node of the trie: an exact name       *)
(* before the wildcards, and nothing below a leaf or below nil.            *)
(***************************************************************************)
LEMMA DownFrom ==
    ASSUME NEW k
    PROVE  /\ Down(<<>>, k, V2R) = IF k = "COUNTERS_DB" THEN Root ELSE NoNode
           /\ Down(Root, k, V2R) = IF k = "COUNTERS" THEN Table ELSE NoNode
           /\ Down(Table, k, V2R) = IF IsPrefixed(k) THEN PortNode ELSE NoNode
           /\ Down(PortNode, k, V2R) =
                Leaf(IF k \in {"Queues", "Pfcwd"} THEN k ELSE "*")
           /\ \A l : Down(Leaf(l), k, V2R) = NoNode
           /\ Down(NoNode, k, V2R) = NoNode
<1> DEFINE W(n) == {x \in Wildcards : Append(n, x) \in Nodes(V2R) /\ HasPrefix(k, x)}
<1>1. W(<<>>) = {} /\ W(Root) = {} /\ \A l : W(Leaf(l)) = {}
  BY Steps DEF Wildcards
<1>2. W(Table) = IF IsPrefixed(k) THEN {"Ethernet*"} ELSE {}
  BY Steps DEF Wildcards, HasPrefix
<1>3. W(PortNode) = {"*"}
  BY Steps DEF Wildcards, HasPrefix
<1>4. ASSUME NEW n
      PROVE  Down(n, k, V2R) = CASE n = NoNode -> NoNode
               [] n # NoNode /\ Append(n, k) \in Nodes(V2R) -> Append(n, k)
               [] n # NoNode /\ Append(n, k) \notin Nodes(V2R) /\ W(n) # {} ->
                    Append(n, CHOOSE x \in W(n) : TRUE)
               [] OTHER -> NoNode
  BY DEF Down
<1> HIDE DEF W
<1>5. Down(NoNode, k, V2R) = NoNode
  BY <1>4
<1>6. Down(<<>>, k, V2R) = IF k = "COUNTERS_DB" THEN Root ELSE NoNode
  <2>1. Down(<<>>, k, V2R) = IF Append(<<>>, k) \in Nodes(V2R) THEN Append(<<>>, k) ELSE NoNode
    BY <1>1, <1>4, NotNil
  <2>2. Append(<<>>, k) = <<k>> /\ (Append(<<>>, k) \in Nodes(V2R) <=> k = "COUNTERS_DB")
    BY Steps
  <2> QED BY <2>1, <2>2 DEF Root
<1>7. Down(Root, k, V2R) = IF k = "COUNTERS" THEN Table ELSE NoNode
  <2>1. Down(Root, k, V2R) = IF Append(Root, k) \in Nodes(V2R) THEN Append(Root, k) ELSE NoNode
    BY <1>1, <1>4, NotNil
  <2>2. /\ Append(Root, k) = <<"COUNTERS_DB", k>>
        /\ Append(Root, k) \in Nodes(V2R) <=> k = "COUNTERS"
    BY Steps
  <2> QED BY <2>1, <2>2 DEF Table
<1>8. \A l : Down(Leaf(l), k, V2R) = NoNode
  BY <1>1, <1>4, Steps, NotNil
<1>9. Down(Table, k, V2R) = IF IsPrefixed(k) THEN PortNode ELSE NoNode
  <2>1. k = "Ethernet*" => IsPrefixed(k)
    BY DEF IsPrefixed
  <2>2. W(Table) # {} => (CHOOSE x \in W(Table) : TRUE) = "Ethernet*"
    BY <1>2
  <2> QED BY <1>2, <1>4, <2>1, <2>2, Steps, NotNil DEF PortNode
<1>10. Down(PortNode, k, V2R) = Leaf(IF k \in {"Queues", "Pfcwd"} THEN k ELSE "*")
  <2>1. (CHOOSE x \in W(PortNode) : TRUE) = "*"
    BY <1>3
  <2> QED BY <1>3, <1>4, <2>1, Steps, NotNil
<1> QED BY <1>5, <1>6, <1>7, <1>8, <1>9, <1>10

(***************************************************************************)
(* A set of numbers has a least one.  Stands for induction on the levels   *)
(* of a path: the least level at which findNode is not where it should be  *)
(* has no predecessor to have come from.                                   *)
(***************************************************************************)
LEMMA LeastNumber ==
    ASSUME NEW T, T \subseteq Nat, T # {}
    PROVE  \E x \in T : \A y \in T : x <= y
<1> DEFINE R == OpToRel(<, Nat)
<1>1. IsWellFoundedOn(R, Nat)
  BY NatLessThanWellFounded
<1>2. \A x, y \in Nat : y < x => <<y, x>> \in R
  BY DEF OpToRel
<1> HIDE DEF R
<1>3. PICK x \in T : \A y \in T : <<y, x>> \notin R
  BY <1>1, WFMin
<1>4. \A y \in T : ~(y < x)
  BY <1>2, <1>3
<1> QED BY <1>3, <1>4

(***************************************************************************)
(* Where findNode is after i levels of a path of COUNTERS_DB.              *)
(***************************************************************************)
Walked(ks, i) ==
    CASE i = 0 -> <<>>
      [] i = 1 -> Root
      [] i = 2 /\ ks[2] = "COUNTERS" -> Table
      [] i = 3 /\ ks[2] = "COUNTERS" /\ IsPrefixed(ks[3]) -> PortNode
      [] i = 4 /\ ks[2] = "COUNTERS" /\ IsPrefixed(ks[3]) ->
           Leaf(IF ks[4] \in {"Queues", "Pfcwd"} THEN ks[4] ELSE "*")
      [] OTHER -> NoNode

(***************************************************************************)
(* One level of findNode leads from where a path of the trie has led to    *)
(* where it leads with one element more.                                   *)
(***************************************************************************)
LEMMA WalkedStep ==
    ASSUME NEW ks, NEW i \in Nat, i > 0, ks[1] = "COUNTERS_DB"
    PROVE  Down(Walked(ks, i - 1), ks[i], V2R) = Walked(ks, i)
<1>1. CASE i = 1
  BY <1>1, DownFrom DEF Walked
<1>2. CASE i = 2
  BY <1>2, DownFrom DEF Walked
<1>3. CASE i = 3
  BY <1>3, DownFrom DEF Walked
<1>4. CASE i = 4
  BY <1>4, DownFrom DEF Walked
<1>5. CASE i = 5
  BY <1>5, DownFrom DEF Walked
<1>6. CASE i > 5
  <2>1. Walked(ks, i - 1) = NoNode /\ Walked(ks, i) = NoNode
    BY <1>6 DEF Walked
  <2> QED BY <2>1, DownFrom
<1> QED BY <1>1, <1>2, <1>3, <1>4, <1>5, <1>6

(***************************************************************************)
(* findNode ends where the path leads, however long the path is.           *)
(***************************************************************************)
LEMMA FindNodeWalks ==
    ASSUME NEW ks, Len(ks) \in Nat, ks[1] = "COUNTERS_DB"
    PROVE  FindNode(V2R, ks) = Walked(ks, Len(ks))
<1> DEFINE Body(f) == [i \in 0..Len(ks) |->
                          IF i = 0 THEN <<>> ELSE Down(f[i - 1], ks[i], V2R)]
           node == CHOOSE f : f = Body(f)
           w == [i \in 0..Len(ks) |-> Walked(ks, i)]
<1>1. w = Body(w)
  <2>1. ASSUME NEW i \in 0..Len(ks)
        PROVE  w[i] = IF i = 0 THEN <<>> ELSE Down(w[i - 1], ks[i], V2R)
    <3>1. CASE i = 0
      BY <3>1 DEF Walked
    <3>2. CASE i > 0
      <4>1. i - 1 \in 0..Len(ks) /\ i \in Nat
        BY <3>2
      <4>2. w[i - 1] = Walked(ks, i - 1) /\ w[i] = Walked(ks, i)
        BY <4>1
      <4> QED BY <3>2, <4>1, <4>2, WalkedStep
    <3> QED BY <3>1, <3>2
  <2> QED BY <2>1
<1>2. node = Body(node)
  BY <1>1
<1>3. FindNode(V2R, ks) = node[Len(ks)]
  BY DEF FindNode
<1>4. \A i \in 0..Len(ks) : node[i] = IF i = 0 THEN <<>> ELSE Down(node[i - 1], ks[i], V2R)
  BY <1>2
<1> HIDE DEF node
<1>5. \A i \in 0..Len(ks) : node[i] = Walked(ks, i)
  <2> DEFINE T == {i \in 0..Len(ks) : node[i] # Walked(ks, i)}
  <2>1. SUFFICES ASSUME T # {} PROVE FALSE
    OBVIOUS
  <2>2. PICK x \in T : \A y \in T : x <= y
    <3>1. T \subseteq Nat
      OBVIOUS
    <3> HIDE DEF T
    <3> QED BY <2>1, <3>1, LeastNumber
  <2>3. x # 0
    BY <1>4 DEF Walked
  <2>4. x - 1 \in 0..Len(ks) /\ x - 1 \notin T
    BY <2>2, <2>3
  <2>5. node[x] = Down(Walked(ks, x - 1), ks[x], V2R)
    BY <1>4, <2>3, <2>4
  <2> QED BY <2>3, <2>5, WalkedStep
<1> QED BY <1>3, <1>5

(***************************************************************************)
(* Trie.Find on any path of COUNTERS_DB: the translator of its shape, or   *)
(* none if the table is not COUNTERS, the key is no port's name, or there  *)
(* are more than four elements.                                            *)
(***************************************************************************)
LEMMA FindsTranslator ==
    ASSUME NEW ks, NEW m \in Nat, Len(ks) = m, m > 2, ks[1] = "COUNTERS_DB"
    PROVE  Find(V2R, ks) =
             IF ks[2] # "COUNTERS" \/ ~IsPrefixed(ks[3]) \/ m > 4 THEN "none"
             ELSE IF m = 3 THEN "v2rEthPortStats"
             ELSE IF ks[4] = "Queues" THEN "v2rEthPortQueStats"
             ELSE IF ks[4] = "Pfcwd" THEN "v2rEthPortPfcwdStats"
             ELSE "v2rEthPortFieldStats"
<1> DEFINE n == Walked(ks, m)
<1>1. Find(V2R, ks) = IF n \in DOMAIN V2R THEN V2R[n] ELSE "none"
  BY FindNodeWalks DEF Find
<1>2. CASE ks[2] # "COUNTERS" \/ ~IsPrefixed(ks[3]) \/ m > 4
  <2>1. ks[2] # "COUNTERS" => n = NoNode
    BY DEF Walked
  <2>2. ~IsPrefixed(ks[3]) => n = NoNode
    BY DEF Walked
  <2>3. m > 4 => n = NoNode
    BY DEF Walked
  <2>4. n = NoNode
    BY <1>2, <2>1, <2>2, <2>3
  <2> QED BY <1>1, <1>2, <2>4, NotNil
<1>3. CASE ks[2] = "COUNTERS" /\ IsPrefixed(ks[3]) /\ m = 3
  <2>1. n = PortNode
    BY <1>3 DEF Walked
  <2> QED BY <1>1, <1>3, <2>1, EntriesOfV2R
<1>4. CASE ks[2] = "COUNTERS" /\ IsPrefixed(ks[3]) /\ m = 4
  <2>1. n = Leaf(IF ks[4] \in {"Queues", "Pfcwd"} THEN ks[4] ELSE "*")
    BY <1>4 DEF Walked
  <2> QED BY <1>1, <1>4, <2>1, EntriesOfV2R
<1>5. \/ ks[2] # "COUNTERS" \/ ~IsPrefixed(ks[3]) \/ m > 4
      \/ ks[2] = "COUNTERS" /\ IsPrefixed(ks[3]) /\ m = 3
      \/ ks[2] = "COUNTERS" /\ IsPrefixed(ks[3]) /\ m = 4
  <2>1. m = 3 \/ m = 4 \/ m > 4
    OBVIOUS
  <2> QED BY <2>1, Zenon
<1> QED BY <1>2, <1>3, <1>4, <1>5

(***************************************************************************)
(* Which paths the entries of pathTransFuncTbl fit.                        *)
(***************************************************************************)
LEMMA FitsEntry ==
    ASSUME NEW ks, NEW m \in Nat, Len(ks) = m, m > 2, ks[1] = "COUNTERS_DB"
    PROVE  /\ Fits(PortNode, ks) <=> m = 3 /\ ks[2] = "COUNTERS" /\ IsPrefixed(ks[3])
           /\ \A k \in {"*", "Queues", "Pfcwd"} :
                Fits(Leaf(k), ks) <=> /\ m = 4 /\ ks[2] = "COUNTERS" /\ IsPrefixed(ks[3])
                                      /\ k = "*" \/ ks[4] = k
<1> DEFINE Same(e, i) == e[i] = ks[i] \/ (e[i] \in Wildcards /\ HasPrefix(ks[i], e[i]))
<1>1. ASSUME NEW e, e[1] = "COUNTERS_DB", e[2] = "COUNTERS", e[3] = "Ethernet*"
      PROVE  /\ Same(e, 1) /\ (Same(e, 2) <=> ks[2] = "COUNTERS")
             /\ Same(e, 3) <=> IsPrefixed(ks[3])
  <2>1. Same(e, 1) /\ (Same(e, 2) <=> ks[2] = "COUNTERS")
    BY <1>1 DEF Wildcards
  <2>2. Same(e, 3) <=> ks[3] = "Ethernet*" \/ HasPrefix(ks[3], "Ethernet*")
    BY <1>1 DEF Wildcards
  <2>3. HasPrefix(ks[3], "Ethernet*") <=> IsPrefixed(ks[3])
    BY DEF HasPrefix
  <2>4. ks[3] = "Ethernet*" => IsPrefixed(ks[3])
    BY DEF IsPrefixed
  <2> QED BY <2>1, <2>2, <2>3, <2>4
<1>2. ASSUME NEW k \in {"*", "Queues", "Pfcwd"}
      PROVE  Same(Leaf(k), 4) <=> k = "*" \/ ks[4] = k
  <2>1. Leaf(k)[4] = k
    BY NodesAreTuples
  <2>2. HasPrefix(ks[4], "*")
    BY DEF HasPrefix
  <2> QED BY <2>1, <2>2 DEF Wildcards
<1>3. \A e : Fits(e, ks) <=> Len(e) = m /\ \A i \in 1..Len(e) : Same(e, i)
  BY DEF Fits
<1>6. \A e, i : Same(e, i) \in BOOLEAN
  OBVIOUS
<1> HIDE DEF Same
<1>4. Fits(PortNode, ks) <=> m = 3 /\ ks[2] = "COUNTERS" /\ IsPrefixed(ks[3])
  <2> DEFINE e == PortNode
  <2>1. Len(e) = 3 /\ e[1] = "COUNTERS_DB" /\ e[2] = "COUNTERS" /\ e[3] = "Ethernet*"
    BY NodesAreTuples
  <2> HIDE DEF e
  <2>2. Fits(e, ks) <=> m = 3 /\ Same(e, 1) /\ Same(e, 2) /\ Same(e, 3)
    <3>1. 1..3 = {1, 2, 3}
      OBVIOUS
    <3>2. Fits(e, ks) <=> 3 = m /\ \A i \in 1..3 : Same(e, i)
      BY <1>3, <2>1
    <3>3. (\A i \in 1..3 : Same(e, i)) <=> Same(e, 1) /\ Same(e, 2) /\ Same(e, 3)
      BY <1>6, <3>1
    <3> QED BY <3>2, <3>3
  <2>3. Fits(e, ks) <=> m = 3 /\ ks[2] = "COUNTERS" /\ IsPrefixed(ks[3])
    BY <1>1, <2>1, <2>2
  <2> QED BY <2>3 DEF e
<1>5. ASSUME NEW k \in {"*", "Queues", "Pfcwd"}
      PROVE  Fits(Leaf(k), ks) <=> /\ m = 4 /\ ks[2] = "COUNTERS" /\ IsPrefixed(ks[3])
                                   /\ k = "*" \/ ks[4] = k
  <2> DEFINE e == Leaf(k)
  <2>1. Len(e) = 4 /\ e[1] = "COUNTERS_DB" /\ e[2] = "COUNTERS" /\ e[3] = "Ethernet*"
    BY NodesAreTuples
  <2>2. Same(e, 4) <=> k = "*" \/ ks[4] = k
    BY <1>2
  <2> HIDE DEF e
  <2>3. Fits(e, ks) <=> m = 4 /\ Same(e, 1) /\ Same(e, 2) /\ Same(e, 3) /\ Same(e, 4)
    <3>1. 1..4 = {1, 2, 3, 4}
      OBVIOUS
    <3>2. Fits(e, ks) <=> 4 = m /\ \A i \in 1..4 : Same(e, i)
      BY <1>3, <2>1
    <3>3. (\A i \in 1..4 : Same(e, i)) <=>
          Same(e, 1) /\ Same(e, 2) /\ Same(e, 3) /\ Same(e, 4)
      BY <1>6, <3>1
    <3> QED BY <3>2, <3>3
  <2>4. Fits(e, ks) <=> /\ m = 4 /\ ks[2] = "COUNTERS" /\ IsPrefixed(ks[3])
                        /\ k = "*" \/ ks[4] = k
    BY <1>1, <2>1, <2>2, <2>3
  <2> QED BY <2>4 DEF e
<1> QED BY <1>4, <1>5

(***************************************************************************)
(* On any path of COUNTERS_DB, Trie.Find yields the function of an entry   *)
(* than which none that fits is exacter, and none only if no entry fits.   *)
(***************************************************************************)
LEMMA Agrees ==
    ASSUME NEW ks, NEW m \in Nat, Len(ks) = m, m > 2, ks[1] = "COUNTERS_DB",
           NEW F, F = {e \in DOMAIN V2R : Fits(e, ks)},
           NEW B, B = {e \in F : \A d \in F : ~Exacter(d, e, ks)}
    PROVE  IF F = {} THEN Find(V2R, ks) = "none" ELSE Find(V2R, ks) \in {V2R[e] : e \in B}
<1> DEFINE Good == ks[2] = "COUNTERS" /\ IsPrefixed(ks[3])
<1>5. /\ Fits(PortNode, ks) <=> m = 3 /\ Good
      /\ \A k \in {"*", "Queues", "Pfcwd"} :
           Fits(Leaf(k), ks) <=> m = 4 /\ Good /\ (k = "*" \/ ks[4] = k)
  BY FitsEntry
<1>6. Find(V2R, ks) =
        IF ~Good \/ m > 4 THEN "none"
        ELSE IF m = 3 THEN "v2rEthPortStats"
        ELSE IF ks[4] = "Queues" THEN "v2rEthPortQueStats"
        ELSE IF ks[4] = "Pfcwd" THEN "v2rEthPortPfcwdStats"
        ELSE "v2rEthPortFieldStats"
  BY FindsTranslator
<1>7. Good \in BOOLEAN
  BY DEF IsPrefixed
<1> HIDE DEF Good
<1>1. CASE ~Good \/ m > 4
  <2>1. F = {}
    BY <1>1, <1>5, EntriesOfV2R
  <2>2. Find(V2R, ks) = "none"
    BY <1>1, <1>6
  <2> QED BY <2>1, <2>2
<1>2. CASE Good /\ m = 3
  <2>1. F = {PortNode}
    <3>1. Fits(PortNode, ks)
      BY <1>2, <1>5
    <3>2. \A k \in {"*", "Queues", "Pfcwd"} : ~Fits(Leaf(k), ks)
      BY <1>2, <1>5
    <3> QED BY <3>1, <3>2, EntriesOfV2R
  <2>2. PortNode \in B
    BY <2>1 DEF Exacter
  <2>3. Find(V2R, ks) = V2R[PortNode]
    <3>1. Find(V2R, ks) = "v2rEthPortStats"
      BY <1>2, <1>6
    <3> QED BY <3>1, EntriesOfV2R
  <2> QED BY <2>1, <2>2, <2>3
<1>3. CASE Good /\ m = 4
  <2> DEFINE k == IF ks[4] \in {"Queues", "Pfcwd"} THEN ks[4] ELSE "*"
  <2>1. Find(V2R, ks) = V2R[Leaf(k)]
    <3>1. Find(V2R, ks) = IF ks[4] = "Queues" THEN "v2rEthPortQueStats"
                          ELSE IF ks[4] = "Pfcwd" THEN "v2rEthPortPfcwdStats"
                          ELSE "v2rEthPortFieldStats"
      BY <1>3, <1>6
    <3> QED BY <3>1, EntriesOfV2R
  <2>2. Leaf(k) \in F
    BY <1>3, <1>5, EntriesOfV2R
  <2>3. ASSUME NEW d \in F PROVE ~Exacter(d, Leaf(k), ks)
    <3>1. PICK l \in {"*", "Queues", "Pfcwd"} : d = Leaf(l) /\ (l = "*" \/ ks[4] = l)
      <4>1. ~Fits(PortNode, ks)
        BY <1>3, <1>5
      <4>2. \A l \in {"*", "Queues", "Pfcwd"} : Fits(Leaf(l), ks) => l = "*" \/ ks[4] = l
        BY <1>3, <1>5
      <4> QED BY <4>1, <4>2, EntriesOfV2R
    <3>2. SUFFICES ASSUME NEW i \in 1..4, d[i] = ks[i], Leaf(k)[i] # ks[i] PROVE FALSE
      BY <1>3 DEF Exacter
    <3>3. i = 4
      BY <3>1, <3>2, NodesAreTuples, SMTT(30)
    <3>4. l = ks[4] /\ k # ks[4]
      BY <3>1, <3>2, <3>3, NodesAreTuples
    <3> QED BY <3>4
  <2> QED BY <2>1, <2>2, <2>3
<1>4. m = 3 \/ m = 4 \/ m > 4
  OBVIOUS
<1> QED BY <1>1, <1>2, <1>3, <1>4

-----------------------------------------------------------------------------
(* Types *)

(***************************************************************************)
(* Entries of a name map; what a request may have read for the map it is   *)
(* at; the ports that are up, as the PORT rows show them.                  *)
(***************************************************************************)
Pairs == Ports \X Oids

GotOK ==
    \A r \in Requests :
        /\ pc[r] \in {"read", "assign"} => at[r] < 5
        /\ pc[r] \in {"assign2", "assign3"} => at[r] = 3
        /\ pc[r] \notin {"read", "assign", "assign2", "assign3"} => got[r] = {}
        /\ got[r] \subseteq (IF at[r] = 3 THEN Ports ELSE Pairs)

Functions0 == /\ got \in [Requests -> SUBSET (Ports \cup Pairs)] /\ DOMAIN tbl = Requests
              /\ DOMAIN ans = Requests /\ DOMAIN path = Requests

Up == cfg = {p \in Ports : port[p] # None}

TypeInv == TypeOK /\ Up /\ Functions0 /\ GotOK

(***************************************************************************)
(* The first states have their types.                                      *)
(***************************************************************************)
LEMMA InitTypes == Init => TypeInv
<1> SUFFICES ASSUME Init PROVE TypeInv
  OBVIOUS
<1>1. PICK b \in Boot :
        /\ port = [p \in Ports |-> IF p \in b.up THEN PortOid[p] ELSE None]
        /\ que = [p \in Ports |-> IF p \in b.up THEN QueOid[p] ELSE None]
        /\ cfg = b.up /\ pfc = b.pfc /\ qos = b.qos
  BY DEF Init
<1>2. /\ b.pfc \subseteq b.up /\ b.up \subseteq Ports
      /\ b.qos \in [Range(Includes) \cup {Default} -> {"none", "unset", "on"}]
  BY PathAssumption
<1>3. \A p \in Ports : PortOid[p] \in Oids /\ QueOid[p] \in Oids /\ None \notin Oids
  BY PathAssumption
<1>4. port \in [Ports -> Oids \cup {None}] /\ que \in [Ports -> Oids \cup {None}]
  BY <1>1, <1>3
<1>5. Up
  BY <1>1, <1>2, <1>3 DEF Up
<1>6. maps = NoMaps
  BY DEF Init
<1>7. maps \in [port : SUBSET (Ports \X Oids), que : SUBSET (Ports \X Oids),
                 a2n : SUBSET Ports, n2a : SUBSET Ports, p2n : SUBSET Ports,
                 pfc : SUBSET (Ports \X Oids)]
  BY <1>6 DEF NoMaps
<1>8. \A r \in Requests : path[r] \in Paths[r]
  BY PathAssumption DEF Init
<1>9. at \in [Requests -> 1..5]
  BY DEF Init
<1>10. /\ pc \in [Requests -> {"idle", "init", "read", "assign", "assign2", "assign3", "lookup",
                            "real", "exists", "data", "getter", "done"}]
       /\ res \in [Requests -> {"none", "OK", "NotFound", "panic"}]
  BY DEF Init
<1>11. Functions0
  BY DEF Init, Functions0
<1>12. GotOK
  BY DEF Init, GotOK
<1> QED BY <1>1, <1>2, <1>4, <1>5, <1>7, <1>8, <1>9, <1>10, <1>11, <1>12 DEF TypeInv, TypeOK

(***************************************************************************)
(* A change of redis keeps the types, the watchdog rows among the PORT     *)
(* rows and the PORT rows those of ports with counters.                    *)
(***************************************************************************)
LEMMA RedisTypes ==
    ASSUME TypeInv, NEW p \in Ports, PortUp(p) \/ PortDown(p) \/ PfcUp(p) \/ QosChange(Home[p])
    PROVE  TypeInv'
<1> USE DEF TypeInv
<1>1. UNCHANGED <<maps, pc, at, got, path, tbl, ans, res>>
  BY DEF PortUp, PortDown, PfcUp, QosChange, Changed
<1>2. Functions0' /\ GotOK'
  BY <1>1 DEF Functions0, GotOK
<1>3. CASE PortUp(p)
  <2>1. PICK o, q \in Oids : port' = [port EXCEPT ![p] = o] /\ que' = [que EXCEPT ![p] = q]
    BY <1>3 DEF PortUp, Fresh
  <2>2. cfg' = cfg \cup {p} /\ pfc' = pfc /\ qos' = qos
    BY <1>3 DEF PortUp
  <2>3. port' \in [Ports -> Oids \cup {None}] /\ que' \in [Ports -> Oids \cup {None}]
    BY <2>1 DEF TypeOK
  <2>4. Up'
    BY <2>1, <2>2, PathAssumption DEF Up, TypeOK
  <2> QED BY <1>1, <1>2, <2>2, <2>3, <2>4 DEF TypeOK
<1>4. CASE PortDown(p)
  <2>1. /\ port' = [port EXCEPT ![p] = None] /\ que' = [que EXCEPT ![p] = None]
        /\ cfg' = cfg \ {p} /\ pfc' = pfc \ {p} /\ qos' = qos
    BY <1>4 DEF PortDown
  <2>2. port' \in [Ports -> Oids \cup {None}] /\ que' \in [Ports -> Oids \cup {None}]
    BY <2>1 DEF TypeOK
  <2>3. Up'
    BY <2>1 DEF Up, TypeOK
  <2> QED BY <1>1, <1>2, <2>1, <2>2, <2>3 DEF TypeOK
<1>5. CASE PfcUp(p)
  <2>1. port[p] # None /\ pfc' = pfc \cup {p} /\ UNCHANGED <<port, que, cfg, qos>>
    BY <1>5 DEF PfcUp
  <2>2. Up'
    BY <2>1 DEF Up
  <2>3. p \in cfg
    BY <2>1 DEF Up
  <2> QED BY <1>1, <1>2, <2>1, <2>2, <2>3 DEF TypeOK
<1>6. CASE QosChange(Home[p])
  <2>1. /\ UNCHANGED <<port, que, cfg, pfc>>
        /\ \E q \in {"none", "unset", "on"} : qos' = [qos EXCEPT ![Home[p]] = q]
    BY <1>6 DEF QosChange
  <2>2. qos' \in [Range(Includes) \cup {Default} -> {"none", "unset", "on"}]
    BY <2>1 DEF TypeOK
  <2>3. Up'
    BY <2>1 DEF Up
  <2> QED BY <1>1, <1>2, <2>1, <2>2, <2>3 DEF TypeOK
<1> QED BY <1>3, <1>4, <1>5, <1>6

(***************************************************************************)
(* Control points within an init function; all of them; the codes.         *)
(***************************************************************************)
Busy == {"read", "assign", "assign2", "assign3"}
Points == {"idle", "init", "read", "assign", "assign2", "assign3", "lookup", "real", "exists",
           "data", "getter", "done"}
Codes == {"none", "OK", "NotFound", "panic"}

(***************************************************************************)
(* A step that leaves the name maps and what is read for them alone keeps  *)
(* the types.                                                              *)
(***************************************************************************)
LEMMA QuietTypes ==
    ASSUME TypeInv, NEW r \in Requests, pc[r] \notin Busy,
           UNCHANGED <<redisVars, maps, at, got, path>>,
           NEW l \in Points \ Busy, pc' = [pc EXCEPT ![r] = l],
           NEW c \in Codes, res' = [res EXCEPT ![r] = c],
           DOMAIN tbl' = Requests, DOMAIN ans' = Requests
    PROVE  TypeInv'
<1> USE DEF TypeInv
<1>1. UNCHANGED <<port, que, cfg, pfc, qos>>
  BY DEF redisVars
<1>2. pc' \in [Requests -> Points] /\ res' \in [Requests -> Codes]
  BY DEF TypeOK, Points, Codes
<1>3. TypeOK' /\ Up'
  BY <1>1, <1>2 DEF TypeOK, Up, Points, Codes
<1>4. Functions0'
  BY DEF Functions0
<1>5. GotOK'
  <2>1. \A q \in Requests : q # r => pc'[q] = pc[q]
    BY DEF TypeOK
  <2>2. pc'[r] = l
    BY DEF TypeOK
  <2>3. got[r] = {}
    BY DEF GotOK, Busy
  <2> QED BY <2>1, <2>2, <2>3 DEF GotOK, Busy, TypeOK
<1> QED BY <1>3, <1>4, <1>5

(***************************************************************************)
(* The steps after the name maps have been looked at keep the types, and   *)
(* concern one request.                                                    *)
(***************************************************************************)
LEMMA QuietServe ==
    ASSUME TypeInv, NEW r \in Requests,
           \/ Lookup(r) \/ RealLookup(r) \/ RealExists(r) \/ ReadData(r) \/ ReadNone(r)
           \/ Getter(r)
    PROVE  /\ TypeInv'
           /\ UNCHANGED <<redisVars, maps, at, got, path>>
           /\ pc[r] \notin Busy
           /\ \A q \in Requests : q # r => tbl'[q] = tbl[q] /\ ans'[q] = ans[q]
<1>1. UNCHANGED <<redisVars, maps, at, got, path>>
  BY DEF Lookup, RealLookup, RealExists, ReadData, ReadNone, Getter
<1>2. pc[r] \in {"lookup", "real", "exists", "data", "getter"}
  BY DEF Lookup, RealLookup, RealExists, ReadData, ReadNone, Getter
<1>3. pc' = [pc EXCEPT ![r] = pc[r]] \/ \E l \in {"real", "exists", "data", "done"} : Goto(r, l)
  BY DEF Lookup, RealLookup, RealExists, ReadData, ReadNone, Getter, Finish, TypeInv, TypeOK
<1>4. PICK l \in Points \ Busy : pc' = [pc EXCEPT ![r] = l]
  BY <1>2, <1>3 DEF Goto, Points, Busy
<1>5. res' = res \/ \E c \in Codes : res' = [res EXCEPT ![r] = c]
  BY DEF Lookup, RealLookup, RealExists, ReadData, ReadNone, Getter, Finish, Codes
<1>6. res = [res EXCEPT ![r] = res[r]] /\ res[r] \in Codes
  BY DEF TypeInv, TypeOK, Codes
<1>7. PICK c \in Codes : res' = [res EXCEPT ![r] = c]
  BY <1>5, <1>6
<1>8. tbl' = tbl \/ \E t : tbl' = [tbl EXCEPT ![r] = t]
  BY DEF Lookup, RealLookup, RealExists, ReadData, ReadNone, Getter
<1>9. ans' = ans \/ \E a : ans' = [ans EXCEPT ![r] = a]
  BY DEF Lookup, RealLookup, RealExists, ReadData, ReadNone, Getter
<1>10. /\ DOMAIN tbl' = Requests /\ DOMAIN ans' = Requests
       /\ \A q \in Requests : q # r => tbl'[q] = tbl[q] /\ ans'[q] = ans[q]
  BY <1>8, <1>9 DEF TypeInv, Functions0
<1>11. pc[r] \notin Busy
  BY <1>2 DEF Busy
<1> QED BY <1>1, <1>4, <1>7, <1>10, <1>11, QuietTypes

(***************************************************************************)
(* What a namespace adds to a name map are OIDs of ports, or ports.        *)
(***************************************************************************)
LEMMA ContentTypes ==
    ASSUME TypeOK, NEW ns
    PROVE  /\ Content(1, ns) \subseteq Pairs /\ Content(2, ns) \subseteq Pairs
           /\ Content(3, ns) \subseteq Ports /\ Content(4, ns) \subseteq Ports
<1>1. ASSUME NEW f \in [Ports -> Oids \cup {None}] PROVE Named(f) \subseteq Pairs
  BY DEF Named, Pairs
<1>2. Named(port) \subseteq Pairs /\ Named(que) \subseteq Pairs
  BY <1>1 DEF TypeOK
<1> QED BY <1>2 DEF Content, TypeOK

(***************************************************************************)
(* The type of the name maps, and the states a step in an init function    *)
(* may leave a request in.                                                 *)
(***************************************************************************)
MapsType == [port : SUBSET Pairs, que : SUBSET Pairs, a2n : SUBSET Ports, n2a : SUBSET Ports,
             p2n : SUBSET Ports, pfc : SUBSET Pairs]

Allowed(l, i, g) ==
    /\ l \in Points /\ i \in 1..5
    /\ l \in {"read", "assign"} => i < 5
    /\ l \in {"assign2", "assign3"} => i = 3
    /\ l \notin Busy => g = {}
    /\ g \subseteq (IF i = 3 THEN Ports ELSE Pairs)

(***************************************************************************)
(* A step in one of the four init functions that leaves the request in an  *)
(* allowed state keeps the types.                                          *)
(***************************************************************************)
LEMMA BusyTypes ==
    ASSUME TypeInv, NEW r \in Requests,
           UNCHANGED <<redisVars, path, tbl, ans>>,
           maps' \in MapsType,
           NEW l, pc' = [pc EXCEPT ![r] = l],
           NEW c \in Codes, res' = [res EXCEPT ![r] = c],
           NEW i, at' = [at EXCEPT ![r] = i],
           NEW g, got' = [got EXCEPT ![r] = g],
           Allowed(l, i, g)
    PROVE  TypeInv'
<1> USE DEF TypeInv
<1>1. UNCHANGED <<port, que, cfg, pfc, qos>>
  BY DEF redisVars
<1>2. /\ pc' \in [Requests -> Points] /\ res' \in [Requests -> Codes]
      /\ at' \in [Requests -> 1..5]
  BY DEF TypeOK, Points, Codes, Allowed
<1>3. TypeOK' /\ Up'
  BY <1>1, <1>2 DEF TypeOK, Up, Points, Codes, MapsType, Pairs
<1>4. Functions0'
  <2>1. g \in SUBSET (Ports \cup Pairs)
    BY DEF Allowed
  <2> QED BY <2>1 DEF Functions0
<1>5. GotOK'
  <2>1. \A q \in Requests : q # r => pc'[q] = pc[q] /\ at'[q] = at[q] /\ got'[q] = got[q]
    BY DEF TypeOK, Functions0
  <2>2. pc'[r] = l /\ at'[r] = i /\ got'[r] = g
    BY DEF TypeOK, Functions0
  <2> QED BY <2>1, <2>2 DEF GotOK, Busy, TypeOK, Allowed
<1> QED BY <1>3, <1>4, <1>5

(***************************************************************************)
(* A name map that a failed read has set to nil is a map.                  *)
(***************************************************************************)
LEMMA EmptiedType ==
    ASSUME maps \in MapsType, NEW i \in 1..4
    PROVE  Emptied(i) \in MapsType
<1>1. CASE i = 1
  BY <1>1 DEF Emptied, MapsType
<1>2. CASE i = 2
  BY <1>2 DEF Emptied, MapsType
<1>3. CASE i = 3
  BY <1>3 DEF Emptied, MapsType
<1>4. CASE i = 4
  BY <1>4 DEF Emptied, MapsType
<1> QED BY <1>1, <1>2, <1>3, <1>4

(***************************************************************************)
(* A request that does not move stays as it is, with its types.            *)
(***************************************************************************)
LEMMA Unmoved ==
    ASSUME TypeInv, NEW r \in Requests
    PROVE  /\ maps \in MapsType /\ res[r] \in Codes /\ at[r] \in 1..5 /\ pc[r] \in Points
           /\ pc = [pc EXCEPT ![r] = pc[r]] /\ res = [res EXCEPT ![r] = res[r]]
           /\ at = [at EXCEPT ![r] = at[r]]
BY DEF TypeInv, TypeOK, MapsType, Pairs, Codes, Points

(***************************************************************************)
(* The arrival of a path keeps the types.                                  *)
(***************************************************************************)
LEMMA RequestTypes ==
    ASSUME TypeInv, NEW r \in Requests, NEW a \in Paths[r], Request(r, a)
    PROVE  TypeInv'
<1> USE DEF TypeInv
<1>1. /\ UNCHANGED <<redisVars, maps, got>> /\ pc[r] \in {"idle", "done"}
      /\ path' = [path EXCEPT ![r] = a] /\ at' = [at EXCEPT ![r] = 1]
      /\ tbl' = [tbl EXCEPT ![r] = {}] /\ ans' = [ans EXCEPT ![r] = {}]
  BY DEF Request
<1>2. PICK l \in {"done", "getter", "init"} : pc' = [pc EXCEPT ![r] = l]
  BY DEF Request, Finish, Goto
<1>3. PICK c \in Codes : res' = [res EXCEPT ![r] = c]
  BY DEF Request, Finish, Codes
<1>4. UNCHANGED <<port, que, cfg, pfc, qos>>
  BY <1>1 DEF redisVars
<1>5. /\ pc' \in [Requests -> Points] /\ res' \in [Requests -> Codes]
      /\ at' \in [Requests -> 1..5]
  BY <1>1, <1>2, <1>3 DEF TypeOK, Points, Codes
<1>6. \A q \in Requests : path'[q] \in Paths[q]
  BY <1>1 DEF TypeOK, Functions0
<1>7. TypeOK' /\ Up'
  BY <1>1, <1>4, <1>5, <1>6 DEF TypeOK, Up, Points, Codes
<1>8. Functions0'
  BY <1>1 DEF Functions0
<1>9. GotOK'
  <2>1. got[r] = {}
    BY <1>1 DEF GotOK
  <2>2. \A q \in Requests : q # r => pc'[q] = pc[q] /\ at'[q] = at[q]
    BY <1>1, <1>2 DEF TypeOK
  <2>3. pc'[r] = l /\ at'[r] = 1
    BY <1>1, <1>2 DEF TypeOK
  <2> QED BY <1>1, <2>1, <2>2, <2>3 DEF GotOK
<1> QED BY <1>7, <1>8, <1>9

(***************************************************************************)
(* The test for an empty map keeps the types.                              *)
(***************************************************************************)
LEMMA InitMapTypes ==
    ASSUME TypeInv, NEW r \in Requests, InitMap(r)
    PROVE  TypeInv'
<1>1. /\ UNCHANGED <<redisVars, maps, path, tbl, ans, res>> /\ pc[r] = "init"
  BY DEF InitMap
<1>2. got[r] = {} /\ got = [got EXCEPT ![r] = {}]
  BY <1>1 DEF TypeInv, GotOK, Functions0
<1>3. CASE at[r] = 5
  <2>1. pc' = [pc EXCEPT ![r] = "lookup"] /\ UNCHANGED <<at, got>>
    BY <1>3 DEF InitMap, Goto
  <2>2. Allowed("lookup", at[r], {})
    BY Unmoved DEF Allowed, Points, Busy
  <2> QED BY <1>1, <1>2, <2>1, <2>2, Unmoved, BusyTypes
<1>4. CASE at[r] # 5 /\ Filled(at[r])
  <2>1. at' = [at EXCEPT ![r] = at[r] + 1] /\ UNCHANGED <<pc, got>>
    BY <1>4 DEF InitMap
  <2>2. at[r] + 1 \in 1..5
    BY <1>4, Unmoved
  <2>3. Allowed(pc[r], at[r] + 1, {})
    BY <1>1, <2>2 DEF Allowed, Points, Busy
  <2> QED BY <1>1, <1>2, <2>1, <2>3, Unmoved, BusyTypes
<1>5. CASE at[r] # 5 /\ ~Filled(at[r])
  <2>1. pc' = [pc EXCEPT ![r] = "read"] /\ at' = at /\ got' = [got EXCEPT ![r] = {}]
    BY <1>5 DEF InitMap, Goto
  <2>2. at[r] < 5
    BY <1>5, Unmoved
  <2>3. Allowed("read", at[r], {})
    BY <2>2, Unmoved DEF Allowed, Points, Busy
  <2> QED BY <1>1, <2>1, <2>3, Unmoved, BusyTypes
<1> QED BY <1>3, <1>4, <1>5

(***************************************************************************)
(* A namespace read by getCountersMap or getAliasMap keeps the types.      *)
(***************************************************************************)
LEMMA ReadMapTypes ==
    ASSUME TypeInv, NEW r \in Requests, ReadMap(r)
    PROVE  TypeInv'
<1>1. /\ UNCHANGED <<redisVars, maps, path, tbl, ans, res, at>> /\ pc[r] = "read" /\ at[r] < 4
  BY DEF ReadMap
<1>2. PICK l \in {"read", "assign"} : pc' = [pc EXCEPT ![r] = l]
  BY DEF ReadMap, Goto
<1>3. at[r] \in 1..3
  BY <1>1, Unmoved
<1>4. got[r] \subseteq (IF at[r] = 3 THEN Ports ELSE Pairs) /\ got = [got EXCEPT ![r] = got[r]]
  BY DEF TypeInv, GotOK, Functions0
<1>5. PICK ns : got' = got \/ got' = [got EXCEPT ![r] = got[r] \cup Content(at[r], ns)]
  BY DEF ReadMap
<1>6. Content(at[r], ns) \subseteq (IF at[r] = 3 THEN Ports ELSE Pairs)
  BY <1>3, ContentTypes DEF TypeInv
<1>7. PICK g : /\ got' = [got EXCEPT ![r] = g]
               /\ g \subseteq (IF at[r] = 3 THEN Ports ELSE Pairs)
  BY <1>4, <1>5, <1>6
<1>8. Allowed(l, at[r], g)
  BY <1>2, <1>3, <1>7 DEF Allowed, Points, Busy
<1> QED BY <1>1, <1>2, <1>7, <1>8, Unmoved, BusyTypes

(***************************************************************************)
(* A read that fails keeps the types.                                      *)
(***************************************************************************)
LEMMA FailsTypes ==
    ASSUME TypeInv, NEW r \in Requests, Fails(r), pc[r] = "read",
           UNCHANGED <<redisVars, path, tbl, ans, at>>
    PROVE  TypeInv'
<1>1. /\ maps' = Emptied(at[r]) /\ got' = [got EXCEPT ![r] = {}]
      /\ pc' = [pc EXCEPT ![r] = "done"] /\ res' = [res EXCEPT ![r] = "NotFound"]
  BY DEF Fails, Finish, Goto
<1>2. at[r] \in 1..4
  BY Unmoved DEF TypeInv, GotOK
<1>3. maps' \in MapsType
  BY <1>1, <1>2, Unmoved, EmptiedType
<1>4. Allowed("done", at[r], {})
  BY Unmoved DEF Allowed, Points, Busy
<1>5. "NotFound" \in Codes
  BY DEF Codes
<1> QED BY <1>1, <1>3, <1>4, <1>5, Unmoved, BusyTypes

(***************************************************************************)
(* getPfcwdMap fails, or has OIDs of the queue map.                        *)
(***************************************************************************)
LEMMA ReadPfcCases ==
    ASSUME NEW r \in Requests, ReadPfc(r)
    PROVE  \/ Fails(r)
           \/ /\ maps' = maps /\ res' = res
              /\ \E g, l : /\ got' = [got EXCEPT ![r] = g] /\ g \subseteq maps.que
                           /\ pc' = [pc EXCEPT ![r] = l] /\ l \in {"read", "assign"}
BY SMTT(30) DEF ReadPfc, Goto

(***************************************************************************)
(* A namespace read by getPfcwdMap keeps the types.                        *)
(***************************************************************************)
LEMMA ReadPfcTypes ==
    ASSUME TypeInv, NEW r \in Requests, ReadPfc(r)
    PROVE  TypeInv'
<1>1. /\ UNCHANGED <<redisVars, path, tbl, ans, at>> /\ pc[r] = "read" /\ at[r] = 4
  BY DEF ReadPfc
<1>2. CASE Fails(r)
  BY <1>1, <1>2, FailsTypes
<1>3. CASE maps' = maps /\ res' = res /\
           \E g, l : /\ got' = [got EXCEPT ![r] = g] /\ g \subseteq maps.que
                    /\ pc' = [pc EXCEPT ![r] = l] /\ l \in {"read", "assign"}
  <2>1. PICK g, l : /\ got' = [got EXCEPT ![r] = g] /\ g \subseteq maps.que
                    /\ pc' = [pc EXCEPT ![r] = l] /\ l \in {"read", "assign"}
    BY <1>3
  <2>2. g \subseteq Pairs
    BY <2>1, Unmoved DEF MapsType
  <2>3. Allowed(l, at[r], g)
    BY <1>1, <2>1, <2>2 DEF Allowed, Points, Busy
  <2> QED BY <1>1, <1>3, <2>1, <2>3, Unmoved, BusyTypes
<1> QED BY <1>2, <1>3, ReadPfcCases

(***************************************************************************)
(* The assignment of a name map keeps the types.                           *)
(***************************************************************************)
LEMMA AssignTypes ==
    ASSUME TypeInv, NEW r \in Requests, Assign(r)
    PROVE  TypeInv'
<1>1. /\ UNCHANGED <<redisVars, path, tbl, ans, res>> /\ maps' = Assigned(r)
      /\ pc[r] \in {"assign", "assign2", "assign3"}
  BY DEF Assign
<1>2. at[r] \in 1..4 /\ (pc[r] # "assign" => at[r] = 3)
  BY <1>1, Unmoved DEF TypeInv, GotOK
<1>3. got[r] \subseteq (IF at[r] = 3 THEN Ports ELSE Pairs)
  BY DEF TypeInv, GotOK
<1>4. maps' \in MapsType
  <2>1. CASE at[r] = 1
    BY <1>1, <1>3, <2>1, Unmoved DEF Assigned, MapsType
  <2>2. CASE at[r] = 2
    BY <1>1, <1>3, <2>2, Unmoved DEF Assigned, MapsType
  <2>3. CASE at[r] = 3
    BY <1>1, <1>3, <2>3, Unmoved DEF Assigned, MapsType
  <2>4. CASE at[r] = 4
    BY <1>1, <1>3, <2>4, Unmoved DEF Assigned, MapsType
  <2> QED BY <1>2, <2>1, <2>2, <2>3, <2>4
<1>5. CASE at[r] = 3 /\ pc[r] # "assign3"
  <2>1. PICK l \in {"assign2", "assign3"} : UNCHANGED <<at, got>> /\ pc' = [pc EXCEPT ![r] = l]
    BY <1>5 DEF Assign, Goto
  <2>2. got = [got EXCEPT ![r] = got[r]]
    BY DEF TypeInv, Functions0
  <2>3. Allowed(l, at[r], got[r])
    BY <1>3, <1>5 DEF Allowed, Points, Busy
  <2> QED BY <1>1, <1>4, <2>1, <2>2, <2>3, Unmoved, BusyTypes
<1>6. CASE ~(at[r] = 3 /\ pc[r] # "assign3")
  <2>1. /\ pc' = [pc EXCEPT ![r] = "init"] /\ at' = [at EXCEPT ![r] = at[r] + 1]
        /\ got' = [got EXCEPT ![r] = {}]
    BY <1>6 DEF Assign, Goto
  <2>2. at[r] + 1 \in 1..5
    BY <1>2
  <2>3. Allowed("init", at[r] + 1, {})
    BY <2>2 DEF Allowed, Points, Busy
  <2> QED BY <1>1, <1>4, <2>1, <2>3, Unmoved, BusyTypes
<1> QED BY <1>5, <1>6

(***************************************************************************)
(* Every step keeps the types.                                             *)
(***************************************************************************)
LEMMA NextTypes == TypeInv /\ [Next]_vars => TypeInv'
<1> SUFFICES ASSUME TypeInv, [Next]_vars PROVE TypeInv'
  OBVIOUS
<1>1. ASSUME NEW r \in Requests, Serve(r) PROVE TypeInv'
  <2>1. CASE \E a \in Paths[r] : Request(r, a)
    BY <2>1, RequestTypes
  <2>2. CASE InitMap(r)
    BY <2>2, InitMapTypes
  <2>3. CASE ReadMap(r)
    BY <2>3, ReadMapTypes
  <2>4. CASE ReadPfc(r)
    BY <2>4, ReadPfcTypes
  <2>5. CASE ReadFails(r)
    BY <2>5, FailsTypes DEF ReadFails
  <2>6. CASE Assign(r)
    BY <2>6, AssignTypes
  <2>7. CASE \/ Lookup(r) \/ RealLookup(r) \/ RealExists(r) \/ ReadData(r) \/ ReadNone(r)
             \/ Getter(r)
    BY <2>7, QuietServe
  <2> QED BY <1>1, <2>1, <2>2, <2>3, <2>4, <2>5, <2>6, <2>7 DEF Serve
<1>2. CASE \E p \in Ports : PortUp(p) \/ PortDown(p) \/ PfcUp(p) \/ QosChange(Home[p])
  BY <1>2, RedisTypes
<1>3. CASE UNCHANGED vars
  BY <1>3 DEF vars, TypeInv, TypeOK, Up, Functions0, GotOK
<1> QED BY <1>1, <1>2, <1>3 DEF Next

(***************************************************************************)
(* TypeInv is an invariant.                                                *)
(***************************************************************************)
LEMMA AlwaysTyped == Spec => []TypeInv
BY InitTypes, NextTypes, PTL DEF Spec

(***************************************************************************)
(* The variables keep their types, for every set of ports and namespaces,  *)
(* any number of concurrent requests, and every bound: the name maps hold  *)
(* OIDs of ports, and a request is at one of the four maps or past them.   *)
(***************************************************************************)
THEOREM PathTypes == Spec => []TypeOK
<1>1. TypeInv => TypeOK
  BY DEF TypeInv
<1> QED BY <1>1, AlwaysTyped, PTL

-----------------------------------------------------------------------------
(* The trie finds the translator *)

(***************************************************************************)
(* A path with COUNTERS_DB before it is one element longer, and its        *)
(* elements move up by one.                                                *)
(***************************************************************************)
LEMMA OneMore ==
    ASSUME NEW S, NEW u \in Seq(S), NEW es \in Seq(S), Len(u) = 1
    PROVE  /\ Len(u \o es) = Len(es) + 1 /\ (u \o es)[1] = u[1]
           /\ \A i \in 1..Len(es) : (u \o es)[i + 1] = es[i]
<1> DEFINE w == u \o es
<1>1. /\ Len(w) = Len(u) + Len(es)
      /\ \A i \in 1 .. Len(u) + Len(es) : w[i] = IF i <= Len(u) THEN u[i] ELSE es[i - Len(u)]
  BY ConcatProperties
<1>2. Len(es) \in Nat
  OBVIOUS
<1> HIDE DEF w
<1>3. Len(w) = Len(es) + 1 /\ w[1] = u[1]
  BY <1>1, <1>2
<1>4. ASSUME NEW i \in 1..Len(es) PROVE w[i + 1] = es[i]
  <2>1. i + 1 \in 1..Len(u) + Len(es) /\ ~(i + 1 <= Len(u)) /\ (i + 1) - Len(u) = i
    BY <1>2
  <2> QED BY <1>1, <2>1
<1> QED BY <1>3, <1>4 DEF w

(***************************************************************************)
(* The keys that lookupV2R gives to Trie.Find, from the elements of the    *)
(* path: COUNTERS_DB, then the elements.                                   *)
(***************************************************************************)
LEMMA KeysOf ==
    ASSUME TypeOK, NEW r \in Requests, NEW ks, ks = <<"COUNTERS_DB">> \o path[r].elems
    PROVE  /\ Len(path[r].elems) \in Nat /\ Len(path[r].elems) > 1
           /\ Len(ks) = Len(path[r].elems) + 1
           /\ ks[1] = "COUNTERS_DB" /\ ks[2] = path[r].elems[1] /\ ks[3] = path[r].elems[2]
           /\ Len(path[r].elems) > 2 => ks[4] = path[r].elems[3]
<1> DEFINE es == path[r].elems
           S == Range(es) \cup {"COUNTERS_DB"}
           u == <<"COUNTERS_DB">>
<1>1. es \in Seq(Range(es)) /\ Len(es) > 1
  BY PathAssumption DEF TypeOK
<1>2. u \in Seq(S) /\ Len(u) = 1 /\ u[1] = "COUNTERS_DB"
  OBVIOUS
<1>3. es \in Seq(S)
  BY <1>1, SeqMonotonic
<1>4. ks = u \o es
  OBVIOUS
<1> HIDE DEF es, S, u
<1>5. /\ Len(u \o es) = Len(es) + 1 /\ (u \o es)[1] = u[1]
      /\ \A i \in 1..Len(es) : (u \o es)[i + 1] = es[i]
  BY <1>2, <1>3, OneMore
<1>6. /\ Len(ks) = Len(es) + 1 /\ ks[1] = u[1]
      /\ \A i \in 1..Len(es) : ks[i + 1] = es[i]
  BY <1>4, <1>5
<1>7. Len(es) \in Nat
  BY <1>3
<1>8. ks[1 + 1] = es[1] /\ ks[2 + 1] = es[2] /\ (Len(es) > 2 => ks[3 + 1] = es[3])
  BY <1>1, <1>6, <1>7, SMTT(30)
<1> QED BY <1>1, <1>2, <1>6, <1>7, <1>8 DEF es

(***************************************************************************)
(* The trie is right in every state with its types.                        *)
(***************************************************************************)
LEMMA TrieStep == ASSUME TypeOK PROVE TrieAgrees
<1>1. ASSUME NEW r \in Requests,
             NEW ks, ks = <<"COUNTERS_DB">> \o path[r].elems,
             NEW F, F = {e \in DOMAIN V2R : Fits(e, ks)},
             NEW B, B = {e \in F : \A d \in F : ~Exacter(d, e, ks)}
      PROVE  IF F = {} THEN Find(V2R, ks) = "none" ELSE Find(V2R, ks) \in {V2R[e] : e \in B}
  <2> DEFINE m == Len(path[r].elems) + 1
  <2>1. m \in Nat /\ m > 2 /\ Len(ks) = m /\ ks[1] = "COUNTERS_DB"
    BY <1>1, KeysOf
  <2> HIDE DEF m
  <2> QED BY <1>1, <2>1, Agrees
<1> QED BY <1>1 DEF TrieAgrees

(***************************************************************************)
(* findNode finds, for every path a request may ask for, the function of   *)
(* an entry of pathTransFuncTbl that fits level by level, an exact name    *)
(* before a wildcard, and finds nothing only if no entry fits - although   *)
(* it never goes back up after it has taken a child.                       *)
(***************************************************************************)
THEOREM TrieIsRight == Spec => []TrieAgrees
<1>1. TypeInv => TrieAgrees
  BY TrieStep DEF TypeInv
<1> QED BY <1>1, AlwaysTyped, PTL

(***************************************************************************)
(* The function that lookupV2R finds is one of the kind of counters that   *)
(* the path asks for.                                                      *)
(***************************************************************************)
LEMMA KindOf ==
    ASSUME TypeOK, NEW r \in Requests, NEW f,
           f = Find(V2R, <<"COUNTERS_DB">> \o path[r].elems)
    PROVE  /\ f \in {"v2rEthPortStats", "v2rEthPortFieldStats"} => Kind(path[r]) = "port"
           /\ f \in {"v2rEthPortQueStats", "v2rEthPortPfcwdStats"} => Kind(path[r]) = "queue"
<1> DEFINE ks == <<"COUNTERS_DB">> \o path[r].elems
           es == path[r].elems
<1>1. /\ Len(es) \in Nat /\ Len(es) > 1 /\ Len(ks) = Len(es) + 1
      /\ ks[1] = "COUNTERS_DB" /\ ks[2] = es[1] /\ ks[3] = es[2]
      /\ Len(es) > 2 => ks[4] = es[3]
  BY KeysOf
<1>2. f = Find(V2R, ks)
  OBVIOUS
<1>3. Kind(path[r]) = IF es[Len(es)] \in {"Queues", "Pfcwd"} THEN "queue" ELSE "port"
  BY DEF Kind
<1> HIDE DEF ks, es
<1>4. PICK n \in Nat : n = Len(es) /\ n > 1
  BY <1>1
<1>5. PICK m \in Nat : m = n + 1 /\ m = Len(ks) /\ m > 2
  BY <1>1, <1>4
<1>6. f = IF ks[2] # "COUNTERS" \/ ~IsPrefixed(ks[3]) \/ m > 4 THEN "none"
          ELSE IF m = 3 THEN "v2rEthPortStats"
          ELSE IF ks[4] = "Queues" THEN "v2rEthPortQueStats"
          ELSE IF ks[4] = "Pfcwd" THEN "v2rEthPortPfcwdStats"
          ELSE "v2rEthPortFieldStats"
  BY <1>1, <1>2, <1>5, FindsTranslator
<1>7. CASE f = "v2rEthPortStats"
  <2>1. m = 3 /\ IsPrefixed(ks[3])
    BY <1>6, <1>7
  <2>2. n = 2
    BY <1>5, <2>1
  <2>3. es[2] \notin {"Queues", "Pfcwd"}
    BY <1>1, <2>1, PathAssumption, ZenonT(40) DEF IsPrefixed
  <2> QED BY <1>3, <1>4, <1>7, <2>2, <2>3
<1>8. CASE f \in {"v2rEthPortFieldStats", "v2rEthPortQueStats", "v2rEthPortPfcwdStats"}
  <2>1. m = 4
    BY <1>5, <1>6, <1>8
  <2>2. n = 3
    BY <1>5, <2>1
  <2>3. ks[4] = es[3]
    BY <1>1, <1>4, <2>2
  <2> QED BY <1>3, <1>4, <1>6, <1>8, <2>2, <2>3
<1> QED BY <1>7, <1>8

-----------------------------------------------------------------------------
(* Whose counters they are *)

(***************************************************************************)
(* No port has the name of another one as its alias.                       *)
(***************************************************************************)
Apart == \A p, q \in Ports : Alias[p] = q => p = q

(***************************************************************************)
(* OID o of namespace ns has been used and, if it is in use, belongs to p: *)
(* as its own or, if k is queue, as its queue's.                           *)
(***************************************************************************)
OwnedBy(ns, o, p, k) ==
    /\ <<ns, o>> \in used
    /\ \A q \in Ports : Home[q] = ns =>
         /\ port[q] = o => q = p /\ k = "port"
         /\ que[q] = o => q = p /\ k = "queue"

(***************************************************************************)
(* The OIDs in redis, in the name maps, in what requests have read for     *)
(* them and in the table paths belong to the ports they stand for.         *)
(***************************************************************************)
Entries(m, k) == \A e \in m : OwnedBy(Home[e[1]], e[2], e[1], k)

RedisOwned ==
    \A p \in Ports : \A o \in Oids :
        /\ port[p] = o => OwnedBy(Home[p], o, p, "port")
        /\ que[p] = o => OwnedBy(Home[p], o, p, "queue")

MapsOwned == Entries(maps.port, "port") /\ Entries(maps.que, "queue") /\ Entries(maps.pfc, "queue")

GotOwned ==
    \A r \in Requests : /\ at[r] = 1 => Entries(got[r], "port")
                        /\ at[r] \in {2, 4} => Entries(got[r], "queue")

TablesOwned ==
    \A r \in Requests : \A t \in tbl[r] :
        \/ t.label \in Oids \/ t.key = None
        \/ t.key \in Oids /\ OwnedBy(t.ns, t.key, Labelled(t.label), Kind(path[r]))

(***************************************************************************)
(* The inductive invariant for RightCounters.                              *)
(***************************************************************************)
PathInv == TypeInv /\ RedisOwned /\ MapsOwned /\ GotOwned /\ TablesOwned /\ RightCounters

(***************************************************************************)
(* An alias names its port, and so does the name of a port that is nobody  *)
(* else's alias.                                                           *)
(***************************************************************************)
LEMMA LabelledPort ==
    ASSUME NEW p \in Ports
    PROVE  Labelled(Alias[p]) = p /\ (Apart => Labelled(p) = p)
<1>1. ASSUME NEW l, Alias[p] = l PROVE Labelled(l) = p
  BY <1>1, PathAssumption DEF Labelled
<1>2. ASSUME Apart PROVE Labelled(p) = p
  BY <1>2, PathAssumption DEF Labelled, Apart
<1> QED BY <1>1, <1>2

(***************************************************************************)
(* A row of COUNTERS whose OID belongs to p shows counters of p.           *)
(***************************************************************************)
LEMMA OwnerIs ==
    ASSUME NEW ns, NEW o, NEW p, NEW k, OwnedBy(ns, o, p, k), NEW x \in Owner(ns, o)
    PROVE  x = [port |-> p, kind |-> k]
BY DEF Owner, OwnedBy

(***************************************************************************)
(* No row of COUNTERS has no OID.                                          *)
(***************************************************************************)
LEMMA NoOwner == ASSUME NEW ns PROVE Owner(ns, None) = {}
BY DEF Owner

(***************************************************************************)
(* An OID keeps its owner while redis stays as it is.                      *)
(***************************************************************************)
LEMMA OwnedKeeps ==
    ASSUME UNCHANGED redisVars, NEW ns, NEW o, NEW p, NEW k, OwnedBy(ns, o, p, k)
    PROVE  OwnedBy(ns, o, p, k)'
BY DEF OwnedBy, redisVars

(***************************************************************************)
(* An OID that has been used for a port is never used for another one,     *)
(* unless OIDs are used again: COUNTERS may lose the row, no more.         *)
(***************************************************************************)
LEMMA OwnedStays ==
    ASSUME TypeInv, ~Reuse, NEW c \in Ports,
           PortUp(c) \/ PortDown(c) \/ PfcUp(c) \/ QosChange(Home[c]),
           NEW ns, NEW o \in Oids, NEW p, NEW k, OwnedBy(ns, o, p, k)
    PROVE  OwnedBy(ns, o, p, k)'
<1>1. CASE PortUp(c)
  <2>1. PICK x, y \in Fresh(Home[c]) :
          /\ port' = [port EXCEPT ![c] = x] /\ que' = [que EXCEPT ![c] = y]
          /\ used' = used \cup {<<Home[c], x>>, <<Home[c], y>>}
    BY <1>1 DEF PortUp
  <2>2. <<Home[c], x>> \notin used /\ <<Home[c], y>> \notin used
    BY DEF Fresh
  <2> QED BY <2>1, <2>2 DEF OwnedBy, TypeInv, TypeOK
<1>2. CASE PortDown(c)
  <2>1. /\ port' = [port EXCEPT ![c] = None] /\ que' = [que EXCEPT ![c] = None]
        /\ used' = used
    BY <1>2 DEF PortDown
  <2> QED BY <2>1, PathAssumption DEF OwnedBy, TypeInv, TypeOK
<1>3. CASE PfcUp(c) \/ QosChange(Home[c])
  BY <1>3 DEF PfcUp, QosChange, OwnedBy
<1> QED BY <1>1, <1>2, <1>3

(***************************************************************************)
(* The first states satisfy the invariant: the OIDs that are given out at  *)
(* first differ within a namespace.                                        *)
(***************************************************************************)
LEMMA InitOwned == Init => PathInv
<1> SUFFICES ASSUME Init PROVE PathInv
  OBVIOUS
<1>1. PICK b \in Boot :
        /\ port = [p \in Ports |-> IF p \in b.up THEN PortOid[p] ELSE None]
        /\ que = [p \in Ports |-> IF p \in b.up THEN QueOid[p] ELSE None]
        /\ used = UNION {{<<Home[p], PortOid[p]>>, <<Home[p], QueOid[p]>>} : p \in b.up}
  BY DEF Init
<1>2. RedisOwned
  <2>0. ASSUME NEW p \in Ports, p \in b.up
        PROVE  /\ OwnedBy(Home[p], PortOid[p], p, "port")
               /\ OwnedBy(Home[p], QueOid[p], p, "queue")
    <3>1. <<Home[p], PortOid[p]>> \in used /\ <<Home[p], QueOid[p]>> \in used
      BY <1>1, <2>0
    <3>2. ASSUME NEW q \in Ports, Home[q] = Home[p]
          PROVE  /\ port[q] = PortOid[p] => q = p
                 /\ que[q] = QueOid[p] => q = p
                 /\ que[q] # PortOid[p] /\ port[q] # QueOid[p]
      <4>1. /\ port[q] \in {PortOid[q], None} /\ que[q] \in {QueOid[q], None}
            /\ {PortOid[p], QueOid[p]} \subseteq Oids /\ None \notin Oids
            /\ PortOid[p] # QueOid[p]
        BY <1>1, PathAssumption
      <4>2. q # p => {PortOid[p], QueOid[p]} \cap {PortOid[q], QueOid[q]} = {}
        BY <3>2, PathAssumption
      <4> QED BY <4>1, <4>2
    <3> QED BY <3>1, <3>2 DEF OwnedBy
  <2>1. ASSUME NEW p \in Ports, NEW o \in Oids
        PROVE  /\ port[p] = o => p \in b.up /\ o = PortOid[p]
               /\ que[p] = o => p \in b.up /\ o = QueOid[p]
    BY <1>1, PathAssumption
  <2> QED BY <2>0, <2>1 DEF RedisOwned
<1>3. MapsOwned
  BY DEF Init, NoMaps, MapsOwned, Entries
<1>4. GotOwned
  BY DEF Init, GotOwned, Entries
<1>5. TablesOwned /\ RightCounters
  BY DEF Init, TablesOwned, RightCounters
<1> QED BY <1>2, <1>3, <1>4, <1>5, InitTypes DEF PathInv

(***************************************************************************)
(* A port that comes up or goes leaves each OID in use with its owner.     *)
(***************************************************************************)
LEMMA RedisStaysOwned ==
    ASSUME TypeInv, ~Reuse, RedisOwned, NEW c \in Ports,
           PortUp(c) \/ PortDown(c) \/ PfcUp(c) \/ QosChange(Home[c])
    PROVE  RedisOwned'
<1>1. CASE PortUp(c)
  <2>1. PICK x, y \in Fresh(Home[c]) :
          /\ x # y
          /\ port' = [port EXCEPT ![c] = x] /\ que' = [que EXCEPT ![c] = y]
          /\ used' = used \cup {<<Home[c], x>>, <<Home[c], y>>}
    BY <1>1 DEF PortUp
  <2>2. <<Home[c], x>> \notin used /\ <<Home[c], y>> \notin used /\ x \in Oids /\ y \in Oids
    BY DEF Fresh
  <2>3. ASSUME NEW q \in Ports, Home[q] = Home[c]
        PROVE  /\ port[q] # x /\ port[q] # y /\ que[q] # x /\ que[q] # y
    BY <2>2, <2>3 DEF RedisOwned, OwnedBy
  <2>4. /\ port'[c] = x /\ que'[c] = y
        /\ \A q \in Ports : q # c => port'[q] = port[q] /\ que'[q] = que[q]
    BY <2>1 DEF TypeInv, TypeOK
  <2>5. OwnedBy(Home[c], x, c, "port")' /\ OwnedBy(Home[c], y, c, "queue")'
    BY <2>1, <2>3, <2>4 DEF OwnedBy
  <2>6. ASSUME NEW p \in Ports, p # c, NEW o \in Oids
        PROVE  /\ port[p] = o => OwnedBy(Home[p], o, p, "port")'
               /\ que[p] = o => OwnedBy(Home[p], o, p, "queue")'
    BY <1>1, OwnedStays DEF RedisOwned
  <2>7. ASSUME NEW p \in Ports, NEW o \in Oids
        PROVE  /\ port'[p] = o => OwnedBy(Home[p], o, p, "port")'
               /\ que'[p] = o => OwnedBy(Home[p], o, p, "queue")'
    BY <2>4, <2>5, <2>6
  <2> QED BY <2>7 DEF RedisOwned
<1>2. CASE PortDown(c) \/ PfcUp(c) \/ QosChange(Home[c])
  <2>1. ASSUME NEW p \in Ports, NEW o \in Oids
        PROVE  (port'[p] = o => port[p] = o) /\ (que'[p] = o => que[p] = o)
    BY <1>2, PathAssumption DEF PortDown, PfcUp, QosChange, TypeInv, TypeOK
  <2>2. ASSUME NEW p \in Ports, NEW o \in Oids
        PROVE  /\ port'[p] = o => OwnedBy(Home[p], o, p, "port")'
               /\ que'[p] = o => OwnedBy(Home[p], o, p, "queue")'
    BY <2>1, OwnedStays DEF RedisOwned
  <2> QED BY <2>2 DEF RedisOwned
<1> QED BY <1>1, <1>2

(***************************************************************************)
(* The entries of a name map keep their owners if OIDs do.                 *)
(***************************************************************************)
LEMMA EntriesStay ==
    ASSUME NEW m \in SUBSET Pairs, NEW k, Entries(m, k),
           \A ns, o, p : o \in Oids /\ OwnedBy(ns, o, p, k) => OwnedBy(ns, o, p, k)'
    PROVE  Entries(m, k)'
BY DEF Entries, Pairs

(***************************************************************************)
(* A change of redis keeps the invariant although the name maps, and what  *)
(* a request has read or found, are then old.                              *)
(***************************************************************************)
LEMMA RedisOwnedStep ==
    ASSUME PathInv, ~Reuse, NEW c \in Ports,
           PortUp(c) \/ PortDown(c) \/ PfcUp(c) \/ QosChange(Home[c])
    PROVE  PathInv'
<1>1. UNCHANGED <<maps, pc, at, got, path, tbl, ans>>
  BY DEF PortUp, PortDown, PfcUp, QosChange, Changed
<1>2. TypeInv' /\ RedisOwned'
  BY RedisTypes, RedisStaysOwned DEF PathInv
<1>3. \A ns, o, p, k : o \in Oids /\ OwnedBy(ns, o, p, k) => OwnedBy(ns, o, p, k)'
  BY OwnedStays DEF PathInv
<1>4. ASSUME NEW m \in SUBSET Pairs, NEW k, Entries(m, k) PROVE Entries(m, k)'
  BY <1>3, <1>4, EntriesStay
<1>5. maps.port \in SUBSET Pairs /\ maps.que \in SUBSET Pairs /\ maps.pfc \in SUBSET Pairs
  BY DEF PathInv, TypeInv, TypeOK, Pairs
<1>6. MapsOwned'
  BY <1>1, <1>4, <1>5 DEF PathInv, MapsOwned
<1>7. GotOwned'
  <2>1. \A r \in Requests : at[r] # 3 => got[r] \in SUBSET Pairs
    BY DEF PathInv, TypeInv, GotOK
  <2> QED BY <1>1, <1>4, <2>1 DEF PathInv, GotOwned
<1>8. TablesOwned'
  BY <1>1, <1>3 DEF PathInv, TablesOwned
<1>9. RightCounters'
  BY <1>1 DEF PathInv, RightCounters
<1> QED BY <1>2, <1>6, <1>7, <1>8, <1>9 DEF PathInv

(***************************************************************************)
(* The entries of a name map keep their owners while redis stays as it is. *)
(***************************************************************************)
LEMMA EntriesKeep ==
    ASSUME UNCHANGED redisVars, NEW m, NEW k, Entries(m, k)
    PROVE  Entries(m, k)'
BY OwnedKeeps DEF Entries

(***************************************************************************)
(* So do the OIDs in use.                                                  *)
(***************************************************************************)
LEMMA RedisKeeps ==
    ASSUME UNCHANGED redisVars, RedisOwned
    PROVE  RedisOwned'
<1>1. port' = port /\ que' = que
  BY DEF redisVars
<1> QED BY <1>1, OwnedKeeps DEF RedisOwned

(***************************************************************************)
(* MapsOwned and GotOwned, of given values.                                *)
(***************************************************************************)
MapOwned(ms) == /\ Entries(ms.port, "port") /\ Entries(ms.que, "queue")
                /\ Entries(ms.pfc, "queue")

ReadOwned(i, g) == /\ i = 1 => Entries(g, "port")
                   /\ i \in {2, 4} => Entries(g, "queue")

(***************************************************************************)
(* A step in one of the four init functions keeps the invariant if it      *)
(* leaves right entries in the maps and in what it has read.               *)
(***************************************************************************)
LEMMA BusyOwned ==
    ASSUME PathInv, TypeInv', UNCHANGED <<redisVars, path, tbl, ans>>,
           NEW ms, maps' = ms, MapOwned(ms), NEW r \in Requests,
           NEW i, at' = [at EXCEPT ![r] = i],
           NEW g, got' = [got EXCEPT ![r] = g], ReadOwned(i, g)
    PROVE  PathInv'
<1>1. RedisOwned'
  BY RedisKeeps DEF PathInv
<1>2. MapsOwned'
  BY EntriesKeep DEF MapsOwned, MapOwned
<1>3. GotOwned'
  <2>1. ASSUME NEW q \in Requests PROVE ReadOwned(at'[q], got'[q])
    <3>1. CASE q = r
      BY <3>1 DEF PathInv, TypeInv, TypeOK, Functions0
    <3>2. CASE q # r
      <4>1. at'[q] = at[q] /\ got'[q] = got[q]
        BY <3>2 DEF PathInv, TypeInv, TypeOK, Functions0
      <4> QED BY <4>1 DEF PathInv, GotOwned, ReadOwned
    <3> QED BY <3>1, <3>2
  <2> QED BY <2>1, EntriesKeep DEF GotOwned, ReadOwned
<1>4. TablesOwned'
  BY OwnedKeeps DEF PathInv, TablesOwned
<1>5. RightCounters'
  BY DEF PathInv, RightCounters
<1> QED BY <1>1, <1>2, <1>3, <1>4, <1>5 DEF PathInv

(***************************************************************************)
(* What the invariant says of a request that does not move.                *)
(***************************************************************************)
LEMMA Kept ==
    ASSUME PathInv, NEW r \in Requests
    PROVE  /\ MapOwned(maps) /\ ReadOwned(at[r], got[r])
           /\ at = [at EXCEPT ![r] = at[r]] /\ got = [got EXCEPT ![r] = got[r]]
           /\ \A i : ReadOwned(i, {})
           /\ at[r] \in 1..5
BY DEF PathInv, TypeInv, TypeOK, Functions0, MapsOwned, MapOwned, GotOwned, ReadOwned, Entries

(***************************************************************************)
(* The test for an empty map keeps the invariant.                          *)
(***************************************************************************)
LEMMA InitMapOwned ==
    ASSUME PathInv, NEW r \in Requests, InitMap(r)
    PROVE  PathInv'
<1>1. /\ UNCHANGED <<redisVars, maps, path, tbl, ans>> /\ pc[r] = "init" /\ TypeInv'
  BY InitMapTypes DEF InitMap, PathInv
<1>2. got[r] = {}
  BY <1>1 DEF PathInv, TypeInv, GotOK
<1>3. PICK i : at' = [at EXCEPT ![r] = i]
  BY Kept DEF InitMap
<1>4. got' = [got EXCEPT ![r] = {}]
  BY <1>2, Kept DEF InitMap
<1> QED BY <1>1, <1>3, <1>4, Kept, BusyOwned

(***************************************************************************)
(* What is read of a namespace belongs to the ports it is read for.        *)
(***************************************************************************)
LEMMA ContentOwned ==
    ASSUME TypeOK, RedisOwned, NEW ns
    PROVE  Entries(Content(1, ns), "port") /\ Entries(Content(2, ns), "queue")
<1>1. ASSUME NEW e \in Named(port) PROVE OwnedBy(Home[e[1]], e[2], e[1], "port")
  BY DEF Named, TypeOK, RedisOwned
<1>2. ASSUME NEW e \in Named(que) PROVE OwnedBy(Home[e[1]], e[2], e[1], "queue")
  BY DEF Named, TypeOK, RedisOwned
<1> QED BY <1>1, <1>2 DEF Content, Entries

(***************************************************************************)
(* A namespace read by getCountersMap or getAliasMap keeps the invariant.  *)
(***************************************************************************)
LEMMA ReadMapOwned ==
    ASSUME PathInv, NEW r \in Requests, ReadMap(r)
    PROVE  PathInv'
<1>1. /\ UNCHANGED <<redisVars, maps, path, tbl, ans, at>> /\ at[r] < 4 /\ TypeInv'
  BY ReadMapTypes DEF ReadMap, PathInv
<1>2. PICK ns : got' = got \/ got' = [got EXCEPT ![r] = got[r] \cup Content(at[r], ns)]
  BY DEF ReadMap
<1>3. ReadOwned(at[r], got[r] \cup Content(at[r], ns))
  <2>1. Entries(Content(1, ns), "port") /\ Entries(Content(2, ns), "queue")
    BY ContentOwned DEF PathInv, TypeInv
  <2>2. at[r] # 4 /\ ReadOwned(at[r], got[r])
    BY <1>1, Kept
  <2> QED BY <2>1, <2>2 DEF ReadOwned, Entries
<1>4. CASE got' = got
  BY <1>1, <1>4, Kept, BusyOwned
<1>5. CASE got' = [got EXCEPT ![r] = got[r] \cup Content(at[r], ns)]
  BY <1>1, <1>3, <1>5, Kept, BusyOwned
<1> QED BY <1>2, <1>4, <1>5

(***************************************************************************)
(* A read that fails keeps the invariant: nil has no entries.              *)
(***************************************************************************)
LEMMA FailsOwned ==
    ASSUME PathInv, NEW r \in Requests, Fails(r), pc[r] = "read",
           UNCHANGED <<redisVars, path, tbl, ans, at>>
    PROVE  PathInv'
<1>1. TypeInv' /\ maps' = Emptied(at[r]) /\ got' = [got EXCEPT ![r] = {}]
  BY FailsTypes DEF PathInv, Fails
<1>2. at[r] \in 1..4
  BY Kept DEF PathInv, TypeInv, GotOK
<1>3. maps \in MapsType
  BY Unmoved DEF PathInv
<1>4. MapOwned(Emptied(at[r]))
  <2>1. ASSUME NEW i \in 1..4 PROVE MapOwned(Emptied(i))
    <3>1. CASE i = 1
      BY <1>3, <3>1, Kept DEF Emptied, MapsType, MapOwned, Entries
    <3>2. CASE i = 2
      BY <1>3, <3>2, Kept DEF Emptied, MapsType, MapOwned, Entries
    <3>3. CASE i = 3
      BY <1>3, <3>3, Kept DEF Emptied, MapsType, MapOwned, Entries
    <3>4. CASE i = 4
      BY <1>3, <3>4, Kept DEF Emptied, MapsType, MapOwned, Entries
    <3> QED BY <3>1, <3>2, <3>3, <3>4
  <2> QED BY <1>2, <2>1
<1> QED BY <1>1, <1>4, Kept, BusyOwned

(***************************************************************************)
(* A namespace read by getPfcwdMap keeps the invariant: its OIDs are those *)
(* of the queue map, old or not.                                           *)
(***************************************************************************)
LEMMA ReadPfcOwned ==
    ASSUME PathInv, NEW r \in Requests, ReadPfc(r)
    PROVE  PathInv'
<1>1. /\ UNCHANGED <<redisVars, path, tbl, ans, at>> /\ pc[r] = "read" /\ at[r] = 4 /\ TypeInv'
  BY ReadPfcTypes DEF ReadPfc, PathInv
<1>2. CASE Fails(r)
  BY <1>1, <1>2, FailsOwned
<1>3. CASE maps' = maps /\ \E g : got' = [got EXCEPT ![r] = g] /\ g \subseteq maps.que
  <2>1. PICK g : got' = [got EXCEPT ![r] = g] /\ g \subseteq maps.que
    BY <1>3
  <2>2. ReadOwned(4, g)
    BY <2>1, Kept DEF MapOwned, ReadOwned, Entries
  <2> QED BY <1>1, <1>3, <2>1, <2>2, Kept, BusyOwned
<1> QED BY <1>2, <1>3, ReadPfcCases

(***************************************************************************)
(* The assignment of a name map keeps the invariant.                       *)
(***************************************************************************)
LEMMA AssignOwned ==
    ASSUME PathInv, NEW r \in Requests, Assign(r)
    PROVE  PathInv'
<1>1. /\ UNCHANGED <<redisVars, path, tbl, ans>> /\ maps' = Assigned(r) /\ TypeInv'
      /\ pc[r] \in {"assign", "assign2", "assign3"}
  BY AssignTypes DEF Assign, PathInv
<1>2. at[r] \in 1..4 /\ maps \in MapsType
  BY <1>1, Unmoved DEF PathInv, TypeInv, GotOK
<1>3. MapOwned(Assigned(r))
  <2>1. CASE at[r] = 1
    BY <1>2, <2>1, Kept DEF Assigned, MapsType, MapOwned, ReadOwned
  <2>2. CASE at[r] = 2
    BY <1>2, <2>2, Kept DEF Assigned, MapsType, MapOwned, ReadOwned
  <2>3. CASE at[r] = 3
    BY <1>1, <1>2, <2>3, Kept DEF Assigned, MapsType, MapOwned, ReadOwned
  <2>4. CASE at[r] = 4
    BY <1>2, <2>4, Kept DEF Assigned, MapsType, MapOwned, ReadOwned
  <2> QED BY <1>2, <2>1, <2>2, <2>3, <2>4
<1>4. CASE UNCHANGED <<at, got>>
  BY <1>1, <1>3, <1>4, Kept, BusyOwned
<1>5. CASE at' = [at EXCEPT ![r] = at[r] + 1] /\ got' = [got EXCEPT ![r] = {}]
  BY <1>1, <1>3, <1>5, Kept, BusyOwned
<1> QED BY <1>4, <1>5 DEF Assign

(***************************************************************************)
(* The arrival of a path keeps the invariant: it starts with neither table *)
(* paths nor an answer.                                                    *)
(***************************************************************************)
LEMMA RequestOwned ==
    ASSUME PathInv, NEW r \in Requests, NEW a \in Paths[r], Request(r, a)
    PROVE  PathInv'
<1>1. /\ UNCHANGED <<redisVars, maps, got>> /\ pc[r] \in {"idle", "done"} /\ TypeInv'
      /\ path' = [path EXCEPT ![r] = a] /\ at' = [at EXCEPT ![r] = 1]
      /\ tbl' = [tbl EXCEPT ![r] = {}] /\ ans' = [ans EXCEPT ![r] = {}]
  BY RequestTypes DEF Request, PathInv
<1>2. tbl'[r] = {} /\ ans'[r] = {} /\ at'[r] = 1
  BY <1>1 DEF PathInv, TypeInv, TypeOK, Functions0
<1>3. ASSUME NEW q \in Requests, q # r
      PROVE  tbl'[q] = tbl[q] /\ ans'[q] = ans[q] /\ path'[q] = path[q] /\ at'[q] = at[q]
  BY <1>1, <1>3 DEF PathInv, TypeInv, TypeOK, Functions0
<1>4. got[r] = {}
  BY <1>1 DEF PathInv, TypeInv, GotOK
<1>5. RedisOwned'
  BY <1>1, RedisKeeps DEF PathInv
<1>6. MapsOwned'
  BY <1>1, EntriesKeep DEF PathInv, MapsOwned
<1>7. GotOwned'
  <2>1. ASSUME NEW q \in Requests PROVE ReadOwned(at'[q], got'[q])
    BY <1>1, <1>2, <1>3, <1>4, Kept DEF ReadOwned, Entries
  <2> QED BY <1>1, <2>1, EntriesKeep DEF GotOwned, ReadOwned
<1>8. TablesOwned'
  BY <1>1, <1>2, <1>3, OwnedKeeps DEF PathInv, TablesOwned
<1>9. RightCounters'
  BY <1>2, <1>3 DEF PathInv, RightCounters
<1> QED BY <1>1, <1>5, <1>6, <1>7, <1>8, <1>9 DEF PathInv

(***************************************************************************)
(* A table path leads to counters of the port its label names; an answer   *)
(* shows them.                                                             *)
(***************************************************************************)
TableOwned(t, k) ==
    \/ t.label \in Oids \/ t.key = None
    \/ t.key \in Oids /\ OwnedBy(t.ns, t.key, Labelled(t.label), k)

RightAnswer(a, k) == a.label \in Oids \/ a.of = [port |-> Labelled(a.label), kind |-> k]

(***************************************************************************)
(* A step past the name maps keeps the invariant if the table paths and    *)
(* the answer of its request are right.                                    *)
(***************************************************************************)
LEMMA QuietOwned ==
    ASSUME PathInv, NEW r \in Requests,
           \/ Lookup(r) \/ RealLookup(r) \/ RealExists(r) \/ ReadData(r) \/ ReadNone(r)
           \/ Getter(r),
           \A t \in tbl'[r] : TableOwned(t, Kind(path[r])),
           \A a \in ans'[r] : RightAnswer(a, Kind(path[r]))
    PROVE  PathInv'
<1>1. /\ TypeInv' /\ UNCHANGED <<redisVars, maps, at, got, path>>
      /\ \A q \in Requests : q # r => tbl'[q] = tbl[q] /\ ans'[q] = ans[q]
  BY QuietServe DEF PathInv
<1>2. RedisOwned'
  BY <1>1, RedisKeeps DEF PathInv
<1>3. MapsOwned'
  BY <1>1, EntriesKeep DEF PathInv, MapsOwned
<1>4. GotOwned'
  BY <1>1, EntriesKeep DEF PathInv, GotOwned
<1>5. ASSUME NEW q \in Requests, NEW t \in tbl'[q] PROVE TableOwned(t, Kind(path[q]))
  BY <1>1 DEF PathInv, TablesOwned, TableOwned
<1>6. TablesOwned'
  BY <1>1, <1>5, OwnedKeeps DEF TablesOwned, TableOwned
<1>7. ASSUME NEW q \in Requests, NEW a \in ans'[q] PROVE RightAnswer(a, Kind(path[q]))
  BY <1>1 DEF PathInv, RightCounters, RightAnswer
<1>8. RightCounters'
  BY <1>1, <1>7 DEF RightCounters, RightAnswer
<1> QED BY <1>1, <1>2, <1>3, <1>4, <1>6, <1>8 DEF PathInv

(***************************************************************************)
(* A table path made of an entry of a name map leads to the port its label *)
(* names, whichever of the alias maps are filled.                          *)
(***************************************************************************)
LEMMA TablePathsOwned ==
    ASSUME Apart, NEW r, maps.a2n \subseteq Ports, NEW m \in SUBSET Pairs, NEW k, Entries(m, k),
           NEW fld, NEW t \in TablePaths(r, m, fld)
    PROVE  TableOwned(t, k)
<1>1. PICK e \in m : /\ All(r) \/ e[1] = PortOf(Key(r))
                     /\ t = TablePath(IF All(r) THEN Label(e[1]) ELSE Key(r), e[1], e[2], fld)
  BY DEF TablePaths
<1>2. e[1] \in Ports /\ e[2] \in Oids /\ OwnedBy(Home[e[1]], e[2], e[1], k)
  BY DEF Entries, Pairs
<1>3. t.ns = Home[e[1]] /\ t.key = e[2] /\ t.label = IF All(r) THEN Label(e[1]) ELSE Key(r)
  BY <1>1 DEF TablePath, Place
<1>4. Labelled(t.label) = e[1]
  <2>1. CASE All(r)
    BY <1>2, <1>3, <2>1, LabelledPort DEF Label
  <2>2. CASE ~All(r) /\ \E p \in maps.a2n : Alias[p] = Key(r)
    <3>1. PortOf(Key(r)) \in maps.a2n /\ Alias[PortOf(Key(r))] = Key(r)
      BY <2>2 DEF PortOf
    <3>2. e[1] = PortOf(Key(r)) /\ t.label = Key(r)
      BY <1>1, <1>3, <2>2
    <3> QED BY <3>1, <3>2, LabelledPort
  <2>3. CASE ~All(r) /\ ~\E p \in maps.a2n : Alias[p] = Key(r)
    <3>1. PortOf(Key(r)) = Key(r)
      BY <2>3 DEF PortOf
    <3>2. e[1] = Key(r) /\ t.label = Key(r)
      BY <1>1, <1>3, <2>3, <3>1
    <3> QED BY <1>2, <3>2, LabelledPort
  <2> QED BY <2>1, <2>2, <2>3
<1> QED BY <1>2, <1>3, <1>4 DEF TableOwned

(***************************************************************************)
(* The table paths that populateDbtablePath makes by a translator lead to  *)
(* counters of the right ports and kind.                                   *)
(***************************************************************************)
LEMMA LookupOwned ==
    ASSUME Apart, PathInv, NEW r \in Requests, Lookup(r)
    PROVE  PathInv'
<1> DEFINE f == Find(V2R, <<"COUNTERS_DB">> \o path[r].elems)
<1>1. (tbl' = tbl \/ tbl' = [tbl EXCEPT ![r] = LookupV2R(r, f).paths]) /\ ans' = ans
  BY DEF Lookup
<1>2. /\ f \in {"v2rEthPortStats", "v2rEthPortFieldStats"} => Kind(path[r]) = "port"
      /\ f \in {"v2rEthPortQueStats", "v2rEthPortPfcwdStats"} => Kind(path[r]) = "queue"
  BY KindOf DEF PathInv, TypeInv
<1> HIDE DEF f
<1>3. /\ maps.a2n \subseteq Ports /\ maps.port \in SUBSET Pairs
      /\ maps.que \in SUBSET Pairs /\ maps.pfc \in SUBSET Pairs
  BY DEF PathInv, TypeInv, TypeOK, Pairs
<1>4. ASSUME NEW t \in LookupV2R(r, f).paths PROVE TableOwned(t, Kind(path[r]))
  <2>1. CASE f = "v2rEthPortStats"
    <3>1. t \in TablePaths(r, maps.port, "none")
      BY <2>1 DEF LookupV2R, v2rEthPortStats
    <3> QED BY <1>2, <1>3, <2>1, <3>1, Kept, TablePathsOwned DEF MapOwned
  <2>2. CASE f = "v2rEthPortFieldStats"
    <3>1. t \in TablePaths(r, maps.port, IF All(r) THEN "each" ELSE "one")
      BY <2>2 DEF LookupV2R, v2rEthPortFieldStats
    <3> QED BY <1>2, <1>3, <2>2, <3>1, Kept, TablePathsOwned DEF MapOwned
  <2>3. CASE f = "v2rEthPortPfcwdStats"
    <3>1. t \in TablePaths(r, maps.pfc, "none")
      BY <2>3 DEF LookupV2R, v2rEthPortPfcwdStats
    <3> QED BY <1>2, <1>3, <2>3, <3>1, Kept, TablePathsOwned DEF MapOwned
  <2>4. CASE f = "v2rEthPortQueStats"
    <3>1. t \in TablePaths(r, maps.que, "none")
      BY <2>4 DEF LookupV2R, v2rEthPortQueStats
    <3> QED BY <1>2, <1>3, <2>4, <3>1, Kept, TablePathsOwned DEF MapOwned
  <2>5. CASE f \notin {"v2rEthPortStats", "v2rEthPortFieldStats", "v2rEthPortPfcwdStats",
                      "v2rEthPortQueStats"}
    <3>1. LookupV2R(r, f).paths = {}
      BY <2>5 DEF LookupV2R
    <3> QED BY <3>1
  <2> QED BY <2>1, <2>2, <2>3, <2>4, <2>5
<1>5. \A t \in tbl'[r] : TableOwned(t, Kind(path[r]))
  BY <1>1, <1>4 DEF PathInv, TypeInv, Functions0, TablesOwned, TableOwned
<1>6. \A a \in ans'[r] : RightAnswer(a, Kind(path[r]))
  BY <1>1 DEF PathInv, RightCounters, RightAnswer
<1> QED BY <1>5, <1>6, QuietOwned

(***************************************************************************)
(* A path that is not virtual is shown under its OID, or under no OID.     *)
(***************************************************************************)
LEMMA RealOwned ==
    ASSUME PathInv, NEW r \in Requests, RealLookup(r) \/ RealExists(r) \/ ReadNone(r) \/ Getter(r)
    PROVE  PathInv'
<1>1. ans' = ans
  BY DEF RealLookup, RealExists, ReadNone, Getter
<1>2. \/ tbl' = tbl
      \/ \E t : tbl' = [tbl EXCEPT ![r] = {t}] /\ (t.key = None \/ t.label \in Oids)
  <2>1. CASE RealLookup(r)
    <3>1. ASSUME NEW t, t = [RealPath(r) EXCEPT !.key = None, !.field = "one"]
          PROVE  t.key = None
      BY <3>1 DEF RealPath
    <3> QED BY <2>1, <3>1 DEF RealLookup
  <2>2. CASE RealExists(r)
    <3>1. IsRow(r) => RealPath(r).label \in Oids
      BY DEF IsRow, RealPath
    <3> QED BY <2>2, <3>1 DEF RealExists
  <2>3. CASE ReadNone(r) \/ Getter(r)
    BY <2>3 DEF ReadNone, Getter
  <2> QED BY <2>1, <2>2, <2>3
<1>3. \A t \in tbl'[r] : TableOwned(t, Kind(path[r]))
  BY <1>2 DEF PathInv, TypeInv, Functions0, TablesOwned, TableOwned
<1>4. \A a \in ans'[r] : RightAnswer(a, Kind(path[r]))
  BY <1>1 DEF PathInv, RightCounters, RightAnswer
<1> QED BY <1>3, <1>4, QuietOwned

(***************************************************************************)
(* What tableData2TypedValue reads of a table path belongs to the port the *)
(* label names, if the row is there.                                       *)
(***************************************************************************)
LEMMA ReadDataOwned ==
    ASSUME PathInv, NEW r \in Requests, ReadData(r)
    PROVE  PathInv'
<1>1. PICK t \in tbl[r] :
        \/ UNCHANGED <<tbl, ans>>
        \/ /\ ans' = [ans EXCEPT ![r] = ans[r] \cup Value(t)]
           /\ tbl' = [tbl EXCEPT ![r] = tbl[r] \ {t}]
  BY DEF ReadData
<1>2. TableOwned(t, Kind(path[r]))
  BY DEF PathInv, TablesOwned, TableOwned
<1>3. ASSUME NEW a \in Value(t) PROVE RightAnswer(a, Kind(path[r]))
  <2>1. a.label = t.label /\ a.of \in Owner(t.ns, t.key)
    BY DEF Value
  <2> QED BY <1>2, <2>1, OwnerIs, NoOwner DEF TableOwned, RightAnswer
<1>4. \A a \in ans[r] : RightAnswer(a, Kind(path[r]))
  BY DEF PathInv, RightCounters, RightAnswer
<1>5. \A a \in ans'[r] : RightAnswer(a, Kind(path[r]))
  BY <1>1, <1>3, <1>4 DEF PathInv, TypeInv, Functions0
<1>6. \A u \in tbl'[r] : TableOwned(u, Kind(path[r]))
  BY <1>1 DEF PathInv, TypeInv, Functions0, TablesOwned, TableOwned
<1> QED BY <1>5, <1>6, QuietOwned

(***************************************************************************)
(* Every step keeps the invariant.                                         *)
(***************************************************************************)
LEMMA NextOwned == ASSUME ~Reuse, Apart PROVE PathInv /\ [Next]_vars => PathInv'
<1> SUFFICES ASSUME PathInv, [Next]_vars PROVE PathInv'
  OBVIOUS
<1>1. ASSUME NEW r \in Requests, Serve(r) PROVE PathInv'
  <2>1. CASE \E a \in Paths[r] : Request(r, a)
    BY <2>1, RequestOwned
  <2>2. CASE InitMap(r)
    BY <2>2, InitMapOwned
  <2>3. CASE ReadMap(r)
    BY <2>3, ReadMapOwned
  <2>4. CASE ReadPfc(r)
    BY <2>4, ReadPfcOwned
  <2>5. CASE ReadFails(r)
    BY <2>5, FailsOwned DEF ReadFails
  <2>6. CASE Assign(r)
    BY <2>6, AssignOwned
  <2>7. CASE Lookup(r)
    BY <2>7, LookupOwned
  <2>8. CASE RealLookup(r) \/ RealExists(r) \/ ReadNone(r) \/ Getter(r)
    BY <2>8, RealOwned
  <2>9. CASE ReadData(r)
    BY <2>9, ReadDataOwned
  <2> QED BY <1>1, <2>1, <2>2, <2>3, <2>4, <2>5, <2>6, <2>7, <2>8, <2>9 DEF Serve
<1>2. CASE \E p \in Ports : PortUp(p) \/ PortDown(p) \/ PfcUp(p) \/ QosChange(Home[p])
  BY <1>2, RedisOwnedStep
<1>3. CASE UNCHANGED vars
  <2>1. TypeInv'
    BY NextTypes DEF PathInv
  <2>2. /\ UNCHANGED <<redisVars, path, tbl, ans>> /\ maps' = maps /\ at' = at /\ got' = got
    BY <1>3 DEF vars, redisVars
  <2>3. RedisOwned' /\ MapsOwned'
    BY <2>2, RedisKeeps, EntriesKeep DEF PathInv, MapsOwned
  <2>4. GotOwned'
    BY <2>2, EntriesKeep DEF PathInv, GotOwned
  <2>5. TablesOwned'
    BY <2>2, OwnedKeeps DEF PathInv, TablesOwned
  <2>6. RightCounters'
    BY <2>2 DEF PathInv, RightCounters
  <2> QED BY <2>1, <2>3, <2>4, <2>5, <2>6 DEF PathInv
<1> QED BY <1>1, <1>2, <1>3 DEF Next

(***************************************************************************)
(* The counters a client is shown under a port's name or alias are that    *)
(* port's, and of the kind it asked for - for every set of ports,          *)
(* namespaces and OIDs, any number of concurrent requests that fill and    *)
(* overwrite the name maps, and any ports that come and go meanwhile.      *)
(* Assumes that no OID is used again and that no port has another one's    *)
(* name as its alias.                                                      *)
(***************************************************************************)
THEOREM CountersAreThePorts ==
    ASSUME ~Reuse, Apart
    PROVE  Spec => []RightCounters
<1>1. Init => PathInv
  BY InitOwned
<1>2. PathInv /\ [Next]_vars => PathInv'
  BY NextOwned
<1>3. PathInv => RightCounters
  BY DEF PathInv
<1> QED BY <1>1, <1>2, <1>3, PTL DEF Spec

-----------------------------------------------------------------------------
(* Requests resolve *)

(***************************************************************************)
(* The default namespace has a configuration, and every port is in a       *)
(* namespace that the name maps are filled from.                           *)
(***************************************************************************)
Homed == Default \in Namespaces /\ \A p \in Ports : Home[p] \in RedisClients

(***************************************************************************)
(* A port has an OID if its queue has one.                                 *)
(***************************************************************************)
Paired == \A p \in Ports : port[p] = None <=> que[p] = None

(***************************************************************************)
(* A request has neither table paths nor an answer before it reads data,   *)
(* looks up only after the four maps, and goes to a getter with OTHERS.    *)
(***************************************************************************)
Blank ==
    \A r \in Requests : /\ pc[r] \notin {"data", "done"} => ans[r] = {}
                        /\ pc[r] \notin {"data", "done"} => tbl[r] = {}
                        /\ pc[r] = "getter" => path[r].elems[1] = "OTHERS"
                        /\ pc[r] = "lookup" => at[r] = 5

(***************************************************************************)
(* The namespaces left to read, and the history variables, are of their    *)
(* types.                                                                  *)
(***************************************************************************)
History == /\ left \in [Requests -> SUBSET RedisClients]
           /\ DOMAIN fit = Requests /\ DOMAIN calm = Requests

(***************************************************************************)
(* The watchdog map that getPfcwdMap makes of a complete queue map: empty  *)
(* if a namespace has no row.                                              *)
(***************************************************************************)
Pfcs == IF PfcEverywhere THEN {<<p, que[p]>> : p \in pfc} ELSE {}

(***************************************************************************)
(* What the i-th map has of the namespaces in N, and the whole of it.      *)
(***************************************************************************)
Part(i, N) ==
    CASE i = 1 -> {e \in Named(port) : Home[e[1]] \in N}
      [] i = 2 -> {e \in Named(que) : Home[e[1]] \in N}
      [] i = 3 -> {p \in cfg : Home[p] \in N}
      [] i = 4 -> {<<p, que[p]>> : p \in {x \in pfc : Home[x] \in N}}

Whole(i) ==
    CASE i = 1 -> Named(port) [] i = 2 -> Named(que) [] i = 3 -> cfg [] i = 4 -> Pfcs

(***************************************************************************)
(* A request at map i has complete OID maps behind it, the queues' once    *)
(* the ports' are, and has read all of the namespaces it has passed.       *)
(***************************************************************************)
Accurate(i, c, L, g) ==
    /\ i > 1 => maps.port = Named(port)
    /\ i > 2 => maps.que = Named(que)
    /\ i > 4 => maps.pfc = Pfcs
    /\ c = "read" => /\ L \subseteq RedisClients /\ g = Part(i, RedisClients \ L)
                     /\ i = 4 => \A ns \in RedisClients \ L :
                                    Content(4, ns) # {} /\ qos[ns] = "on"
    /\ c \in {"assign", "assign2", "assign3"} => g = Whole(i)

AccurateFor(q) == Accurate(at[q], pc[q], left[q], got[q])

(***************************************************************************)
(* The OID maps are empty or complete.                                     *)
(***************************************************************************)
MapsFine == /\ maps.port \in {{}, Named(port)} /\ maps.que \in {{}, Named(que)}
            /\ maps.pfc \in {{}, Pfcs}

(***************************************************************************)
(* The alias maps are complete.                                            *)
(***************************************************************************)
Aliased == maps.a2n = cfg /\ maps.n2a = cfg /\ maps.p2n = cfg

(***************************************************************************)
(* The alias maps as a request finds them: before it assigns them they are *)
(* complete, or empty with nobody else there to fill them; then it         *)
(* completes one after the other.                                          *)
(***************************************************************************)
AliasAt(r, i, c) ==
    /\ i < 4 /\ c \in {"init", "read", "assign"} =>
         \/ cfg # {} /\ Aliased
         \/ maps.a2n = {} /\ \A q \in Requests \ {r} : ~Filling(q)
    /\ c \in {"assign2", "assign3"} => maps.a2n = cfg
    /\ c = "assign3" => maps.n2a = cfg
    /\ i > 3 => Aliased

AliasesFill(r) == AliasAt(r, at[r], pc[r])

(***************************************************************************)
(* Every request that fills maps began while redis was as it is, and has   *)
(* read what is there.                                                     *)
(***************************************************************************)
FillersFine == \A q \in Requests : Filling(q) => calm[q] /\ AccurateFor(q)

(***************************************************************************)
(* A request relies on the maps: it is fit, redis has not changed, and     *)
(* getPfcwdMap finds what it looks for.                                    *)
(***************************************************************************)
Live(r) == fit[r] /\ calm[r] /\ PfcReadable

(***************************************************************************)
(* A request that has not yet done with the maps.                          *)
(***************************************************************************)
Shares(r) == Filling(r) \/ pc[r] = "lookup"

WorldOf(r) == FillersFine /\ AccurateFor(r) /\ MapsFine /\ AliasesFill(r)

(***************************************************************************)
(* While a request relies on the maps, they are right and so is what the   *)
(* others, which may assign theirs at any time, have read.                 *)
(***************************************************************************)
World == \A r \in Requests : Live(r) /\ Shares(r) => WorldOf(r)

(***************************************************************************)
(* A path that Resolves speaks of, and whether its port is not there.      *)
(***************************************************************************)
VirtualPath(a) ==
    /\ a.elems[1] = "COUNTERS" /\ a.ns = Default /\ IsPrefixed(a.elems[2])
    /\ Len(a.elems) < 4
    /\ a.elems[Len(a.elems)] = "Pfcwd" => pfc = {} \/ PfcEverywhere

IsDown(a) == Labelled(a.elems[2]) \in Ports \ cfg

(***************************************************************************)
(* How far an answer is: a port that is not there leads to a key without a *)
(* row; otherwise the labels shown and those of the table paths left make  *)
(* up what is expected.                                                    *)
(***************************************************************************)
ProgressOf(a, c, T, A) ==
    /\ c \in {"real", "exists"} => IsDown(a)
    /\ c = "data" /\ IsDown(a) =>
         T # {} /\ A = {} /\ \A t \in T : t.key = None /\ t.field = "one"
    /\ c = "data" /\ ~IsDown(a) =>
         /\ {x.label : x \in A} \cup {t.label : t \in T} = Expected(a)
         /\ \A t \in T : Owner(t.ns, t.key) # {}

(***************************************************************************)
(* The answer at the end.                                                  *)
(***************************************************************************)
DoneOf(a, c, s, A) ==
    c = "done" => IF IsDown(a) THEN s # "OK" \/ A = {}
                  ELSE s = "OK" /\ {x.label : x \in A} = Expected(a)

Answers(r) == /\ ProgressOf(path[r], pc[r], tbl[r], ans[r])
              /\ DoneOf(path[r], pc[r], res[r], ans[r])

Progress == \A r \in Requests : Live(r) /\ VirtualPath(path[r]) => Answers(r)

(***************************************************************************)
(* The inductive invariant for Resolves.                                   *)
(***************************************************************************)
FullInv == TypeInv /\ Paired /\ Blank /\ History /\ World /\ Progress

(***************************************************************************)
(* The invariant implies Resolves.                                         *)
(***************************************************************************)
LEMMA FullImplies == ASSUME FullInv PROVE Resolves
BY DEF FullInv, Progress, Answers, DoneOf, Resolves, Answered, VirtualPath, Live, IsDown

(***************************************************************************)
(* The first states satisfy the invariant: no request has arrived.         *)
(***************************************************************************)
LEMMA InitFull == Init => FullInv
<1> SUFFICES ASSUME Init PROVE FullInv
  OBVIOUS
<1>1. PICK b \in Boot :
        /\ port = [p \in Ports |-> IF p \in b.up THEN PortOid[p] ELSE None]
        /\ que = [p \in Ports |-> IF p \in b.up THEN QueOid[p] ELSE None]
  BY DEF Init
<1>2. Paired
  BY <1>1, PathAssumption DEF Paired
<1>3. Blank /\ History
  BY DEF Init, Blank, History
<1>4. \A r \in Requests : ~Live(r)
  BY DEF Init, Live
<1> QED BY <1>2, <1>3, <1>4, InitTypes DEF FullInv, World, Progress

(***************************************************************************)
(* After a change or a failure of redis no request is calm, and the        *)
(* invariant asks nothing of the maps.                                     *)
(***************************************************************************)
LEMMA ChangeFull ==
    ASSUME FullInv, TypeInv', Paired', Blank', calm' = [r \in Requests |-> FALSE],
           left' \in [Requests -> SUBSET RedisClients], fit' = fit
    PROVE  FullInv'
<1>1. \A r \in Requests : ~Live(r)'
  BY DEF Live
<1>2. History'
  BY DEF FullInv, History
<1> QED BY <1>1, <1>2 DEF FullInv, World, Progress

(***************************************************************************)
(* A change of redis keeps the invariant.                                  *)
(***************************************************************************)
LEMMA RedisFull ==
    ASSUME FullInv, NEW p \in Ports, PortUp(p) \/ PortDown(p) \/ PfcUp(p) \/ QosChange(Home[p])
    PROVE  FullInv'
<1>1. /\ UNCHANGED <<pc, at, path, tbl, ans, left, fit>> /\ calm' = [r \in Requests |-> FALSE]
  BY DEF PortUp, PortDown, PfcUp, QosChange, Changed
<1>2. Paired'
  <2>1. CASE PortUp(p)
    <3>1. PICK o, q \in Oids : port' = [port EXCEPT ![p] = o] /\ que' = [que EXCEPT ![p] = q]
      BY <2>1 DEF PortUp, Fresh
    <3> QED BY <3>1, PathAssumption DEF FullInv, TypeInv, TypeOK, Paired
  <2>2. CASE PortDown(p)
    BY <2>2 DEF PortDown, FullInv, TypeInv, TypeOK, Paired
  <2>3. CASE PfcUp(p) \/ QosChange(Home[p])
    BY <2>3 DEF PfcUp, QosChange, FullInv, Paired
  <2> QED BY <2>1, <2>2, <2>3
<1>3. Blank'
  BY <1>1 DEF FullInv, Blank
<1>4. TypeInv' /\ left' \in [Requests -> SUBSET RedisClients]
  BY <1>1, RedisTypes DEF FullInv, History
<1> QED BY <1>1, <1>2, <1>3, <1>4, ChangeFull

(***************************************************************************)
(* A failure of redis keeps the invariant.                                 *)
(***************************************************************************)
LEMMA ReadFailsFull ==
    ASSUME FullInv, NEW r \in Requests, ReadFails(r)
    PROVE  FullInv'
<1>1. /\ UNCHANGED <<redisVars, at, path, tbl, ans, fit>>
      /\ calm' = [q \in Requests |-> FALSE] /\ Fails(r) /\ pc[r] = "read"
  BY DEF ReadFails
<1>2. TypeInv'
  BY <1>1, FailsTypes DEF FullInv
<1>3. pc' = [pc EXCEPT ![r] = "done"] /\ left' = [left EXCEPT ![r] = {}]
  BY <1>1 DEF Fails, Finish, Goto
<1>4. Paired'
  BY <1>1 DEF FullInv, Paired, redisVars
<1>5. Blank'
  BY <1>1, <1>3 DEF FullInv, Blank, TypeInv, TypeOK
<1>6. left' \in [Requests -> SUBSET RedisClients]
  BY <1>3 DEF FullInv, History
<1> QED BY <1>1, <1>2, <1>4, <1>5, <1>6, ChangeFull

(***************************************************************************)
(* What depends on redis alone stays while redis does.                     *)
(***************************************************************************)
LEMMA RedisFrame ==
    ASSUME UNCHANGED redisVars
    PROVE  /\ Named(port)' = Named(port) /\ Named(que)' = Named(que) /\ cfg' = cfg
           /\ PfcEverywhere' = PfcEverywhere /\ Pfcs' = Pfcs
           /\ \A i \in 1..4 : Whole(i)' = Whole(i) /\ \A N : Part(i, N)' = Part(i, N)
           /\ \A ns : Content(4, ns)' = Content(4, ns) /\ qos'[ns] = qos[ns]
           /\ \A ns, o : Owner(ns, o)' = Owner(ns, o)
<1>1. UNCHANGED <<port, que, cfg, pfc, qos>>
  BY DEF redisVars
<1>2. Named(port)' = Named(port) /\ Named(que)' = Named(que)
  BY <1>1 DEF Named
<1>3. \A ns : Content(4, ns)' = Content(4, ns)
  BY <1>1 DEF Content
<1>4. PfcEverywhere' = PfcEverywhere
  BY <1>1, <1>3 DEF PfcEverywhere
<1>5. Pfcs' = Pfcs
  BY <1>1, <1>4 DEF Pfcs
<1>6. ASSUME NEW i \in 1..4, NEW N PROVE Part(i, N)' = Part(i, N)
  BY <1>1, <1>2 DEF Part
<1>7. ASSUME NEW i \in 1..4 PROVE Whole(i)' = Whole(i)
  BY <1>1, <1>2, <1>5 DEF Whole
<1>8. ASSUME NEW ns, NEW o PROVE Owner(ns, o)' = Owner(ns, o)
  BY <1>1 DEF Owner
<1> QED BY <1>1, <1>2, <1>3, <1>4, <1>5, <1>6, <1>7, <1>8

(***************************************************************************)
(* getPfcwdMap finds what it looks for as long as redis stays as it is.    *)
(***************************************************************************)
LEMMA ReadableKeeps == ASSUME UNCHANGED redisVars PROVE PfcReadable' <=> PfcReadable
<1>1. UNCHANGED <<port, que, cfg, pfc, qos>>
  BY DEF redisVars
<1> QED BY <1>1 DEF PfcReadable, Content

(***************************************************************************)
(* What an answer should be stays while redis does.                        *)
(***************************************************************************)
LEMMA AnswerFrame ==
    ASSUME UNCHANGED redisVars, NEW a
    PROVE  /\ VirtualPath(a)' => VirtualPath(a)
           /\ \A c, T, A : ProgressOf(a, c, T, A) => ProgressOf(a, c, T, A)'
           /\ \A c, s, A : DoneOf(a, c, s, A) => DoneOf(a, c, s, A)'
<1>1. UNCHANGED <<port, que, cfg, pfc, qos>>
  BY DEF redisVars
<1>2. PfcEverywhere' = PfcEverywhere /\ \A ns, o : Owner(ns, o)' = Owner(ns, o)
  BY RedisFrame
<1>3. Expected(a)' = Expected(a) /\ IsDown(a)' = IsDown(a)
  BY <1>1 DEF Expected, IsDown
<1>4. VirtualPath(a)' => VirtualPath(a)
  BY <1>1, <1>2 DEF VirtualPath
<1>5. ASSUME NEW c, NEW T, NEW A, ProgressOf(a, c, T, A) PROVE ProgressOf(a, c, T, A)'
  BY <1>2, <1>3, <1>5 DEF ProgressOf
<1>6. ASSUME NEW c, NEW s, NEW A, DoneOf(a, c, s, A) PROVE DoneOf(a, c, s, A)'
  BY <1>3, <1>6 DEF DoneOf
<1> QED BY <1>4, <1>5, <1>6

(***************************************************************************)
(* What a request has read stays right while redis and the maps do.        *)
(***************************************************************************)
LEMMA AccurateKeeps ==
    ASSUME UNCHANGED <<redisVars, maps>>, NEW i \in 1..5, NEW c, NEW L, NEW g,
           c \in Busy => i < 5, Accurate(i, c, L, g)
    PROVE  Accurate(i, c, L, g)'
<1>1. c \in {"read", "assign", "assign2", "assign3"} => i \in 1..4
  BY DEF Busy
<1> QED BY <1>1, RedisFrame DEF Accurate

(***************************************************************************)
(* A request that reads or assigns is at one of the four maps.             *)
(***************************************************************************)
LEMMA BusyBelow ==
    ASSUME TypeInv, NEW q \in Requests
    PROVE  at[q] \in 1..5 /\ (pc[q] \in Busy => at[q] < 5)
BY DEF TypeInv, TypeOK, GotOK, Busy

(***************************************************************************)
(* The answer of a request that does not move stays right.                 *)
(***************************************************************************)
LEMMA OthersAnswer ==
    ASSUME FullInv, UNCHANGED redisVars, NEW x \in Requests, Live(x),
           path'[x] = path[x], VirtualPath(path[x])', pc'[x] = pc[x], tbl'[x] = tbl[x],
           ans'[x] = ans[x], res'[x] = res[x]
    PROVE  Answers(x)'
<1>1. \A a : VirtualPath(a)' => VirtualPath(a)
  BY AnswerFrame
<1>2. VirtualPath(path[x])
  BY <1>1
<1>3. Answers(x)
  BY <1>2 DEF FullInv, Progress
<1>4. ProgressOf(path[x], pc[x], tbl[x], ans[x])' /\ DoneOf(path[x], pc[x], res[x], ans[x])'
  BY <1>3, AnswerFrame DEF Answers
<1> QED BY <1>4 DEF Answers

(***************************************************************************)
(* The control points of Filling.                                          *)
(***************************************************************************)
Fills == {"init", "read", "assign", "assign2", "assign3"}

(***************************************************************************)
(* A step in one of the four init functions keeps the invariant if, for    *)
(* every request that relies on the maps, what it leaves is right and      *)
(* spoils nothing that was.                                                *)
(***************************************************************************)
LEMMA FillFull ==
    ASSUME FullInv, TypeInv', NEW r \in Requests, Filling(r),
           UNCHANGED <<redisVars, path, tbl, ans, res, fit, calm>>,
           NEW c \in Fills \cup {"lookup"}, pc' = [pc EXCEPT ![r] = c],
           NEW i, at' = [at EXCEPT ![r] = i], c = "lookup" => i = 5,
           NEW L \in SUBSET RedisClients, left' = [left EXCEPT ![r] = L],
           NEW g, got' = [got EXCEPT ![r] = g],
           \A x \in Requests : Live(x) /\ Shares(x) =>
               /\ Accurate(i, c, L, g)' /\ MapsFine' /\ (Shares(x)' => AliasesFill(x)')
               /\ \A j \in 1..5 : \A d, M, h :
                    (d \in Busy => j < 5) /\ Accurate(j, d, M, h) => Accurate(j, d, M, h)'
    PROVE  FullInv'
<1>1. /\ pc'[r] = c /\ at'[r] = i /\ left'[r] = L /\ got'[r] = g
      /\ \A q \in Requests : q # r => /\ pc'[q] = pc[q] /\ at'[q] = at[q]
                                      /\ left'[q] = left[q] /\ got'[q] = got[q]
  BY DEF FullInv, TypeInv, TypeOK, Functions0, History
<1>2. pc[r] \in Fills
  BY DEF Filling, Fills
<1>3. Paired' /\ History'
  BY DEF FullInv, Paired, History, redisVars
<1>4. Blank'
  <2>1. ans[r] = {} /\ tbl[r] = {}
    BY <1>2 DEF FullInv, Blank, Fills
  <2>2. c \notin {"data", "done", "getter"}
    BY DEF Fills
  <2> QED BY <1>1, <2>1, <2>2 DEF FullInv, Blank
<1>5. World'
  <2> SUFFICES ASSUME NEW x \in Requests, Live(x)', Shares(x)' PROVE WorldOf(x)'
    BY DEF World
  <2>1. Live(x)
    BY ReadableKeeps DEF Live
  <2>2. Shares(x)
    BY <1>1, <1>2 DEF Shares, Filling, Fills
  <2>3. WorldOf(x)
    BY <2>1, <2>2 DEF FullInv, World
  <2>4. Accurate(i, c, L, g)' /\ MapsFine' /\ AliasesFill(x)'
    BY <2>1, <2>2
  <2>5. AccurateFor(r)'
    BY <1>1, <2>4 DEF AccurateFor
  <2>6. ASSUME NEW q \in Requests, q # r, AccurateFor(q) PROVE AccurateFor(q)'
    <3>1. Accurate(at[q], pc[q], left[q], got[q]) /\ at[q] \in 1..5 /\ (pc[q] \in Busy => at[q] < 5)
      BY <2>6, BusyBelow DEF AccurateFor, FullInv
    <3>2. \A j \in 1..5 : \A d, M, h :
            (d \in Busy => j < 5) /\ Accurate(j, d, M, h) => Accurate(j, d, M, h)'
      BY <2>1, <2>2
    <3>3. ASSUME NEW j \in 1..5, NEW d, NEW M, NEW h, at'[q] = j, pc'[q] = d, left'[q] = M,
                 got'[q] = h, Accurate(j, d, M, h)'
          PROVE  AccurateFor(q)'
      BY <3>3 DEF AccurateFor
    <3> QED BY <1>1, <2>6, <3>1, <3>2, <3>3
  <2>7. ASSUME NEW q \in Requests, Filling(q)' PROVE calm'[q] /\ AccurateFor(q)'
    <3>1. Filling(q)
      BY <1>1, <1>2, <2>7 DEF Filling, Fills
    <3>2. calm[q] /\ AccurateFor(q)
      BY <2>3, <3>1 DEF WorldOf, FillersFine
    <3>3. calm'[q]
      BY <3>2
    <3>4. AccurateFor(q)'
      BY <2>5, <2>6, <3>2
    <3> QED BY <3>3, <3>4
  <2>8. AccurateFor(x)'
    BY <2>3, <2>5, <2>6 DEF WorldOf
  <2>9. FillersFine'
    BY <2>7 DEF FillersFine
  <2> QED BY <2>4, <2>8, <2>9 DEF WorldOf
<1>6. Progress'
  <2> SUFFICES ASSUME NEW x \in Requests, Live(x)', VirtualPath(path[x])' PROVE Answers(x)'
    BY DEF Progress
  <2>1. CASE x = r
    <3>1. c \notin {"real", "exists", "data", "done"}
      BY DEF Fills
    <3> QED BY <1>1, <2>1, <3>1 DEF Answers, ProgressOf, DoneOf
  <2>2. CASE x # r
    <3>1. Live(x)
      BY ReadableKeeps DEF Live
    <3> QED BY <1>1, <2>2, <3>1, OthersAnswer
  <2> QED BY <2>1, <2>2
<1> QED BY <1>3, <1>4, <1>5, <1>6 DEF FullInv

(***************************************************************************)
(* The maps stay right while they and redis stay as they are.              *)
(***************************************************************************)
LEMMA StillFine ==
    ASSUME UNCHANGED <<redisVars, maps>>
    PROVE  /\ MapsFine => MapsFine'
           /\ Aliased' = Aliased /\ cfg' = cfg
           /\ \A j \in 1..5 : \A d, M, h :
                (d \in Busy => j < 5) /\ Accurate(j, d, M, h) => Accurate(j, d, M, h)'
<1>1. MapsFine => MapsFine'
  BY RedisFrame DEF MapsFine
<1>2. Aliased' = Aliased /\ cfg' = cfg
  BY RedisFrame DEF Aliased
<1> QED BY <1>1, <1>2, AccurateKeeps

(***************************************************************************)
(* A request that fills maps beside another one relies on complete alias   *)
(* maps, not on being alone.                                               *)
(***************************************************************************)
LEMMA OtherAliases ==
    ASSUME UNCHANGED <<redisVars, maps>>, NEW r \in Requests, Filling(r),
           NEW x \in Requests, x # r, NEW i, NEW c, AliasAt(x, i, c)
    PROVE  AliasAt(x, i, c)'
<1>1. cfg' = cfg /\ maps' = maps /\ Aliased' = Aliased
  BY StillFine
<1>2. i < 4 /\ c \in {"init", "read", "assign"} => cfg # {} /\ Aliased
  BY DEF AliasAt
<1> QED BY <1>1, <1>2 DEF AliasAt

(***************************************************************************)
(* The alias maps stay right for the request that moves.                   *)
(***************************************************************************)
LEMMA OwnAliases ==
    ASSUME UNCHANGED <<redisVars, maps>>, NEW r \in Requests, NEW i, NEW c, AliasAt(r, i, c),
           \A q \in Requests : q # r => pc'[q] = pc[q]
    PROVE  AliasAt(r, i, c)'
<1>1. cfg' = cfg /\ maps' = maps /\ Aliased' = Aliased
  BY StillFine
<1>2. \A q \in Requests \ {r} : Filling(q)' <=> Filling(q)
  BY DEF Filling
<1> QED BY <1>1, <1>2 DEF AliasAt

(***************************************************************************)
(* FillFull for a step that leaves the maps as they are.                   *)
(***************************************************************************)
LEMMA FillKeepsMaps ==
    ASSUME FullInv, TypeInv', NEW r \in Requests, Filling(r),
           UNCHANGED <<redisVars, maps, path, tbl, ans, res, fit, calm>>,
           NEW c \in Fills \cup {"lookup"}, pc' = [pc EXCEPT ![r] = c],
           NEW i, at' = [at EXCEPT ![r] = i], c = "lookup" => i = 5,
           NEW L \in SUBSET RedisClients, left' = [left EXCEPT ![r] = L],
           NEW g, got' = [got EXCEPT ![r] = g],
           \A x \in Requests : Live(x) /\ Shares(x) => Accurate(i, c, L, g),
           Live(r) => AliasAt(r, i, c)
    PROVE  FullInv'
<1>1. /\ pc'[r] = c /\ at'[r] = i
      /\ \A q \in Requests : q # r => pc'[q] = pc[q] /\ at'[q] = at[q]
  BY DEF FullInv, TypeInv, TypeOK
<1>2. i \in 1..5 /\ (c \in Busy => i < 5)
  <2>1. at'[r] \in 1..5 /\ (pc'[r] \in Busy => at'[r] < 5)
    BY DEF TypeInv, TypeOK, GotOK, Busy
  <2> QED BY <1>1, <2>1
<1>3. ASSUME NEW x \in Requests, Live(x), Shares(x)
      PROVE  /\ Accurate(i, c, L, g)' /\ MapsFine' /\ AliasesFill(x)'
             /\ \A j \in 1..5 : \A d, M, h :
                  (d \in Busy => j < 5) /\ Accurate(j, d, M, h) => Accurate(j, d, M, h)'
  <2>1. MapsFine /\ AliasesFill(x)
    BY <1>3 DEF FullInv, World, WorldOf
  <2>2. Accurate(i, c, L, g)
    BY <1>3
  <2>3. /\ Accurate(i, c, L, g)' /\ MapsFine'
        /\ \A j \in 1..5 : \A d, M, h :
             (d \in Busy => j < 5) /\ Accurate(j, d, M, h) => Accurate(j, d, M, h)'
    BY <1>2, <2>1, <2>2, StillFine
  <2>4. ASSUME NEW j, NEW d, at'[x] = j, pc'[x] = d, AliasAt(x, j, d)'
        PROVE  AliasesFill(x)'
    BY <2>4 DEF AliasesFill
  <2>5. CASE x = r
    <3>1. AliasAt(r, i, c)'
      BY <1>1, <1>3, <2>5, OwnAliases
    <3> QED BY <1>1, <2>3, <2>4, <2>5, <3>1
  <2>6. CASE x # r
    <3>1. ASSUME NEW j, NEW d, at[x] = j, pc[x] = d PROVE AliasAt(x, j, d)'
      <4>1. AliasAt(x, j, d)
        BY <2>1, <3>1 DEF AliasesFill
      <4> QED BY <2>6, <4>1, OtherAliases
    <3> QED BY <1>1, <2>3, <2>4, <2>6, <3>1
  <2> QED BY <2>5, <2>6
<1> QED BY <1>3, FillFull

(***************************************************************************)
(* A request that does not move stays as it is.                            *)
(***************************************************************************)
LEMMA Standing ==
    ASSUME FullInv, NEW r \in Requests
    PROVE  /\ at = [at EXCEPT ![r] = at[r]] /\ got = [got EXCEPT ![r] = got[r]]
           /\ pc = [pc EXCEPT ![r] = pc[r]] /\ left = [left EXCEPT ![r] = left[r]]
           /\ at[r] \in 1..5 /\ left[r] \in SUBSET RedisClients
BY DEF FullInv, TypeInv, TypeOK, Functions0, History

(***************************************************************************)
(* If one request relies on the maps, every request that fills them has    *)
(* read what is in redis.                                                  *)
(***************************************************************************)
LEMMA FillerFine ==
    ASSUME FullInv, NEW r \in Requests, Filling(r), NEW x \in Requests, Live(x), Shares(x)
    PROVE  AccurateFor(r) /\ MapsFine /\ (x = r => AliasesFill(r))
<1>1. WorldOf(x)
  BY DEF FullInv, World
<1> QED BY <1>1 DEF WorldOf, FillersFine

(***************************************************************************)
(* The tests for an empty map keep the invariant: a map that is not empty  *)
(* is complete.                                                            *)
(***************************************************************************)
LEMMA InitMapFull ==
    ASSUME FullInv, NEW r \in Requests, InitMap(r)
    PROVE  FullInv'
<1>1. /\ UNCHANGED <<redisVars, maps, path, tbl, ans, res, fit, calm>> /\ pc[r] = "init"
      /\ TypeInv' /\ Filling(r)
  BY InitMapTypes DEF InitMap, FullInv, Filling
<1>2. ASSUME NEW x \in Requests, Live(x), Shares(x)
      PROVE  Accurate(at[r], "init", left[r], got[r]) /\ MapsFine
  BY <1>1, <1>2, FillerFine DEF AccurateFor
<1>3. Live(r) => AliasAt(r, at[r], "init")
  BY <1>1, FillerFine DEF AliasesFill, Shares
<1>4. CASE at[r] = 5
  <2>1. pc' = [pc EXCEPT ![r] = "lookup"] /\ UNCHANGED <<at, left, got>>
    BY <1>4 DEF InitMap, Goto
  <2>2. \A x \in Requests : Live(x) /\ Shares(x) => Accurate(at[r], "lookup", left[r], got[r])
    BY <1>2 DEF Accurate
  <2>3. Live(r) => AliasAt(r, at[r], "lookup")
    BY <1>3, <1>4 DEF AliasAt
  <2>4. "lookup" \in Fills \cup {"lookup"}
    OBVIOUS
  <2> QED BY <1>1, <1>4, <2>1, <2>2, <2>3, <2>4, Standing, FillKeepsMaps
<1>5. CASE at[r] # 5 /\ Filled(at[r])
  <2>1. at' = [at EXCEPT ![r] = at[r] + 1] /\ UNCHANGED <<pc, left, got>>
    BY <1>5 DEF InitMap
  <2>2. at[r] \in 1..4
    BY <1>5, Standing
  <2>3. ASSUME NEW x \in Requests, Live(x), Shares(x)
        PROVE  Accurate(at[r] + 1, "init", left[r], got[r])
    <3>1. Accurate(at[r], "init", left[r], got[r]) /\ MapsFine
      BY <1>2, <2>3
    <3>2. CASE at[r] = 1
      BY <1>5, <3>1, <3>2 DEF Accurate, MapsFine, Filled
    <3>3. CASE at[r] = 2
      BY <1>5, <3>1, <3>3 DEF Accurate, MapsFine, Filled
    <3>4. CASE at[r] = 3
      BY <3>1, <3>4 DEF Accurate
    <3>5. CASE at[r] = 4
      BY <1>5, <3>1, <3>5 DEF Accurate, MapsFine, Filled
    <3> QED BY <2>2, <3>2, <3>3, <3>4, <3>5
  <2>4. ASSUME Live(r) PROVE AliasAt(r, at[r] + 1, "init")
    <3>1. AliasAt(r, at[r], "init")
      BY <1>3, <2>4
    <3>2. CASE at[r] = 3
      BY <1>5, <3>1, <3>2 DEF AliasAt, Filled
    <3>3. CASE at[r] # 3
      BY <2>2, <3>1, <3>3 DEF AliasAt
    <3> QED BY <3>2, <3>3
  <2>5. "init" \in Fills \cup {"lookup"} /\ pc' = [pc EXCEPT ![r] = "init"]
    BY <1>1, <2>1, Standing DEF Fills
  <2>6. left' = [left EXCEPT ![r] = left[r]] /\ got' = [got EXCEPT ![r] = got[r]]
    BY <2>1, Standing
  <2>7. at' = [at EXCEPT ![r] = at[r] + 1] /\ left[r] \in SUBSET RedisClients
    BY <2>1, Standing
  <2>8. "init" = "lookup" => at[r] + 1 = 5
    OBVIOUS
  <2> QED BY <1>1, <2>3, <2>4, <2>5, <2>6, <2>7, <2>8, FillKeepsMaps
<1>6. CASE at[r] # 5 /\ ~Filled(at[r])
  <2>1. /\ pc' = [pc EXCEPT ![r] = "read"] /\ at' = at
        /\ left' = [left EXCEPT ![r] = RedisClients] /\ got' = [got EXCEPT ![r] = {}]
    BY <1>6 DEF InitMap, Goto
  <2>2. at[r] \in 1..4
    BY <1>6, Standing
  <2>3. Part(at[r], {}) = {}
    <3>1. ASSUME NEW i \in 1..4 PROVE Part(i, {}) = {}
      BY DEF Part
    <3> QED BY <2>2, <3>1
  <2>4. ASSUME NEW x \in Requests, Live(x), Shares(x)
        PROVE  Accurate(at[r], "read", RedisClients, {})
    <3>1. RedisClients \ RedisClients = {}
      OBVIOUS
    <3> QED BY <1>2, <2>3, <2>4, <3>1 DEF Accurate
  <2>5. Live(r) => AliasAt(r, at[r], "read")
    BY <1>3 DEF AliasAt
  <2>6. "read" \in Fills \cup {"lookup"} /\ at' = [at EXCEPT ![r] = at[r]]
    BY <2>1, Standing DEF Fills
  <2> QED BY <1>1, <2>1, <2>4, <2>5, <2>6, FillKeepsMaps
<1> QED BY <1>4, <1>5, <1>6

(***************************************************************************)
(* The namespaces of all redis clients together have all ports.            *)
(***************************************************************************)
LEMMA WholePart ==
    ASSUME Homed, TypeOK, NEW i \in 1..3
    PROVE  Part(i, RedisClients) = Whole(i)
<1>1. ASSUME NEW f \in [Ports -> Oids \cup {None}]
      PROVE  {e \in Named(f) : Home[e[1]] \in RedisClients} = Named(f)
  BY DEF Named, Homed
<1>2. port \in [Ports -> Oids \cup {None}] /\ que \in [Ports -> Oids \cup {None}]
  BY DEF TypeOK
<1>3. {p \in cfg : Home[p] \in RedisClients} = cfg
  BY DEF TypeOK, Homed
<1>4. CASE i = 1
  BY <1>1, <1>2, <1>4 DEF Part, Whole
<1>5. CASE i = 2
  BY <1>1, <1>2, <1>5 DEF Part, Whole
<1>6. CASE i = 3
  BY <1>3, <1>6 DEF Part, Whole
<1> QED BY <1>4, <1>5, <1>6

(***************************************************************************)
(* Reading one more namespace adds its part.                               *)
(***************************************************************************)
LEMMA PartGrows ==
    ASSUME NEW i \in 1..3, NEW N, NEW ns
    PROVE  Part(i, N) \cup Content(i, ns) = Part(i, N \cup {ns})
<1>1. CASE i = 1
  BY <1>1 DEF Part, Content
<1>2. CASE i = 2
  BY <1>2 DEF Part, Content
<1>3. CASE i = 3
  BY <1>3 DEF Part, Content
<1> QED BY <1>1, <1>2, <1>3

(***************************************************************************)
(* getCountersMap and getAliasMap, one namespace: what is read so far is   *)
(* complete for the namespaces passed.                                     *)
(***************************************************************************)
LEMMA ReadMapFull ==
    ASSUME Homed, FullInv, NEW r \in Requests, ReadMap(r)
    PROVE  FullInv'
<1>1. /\ UNCHANGED <<redisVars, maps, path, tbl, ans, res, fit, calm>> /\ pc[r] = "read"
      /\ TypeInv' /\ Filling(r) /\ at' = at /\ at[r] < 4
  BY ReadMapTypes DEF ReadMap, FullInv, Filling
<1>2. at[r] \in 1..3 /\ at' = [at EXCEPT ![r] = at[r]] /\ left[r] \in SUBSET RedisClients
  BY <1>1, Standing
<1>3. PICK ns \in left[r] :
        IF ~Configured(ns) THEN UNCHANGED <<left, got>>
        ELSE /\ left' = [left EXCEPT ![r] = @ \ {ns}]
             /\ got' = [got EXCEPT ![r] = @ \cup Content(at[r], ns)]
  BY DEF ReadMap
<1>4. pc' = [pc EXCEPT ![r] = IF left'[r] = {} THEN "assign" ELSE "read"]
  BY DEF ReadMap, Goto
<1>5. ASSUME NEW x \in Requests, Live(x), Shares(x)
      PROVE  Accurate(at[r], "read", left[r], got[r])
  BY <1>1, <1>5, FillerFine DEF AccurateFor
<1>6. ASSUME Live(r) PROVE AliasAt(r, at[r], "read") /\ AliasAt(r, at[r], "assign")
  <2>1. AliasesFill(r)
    BY <1>1, <1>6, FillerFine DEF Shares
  <2>2. AliasAt(r, at[r], "read")
    BY <1>1, <2>1 DEF AliasesFill
  <2> QED BY <2>2 DEF AliasAt
<1>7. "read" \in Fills \cup {"lookup"} /\ "assign" \in Fills \cup {"lookup"}
  BY DEF Fills
<1>8. CASE ~Configured(ns)
  <2>1. pc' = [pc EXCEPT ![r] = "read"] /\ left' = [left EXCEPT ![r] = left[r]]
        /\ got' = [got EXCEPT ![r] = got[r]]
    BY <1>3, <1>4, <1>8, Standing
  <2>2. "read" = "lookup" => at[r] = 5
    OBVIOUS
  <2> QED BY <1>1, <1>2, <1>5, <1>6, <1>7, <2>1, <2>2, FillKeepsMaps
<1>9. CASE Configured(ns)
  <2> DEFINE L == left[r] \ {ns}
             g == got[r] \cup Content(at[r], ns)
  <2>1. left' = [left EXCEPT ![r] = L] /\ got' = [got EXCEPT ![r] = g] /\ L \in SUBSET RedisClients
    BY <1>2, <1>3, <1>9
  <2>2. left'[r] = L
    BY <2>1 DEF FullInv, History
  <2>3. ASSUME NEW x \in Requests, Live(x), Shares(x)
        PROVE  /\ Accurate(at[r], "read", left[r], got[r])
               /\ g = Part(at[r], RedisClients \ L)
    <3>1. Accurate(at[r], "read", left[r], got[r])
      BY <1>5, <2>3
    <3>2. got[r] = Part(at[r], RedisClients \ left[r])
      BY <3>1 DEF Accurate
    <3>3. (RedisClients \ left[r]) \cup {ns} = RedisClients \ L
      BY <1>2
    <3>4. ASSUME NEW N, N = RedisClients \ left[r]
          PROVE  Part(at[r], N) \cup Content(at[r], ns) = Part(at[r], N \cup {ns})
      BY <1>2, PartGrows
    <3>5. Part(at[r], RedisClients \ left[r]) \cup Content(at[r], ns)
            = Part(at[r], (RedisClients \ left[r]) \cup {ns})
      BY <3>4
    <3> QED BY <3>1, <3>2, <3>3, <3>5
  <2> HIDE DEF L, g
  <2>4. CASE L = {}
    <3>1. pc' = [pc EXCEPT ![r] = "assign"]
      BY <1>4, <2>2, <2>4
    <3>2. ASSUME NEW x \in Requests, Live(x), Shares(x) PROVE Accurate(at[r], "assign", L, g)
      <4>1. /\ Accurate(at[r], "read", left[r], got[r])
            /\ g = Part(at[r], RedisClients \ L)
        BY <2>3, <3>2
      <4>2. RedisClients \ L = RedisClients
        BY <2>4
      <4>3. g = Whole(at[r])
        BY <1>2, <4>1, <4>2, WholePart DEF FullInv, TypeInv
      <4> QED BY <4>1, <4>3 DEF Accurate
    <3>3. "assign" = "lookup" => at[r] = 5
      OBVIOUS
    <3> QED BY <1>1, <1>2, <1>6, <1>7, <2>1, <3>1, <3>2, <3>3, FillKeepsMaps
  <2>5. CASE L # {}
    <3>1. pc' = [pc EXCEPT ![r] = "read"]
      BY <1>4, <2>2, <2>5
    <3>2. ASSUME NEW x \in Requests, Live(x), Shares(x) PROVE Accurate(at[r], "read", L, g)
      <4>1. /\ Accurate(at[r], "read", left[r], got[r])
            /\ g = Part(at[r], RedisClients \ L)
        BY <2>3, <3>2
      <4> QED BY <1>2, <2>1, <4>1 DEF Accurate
    <3>3. "read" = "lookup" => at[r] = 5
      OBVIOUS
    <3> QED BY <1>1, <1>2, <1>6, <1>7, <2>1, <3>1, <3>2, <3>3, FillKeepsMaps
  <2> QED BY <2>4, <2>5
<1> QED BY <1>8, <1>9

(***************************************************************************)
(* A port with a PORT row has a queue in COUNTERS_QUEUE_NAME_MAP.          *)
(***************************************************************************)
LEMMA QueuesOfPorts ==
    ASSUME TypeInv, Paired, NEW p \in cfg
    PROVE  p \in Ports /\ que[p] \in Oids /\ <<p, que[p]>> \in Named(que)
<1>1. p \in Ports /\ que[p] # None /\ que[p] \in Oids \cup {None}
  BY DEF TypeInv, TypeOK, Up, Paired
<1> QED BY <1>1 DEF Named

(***************************************************************************)
(* The ports of the entries in g.                                          *)
(***************************************************************************)
PortsIn(g) == {e[1] : e \in g}

(***************************************************************************)
(* The ports getPfcwdMap asks the queue map for: those with a watchdog in  *)
(* the namespaces passed and in this one.                                  *)
(***************************************************************************)
LEMMA WatchedPorts ==
    ASSUME TypeInv, NEW N, NEW ns, NEW g, g = Part(4, N),
           NEW S, S = PortsIn(g) \cup Content(4, ns)
    PROVE  S = {p \in pfc : Home[p] \in N \cup {ns}}
<1>1. g = {<<p, que[p]>> : p \in {x \in pfc : Home[x] \in N}}
  BY DEF Part
<1>2. PortsIn(g) = {x \in pfc : Home[x] \in N}
  <2>1. ASSUME NEW e \in g PROVE e[1] \in {x \in pfc : Home[x] \in N}
    BY <1>1, <2>1
  <2>2. ASSUME NEW x \in pfc, Home[x] \in N PROVE \E e \in g : e[1] = x
    <3>1. <<x, que[x]>> \in g
      BY <1>1, <2>2
    <3> QED BY <3>1
  <2> QED BY <2>1, <2>2 DEF PortsIn
<1>3. Content(4, ns) = {p \in pfc : Home[p] = ns}
  BY DEF Content
<1> QED BY <1>2, <1>3

(***************************************************************************)
(* Their entries of a complete queue map are the part of these namespaces. *)
(***************************************************************************)
LEMMA PfcGrows ==
    ASSUME TypeInv, Paired, NEW N, NEW S, S = {p \in pfc : Home[p] \in N}
    PROVE  {e \in Named(que) : e[1] \in S} = Part(4, N)
<1>1. Part(4, N) = {<<p, que[p]>> : p \in S}
  BY DEF Part
<1>2. ASSUME NEW p \in S PROVE <<p, que[p]>> \in Named(que)
  BY <1>2, QueuesOfPorts DEF TypeInv, TypeOK
<1>3. ASSUME NEW e \in Named(que), e[1] \in S PROVE e \in {<<p, que[p]>> : p \in S}
  BY <1>3 DEF Named
<1> QED BY <1>1, <1>2, <1>3

(***************************************************************************)
(* Where every namespace has a watchdog, all namespaces together make the  *)
(* whole map.                                                              *)
(***************************************************************************)
LEMMA PfcWhole ==
    ASSUME Homed, TypeInv, PfcEverywhere
    PROVE  Part(4, RedisClients) = Whole(4)
<1>1. {x \in pfc : Home[x] \in RedisClients} = pfc
  BY DEF TypeInv, TypeOK, Homed
<1> QED BY <1>1 DEF Part, Whole, Pfcs

(***************************************************************************)
(* Where a namespace has none, or no port has a queue, the map is to be    *)
(* empty.                                                                  *)
(***************************************************************************)
LEMMA NoPfc ==
    ASSUME TypeInv, Paired, NEW ns \in RedisClients, Unwatched(ns) \/ Named(que) = {}
    PROVE  Whole(4) = {}
<1>1. CASE Unwatched(ns)
  BY <1>1 DEF Whole, Pfcs, PfcEverywhere, Unwatched
<1>2. CASE Named(que) = {}
  <2>1. cfg = {}
    BY <1>2, QueuesOfPorts
  <2>2. pfc = {}
    BY <2>1 DEF TypeInv, TypeOK
  <2> QED BY <2>2 DEF Whole, Pfcs
<1> QED BY <1>1, <1>2

(***************************************************************************)
(* A request that fails where no request relies on the maps keeps the      *)
(* invariant.                                                              *)
(***************************************************************************)
LEMMA AloneFails ==
    ASSUME FullInv, TypeInv', NEW r \in Requests, Filling(r), Fails(r),
           UNCHANGED <<redisVars, at, path, tbl, ans, fit, calm>>,
           \A x \in Requests : ~(Live(x) /\ Shares(x))
    PROVE  FullInv'
<1>1. /\ pc' = [pc EXCEPT ![r] = "done"] /\ left' = [left EXCEPT ![r] = {}]
      /\ res' = [res EXCEPT ![r] = "NotFound"]
  BY DEF Fails, Finish, Goto
<1>2. pc'[r] = "done" /\ \A q \in Requests : q # r => pc'[q] = pc[q] /\ res'[q] = res[q]
  BY <1>1 DEF FullInv, TypeInv, TypeOK
<1>3. Paired' /\ History'
  BY <1>1 DEF FullInv, Paired, History, redisVars
<1>4. Blank'
  BY <1>2 DEF FullInv, Blank
<1>5. World'
  <2>1. ASSUME NEW x \in Requests, Live(x)', Shares(x)' PROVE Live(x) /\ Shares(x)
    BY <1>2, <2>1, ReadableKeeps DEF Live, Shares, Filling
  <2> QED BY <2>1 DEF World
<1>6. Progress'
  <2> SUFFICES ASSUME NEW x \in Requests, Live(x)', VirtualPath(path[x])' PROVE Answers(x)'
    BY DEF Progress
  <2>1. Live(x)
    BY ReadableKeeps DEF Live
  <2>2. x # r
    BY <2>1 DEF Shares
  <2> QED BY <1>2, <2>1, <2>2, OthersAnswer
<1> QED BY <1>3, <1>4, <1>5, <1>6 DEF FullInv

(***************************************************************************)
(* The namespaces that the maps are filled from have their PORT_QOS_MAP.   *)
(***************************************************************************)
LEMMA ClientsNamed == RedisClients \subseteq Range(Includes) \cup {Default}
BY DEF RedisClients, Namespaces

(***************************************************************************)
(* getPfcwdMap, one namespace: with a complete queue map no port with a    *)
(* watchdog is without a queue, so it fails only where a pfc_enable is     *)
(* missing or nobody relies on the maps.                                   *)
(***************************************************************************)
LEMMA ReadPfcFull ==
    ASSUME Homed, FullInv, NEW r \in Requests, ReadPfc(r)
    PROVE  FullInv'
<1>1. /\ UNCHANGED <<redisVars, path, tbl, ans, fit, calm>> /\ pc[r] = "read"
      /\ TypeInv' /\ Filling(r) /\ at' = at /\ at[r] = 4
  BY ReadPfcTypes DEF ReadPfc, FullInv, Filling
<1>2. at' = [at EXCEPT ![r] = 4] /\ left[r] \in SUBSET RedisClients
  BY <1>1, Standing
<1>3. TypeInv /\ Paired
  BY DEF FullInv
<1>4. PICK ns \in left[r] :
         LET ports == {e[1] : e \in got[r]} \cup Content(4, ns)
             queueless == \E p \in ports : \A o \in Oids : <<p, o>> \notin maps.que IN
         CASE Unwatched(ns) \/ (qos[ns] # "unset" /\ maps.que = {}) ->
                /\ left' = [left EXCEPT ![r] = {}]
                /\ got' = [got EXCEPT ![r] = {}]
                /\ Goto(r, "assign") /\ UNCHANGED <<maps, res>>
           [] ~Unwatched(ns) /\ (qos[ns] = "unset" \/ (maps.que # {} /\ queueless)) ->
                Fails(r)
           [] OTHER ->
                /\ left' = [left EXCEPT ![r] = @ \ {ns}]
                /\ got' = [got EXCEPT ![r] = {e \in maps.que : e[1] \in ports}]
                /\ Goto(r, IF left'[r] = {} THEN "assign" ELSE "read")
                /\ UNCHANGED <<maps, res>>
  BY DEF ReadPfc
<1> DEFINE S == {e[1] : e \in got[r]} \cup Content(4, ns)
           N == RedisClients \ left[r]
           Queueless == \E p \in S : \A o \in Oids : <<p, o>> \notin maps.que
           Lost == ~Unwatched(ns) /\ (qos[ns] = "unset" \/ (maps.que # {} /\ Queueless))
           None4 == Unwatched(ns) \/ (qos[ns] # "unset" /\ maps.que = {})
<1>5. ASSUME NEW x \in Requests, Live(x), Shares(x)
      PROVE  /\ Accurate(4, "read", left[r], got[r]) /\ maps.que = Named(que)
             /\ S = {p \in pfc : Home[p] \in N \cup {ns}}
             /\ \A k \in N : Content(4, k) # {} /\ qos[k] = "on"
  <2>1. Accurate(4, "read", left[r], got[r])
    BY <1>1, <1>5, FillerFine DEF AccurateFor
  <2>2. maps.que = Named(que) /\ got[r] = Part(4, N) /\ \A k \in N : Content(4, k) # {} /\ qos[k] = "on"
    BY <2>1 DEF Accurate
  <2>3. S = {p \in pfc : Home[p] \in N \cup {ns}}
    <3>1. ASSUME NEW g, g = got[r], NEW M, M = N, NEW T, T = S
          PROVE  T = {p \in pfc : Home[p] \in M \cup {ns}}
      <4>1. g = Part(4, M) /\ T = PortsIn(g) \cup Content(4, ns)
        BY <2>2, <3>1 DEF PortsIn
      <4> HIDE DEF S, N
      <4> QED BY <1>3, <4>1, WatchedPorts
    <3> QED BY <3>1
  <2> QED BY <2>1, <2>2, <2>3
<1>6. ASSUME Live(r) PROVE AliasAt(r, 4, "read") /\ AliasAt(r, 4, "assign")
  <2>1. AliasesFill(r)
    BY <1>1, <1>6, FillerFine DEF Shares
  <2>2. AliasAt(r, 4, "read")
    BY <1>1, <2>1 DEF AliasesFill
  <2> QED BY <2>2 DEF AliasAt
<1>7. /\ "read" \in Fills \cup {"lookup"} /\ "assign" \in Fills \cup {"lookup"}
      /\ ("assign" = "lookup" => 4 = 5) /\ ("read" = "lookup" => 4 = 5)
  BY DEF Fills
<1>8. CASE None4
  <2>1. /\ left' = [left EXCEPT ![r] = {}] /\ got' = [got EXCEPT ![r] = {}]
        /\ pc' = [pc EXCEPT ![r] = "assign"] /\ UNCHANGED <<maps, res>>
    BY <1>4, <1>8 DEF Goto
  <2>2. ASSUME NEW x \in Requests, Live(x), Shares(x) PROVE Accurate(4, "assign", {}, {})
    <3>1. Accurate(4, "read", left[r], got[r]) /\ maps.que = Named(que)
      BY <1>5, <2>2
    <3>2. Whole(4) = {}
      BY <1>2, <1>3, <1>8, <3>1, NoPfc
    <3> QED BY <3>1, <3>2 DEF Accurate
  <2>3. {} \in SUBSET RedisClients
    OBVIOUS
  <2> QED BY <1>1, <1>2, <1>6, <1>7, <2>1, <2>2, <2>3, FillKeepsMaps
<1>9. CASE ~None4 /\ Lost
  <2>1. Fails(r)
    BY <1>4, <1>9
  <2>2. ASSUME NEW x \in Requests, Live(x), Shares(x) PROVE FALSE
    <3>1. maps.que = Named(que) /\ S \subseteq cfg
      BY <1>3, <1>5, <2>2 DEF TypeInv, TypeOK
    <3>2. Queueless
      BY <1>2, <1>9, <2>2 DEF Live, PfcReadable, Unwatched
    <3> QED BY <1>3, <3>1, <3>2, QueuesOfPorts
  <2> QED BY <1>1, <2>1, <2>2, AloneFails
<1>10. CASE ~None4 /\ ~Lost
  <2> DEFINE L == left[r] \ {ns}
             g == {e \in maps.que : e[1] \in S}
  <2>1. /\ left' = [left EXCEPT ![r] = L] /\ got' = [got EXCEPT ![r] = g]
        /\ pc' = [pc EXCEPT ![r] = IF left'[r] = {} THEN "assign" ELSE "read"]
        /\ UNCHANGED <<maps, res>> /\ L \in SUBSET RedisClients
    BY <1>2, <1>4, <1>10 DEF Goto
  <2>2. left'[r] = L
    BY <2>1 DEF FullInv, History
  <2>3. ASSUME NEW x \in Requests, Live(x), Shares(x)
        PROVE  /\ Accurate(4, "read", left[r], got[r])
               /\ g = Part(4, RedisClients \ L)
               /\ \A k \in RedisClients \ L : Content(4, k) # {} /\ qos[k] = "on"
    <3>1. /\ Accurate(4, "read", left[r], got[r]) /\ maps.que = Named(que)
          /\ S = {p \in pfc : Home[p] \in N \cup {ns}} /\ \A k \in N : Content(4, k) # {} /\ qos[k] = "on"
      BY <1>5, <2>3
    <3>2. N \cup {ns} = RedisClients \ L
      BY <1>2
    <3>3. g = {e \in Named(que) : e[1] \in S}
      BY <3>1
    <3>4. Content(4, ns) # {} /\ qos[ns] = "on"
      <4>1. qos[ns] \in {"none", "unset", "on"}
        BY <1>2, <1>3, ClientsNamed DEF TypeInv, TypeOK
      <4> QED BY <1>10, <4>1 DEF Unwatched
    <3> HIDE DEF L, g, S, N
    <3>5. g = Part(4, N \cup {ns})
      <4>1. ASSUME NEW M, M = N \cup {ns} PROVE g = Part(4, M)
        BY <1>3, <3>1, <3>3, <4>1, PfcGrows
      <4> QED BY <4>1
    <3> QED BY <3>1, <3>2, <3>4, <3>5
  <2> HIDE DEF L, g, S, N, Lost, None4, Queueless
  <2>4. CASE L = {}
    <3>1. pc' = [pc EXCEPT ![r] = "assign"]
      BY <2>1, <2>2, <2>4
    <3>2. ASSUME NEW x \in Requests, Live(x), Shares(x) PROVE Accurate(4, "assign", L, g)
      <4>1. /\ Accurate(4, "read", left[r], got[r])
            /\ g = Part(4, RedisClients \ L)
            /\ \A k \in RedisClients \ L : Content(4, k) # {} /\ qos[k] = "on"
        BY <2>3, <3>2
      <4>2. RedisClients \ L = RedisClients
        BY <2>4
      <4>3. g = Whole(4)
        BY <1>3, <4>1, <4>2, PfcWhole DEF PfcEverywhere
      <4> QED BY <4>1, <4>3 DEF Accurate
    <3> QED BY <1>1, <1>2, <1>6, <1>7, <2>1, <3>1, <3>2, FillKeepsMaps, ZenonT(40)
  <2>5. CASE L # {}
    <3>1. pc' = [pc EXCEPT ![r] = "read"]
      BY <2>1, <2>2, <2>5
    <3>2. ASSUME NEW x \in Requests, Live(x), Shares(x) PROVE Accurate(4, "read", L, g)
      <4>1. /\ Accurate(4, "read", left[r], got[r])
            /\ g = Part(4, RedisClients \ L)
            /\ \A k \in RedisClients \ L : Content(4, k) # {} /\ qos[k] = "on"
        BY <2>3, <3>2
      <4> QED BY <1>2, <2>1, <4>1 DEF Accurate
    <3> QED BY <1>1, <1>2, <1>6, <1>7, <2>1, <3>1, <3>2, FillKeepsMaps, ZenonT(40)
  <2> QED BY <2>4, <2>5
<1> QED BY <1>8, <1>9, <1>10

(***************************************************************************)
(* Each map stays as it is or is replaced by the complete one.             *)
(***************************************************************************)
Better == /\ maps'.port \in {maps.port, Named(port)} /\ maps'.que \in {maps.que, Named(que)}
          /\ maps'.pfc \in {maps.pfc, Pfcs} /\ maps'.a2n \in {maps.a2n, cfg}
          /\ maps'.n2a \in {maps.n2a, cfg} /\ maps'.p2n \in {maps.p2n, cfg}

(***************************************************************************)
(* Maps that are replaced by complete ones stay right.                     *)
(***************************************************************************)
LEMMA BetterFine ==
    ASSUME UNCHANGED redisVars, Better
    PROVE  /\ MapsFine => MapsFine'
           /\ \A j \in 1..5 : \A d, M, h :
                (d \in Busy => j < 5) /\ Accurate(j, d, M, h) => Accurate(j, d, M, h)'
<1>1. MapsFine => MapsFine'
  BY RedisFrame DEF MapsFine, Better
<1>2. ASSUME NEW j \in 1..5, NEW d, NEW M, NEW h, d \in Busy => j < 5, Accurate(j, d, M, h)
      PROVE  Accurate(j, d, M, h)'
  <2>1. d \in {"read", "assign", "assign2", "assign3"} => j \in 1..4
    BY <1>2 DEF Busy
  <2> QED BY <1>2, <2>1, RedisFrame DEF Accurate, Better
<1> QED BY <1>1, <1>2

(***************************************************************************)
(* So do the alias maps of another request.                                *)
(***************************************************************************)
LEMMA BetterAliases ==
    ASSUME UNCHANGED redisVars, Better, NEW r \in Requests, Filling(r),
           NEW x \in Requests, x # r, NEW i, NEW c, AliasAt(x, i, c)
    PROVE  AliasAt(x, i, c)'
<1>1. cfg' = cfg
  BY RedisFrame
<1>2. Aliased => Aliased'
  BY <1>1 DEF Aliased, Better
<1>3. i < 4 /\ c \in {"init", "read", "assign"} => cfg # {} /\ Aliased
  BY DEF AliasAt
<1>4. (maps.a2n = cfg => maps'.a2n = cfg') /\ (maps.n2a = cfg => maps'.n2a = cfg')
  BY <1>1 DEF Better
<1> QED BY <1>1, <1>2, <1>3, <1>4 DEF AliasAt

(***************************************************************************)
(* FillFull for a step that replaces maps by complete ones.                *)
(***************************************************************************)
LEMMA FillBetter ==
    ASSUME FullInv, TypeInv', NEW r \in Requests, Filling(r),
           UNCHANGED <<redisVars, path, tbl, ans, res, fit, calm>>,
           NEW c \in Fills \cup {"lookup"}, pc' = [pc EXCEPT ![r] = c],
           NEW i, at' = [at EXCEPT ![r] = i], c = "lookup" => i = 5,
           NEW L \in SUBSET RedisClients, left' = [left EXCEPT ![r] = L],
           NEW g, got' = [got EXCEPT ![r] = g],
           \A x \in Requests : Live(x) /\ Shares(x) => Better /\ Accurate(i, c, L, g)',
           Live(r) => AliasAt(r, i, c)'
    PROVE  FullInv'
<1>1. /\ pc'[r] = c /\ at'[r] = i
      /\ \A q \in Requests : q # r => pc'[q] = pc[q] /\ at'[q] = at[q]
  BY DEF FullInv, TypeInv, TypeOK
<1>2. ASSUME NEW x \in Requests, Live(x), Shares(x)
      PROVE  /\ Accurate(i, c, L, g)' /\ MapsFine' /\ AliasesFill(x)'
             /\ \A j \in 1..5 : \A d, M, h :
                  (d \in Busy => j < 5) /\ Accurate(j, d, M, h) => Accurate(j, d, M, h)'
  <2>1. MapsFine /\ AliasesFill(x)
    BY <1>2 DEF FullInv, World, WorldOf
  <2>2. Better /\ Accurate(i, c, L, g)'
    BY <1>2
  <2>3. /\ MapsFine'
        /\ \A j \in 1..5 : \A d, M, h :
             (d \in Busy => j < 5) /\ Accurate(j, d, M, h) => Accurate(j, d, M, h)'
    BY <2>1, <2>2, BetterFine
  <2>4. ASSUME NEW j, NEW d, at'[x] = j, pc'[x] = d, AliasAt(x, j, d)'
        PROVE  AliasesFill(x)'
    BY <2>4 DEF AliasesFill
  <2>5. CASE x = r
    BY <1>1, <1>2, <2>2, <2>3, <2>4, <2>5
  <2>6. CASE x # r
    <3>1. ASSUME NEW j, NEW d, at[x] = j, pc[x] = d PROVE AliasAt(x, j, d)'
      <4>1. AliasAt(x, j, d)
        BY <2>1, <3>1 DEF AliasesFill
      <4> QED BY <2>2, <2>6, <4>1, BetterAliases
    <3> QED BY <1>1, <2>2, <2>3, <2>4, <2>6, <3>1
  <2> QED BY <2>5, <2>6
<1> QED BY <1>2, FillFull

(***************************************************************************)
(* The assignments of the maps, those of the three alias maps in turn,     *)
(* keep the invariant: what is assigned is complete.                       *)
(***************************************************************************)
LEMMA AssignFull ==
    ASSUME FullInv, NEW r \in Requests, Assign(r)
    PROVE  FullInv'
<1>1. /\ UNCHANGED <<redisVars, path, tbl, ans, res, fit, calm>> /\ left' = left
      /\ pc[r] \in {"assign", "assign2", "assign3"} /\ TypeInv' /\ Filling(r)
      /\ maps' = Assigned(r)
  BY AssignTypes DEF Assign, FullInv, Filling
<1>2. left' = [left EXCEPT ![r] = left[r]] /\ left[r] \in SUBSET RedisClients
  BY <1>1, Standing
<1>3. at[r] \in 1..4 /\ (pc[r] # "assign" => at[r] = 3) /\ maps \in MapsType
  BY <1>1, Unmoved DEF FullInv, TypeInv, GotOK
<1>4. ASSUME NEW x \in Requests, Live(x), Shares(x)
      PROVE  Accurate(at[r], pc[r], left[r], got[r]) /\ got[r] = Whole(at[r])
  <2>1. Accurate(at[r], pc[r], left[r], got[r])
    BY <1>1, <1>4, FillerFine DEF AccurateFor
  <2> QED BY <1>1, <2>1 DEF Accurate
<1>5. ASSUME Live(r) PROVE AliasAt(r, at[r], pc[r])
  BY <1>1, <1>5, FillerFine DEF AliasesFill, Shares
<1>6. ASSUME NEW x \in Requests, Live(x), Shares(x) PROVE Better
  <2>1. got[r] = Whole(at[r])
    BY <1>4, <1>6
  <2>2. CASE at[r] = 1
    BY <1>1, <1>3, <2>1, <2>2 DEF Assigned, MapsType, Whole, Better
  <2>3. CASE at[r] = 2
    BY <1>1, <1>3, <2>1, <2>3 DEF Assigned, MapsType, Whole, Better
  <2>4. CASE at[r] = 3
    BY <1>1, <1>3, <2>1, <2>4 DEF Assigned, MapsType, Whole, Better
  <2>5. CASE at[r] = 4
    BY <1>1, <1>3, <2>1, <2>5 DEF Assigned, MapsType, Whole, Better
  <2> QED BY <1>3, <2>2, <2>3, <2>4, <2>5
<1>7. cfg' = cfg /\ Whole(3) = cfg
  BY <1>1, RedisFrame DEF Whole
<1>81. PICK L \in SUBSET RedisClients : L = left[r]
  BY <1>2
<1>82. PICK i \in 1..4 : i = at[r]
  BY <1>3
<1>83. PICK g, d : g = got[r] /\ d = pc[r]
  OBVIOUS
<1>8. L = left[r] /\ g = got[r] /\ i = at[r] /\ d = pc[r]
  BY <1>81, <1>82, <1>83
<1>9. ASSUME NEW x \in Requests, Live(x), Shares(x)
      PROVE  Accurate(i, d, L, g) /\ g = Whole(i) /\ Better
  BY <1>4, <1>6, <1>8, <1>9
<1>10. CASE i = 3 /\ d # "assign3"
  <2>1. PICK c \in {"assign2", "assign3"} :
          pc' = [pc EXCEPT ![r] = c] /\ c = IF d = "assign" THEN "assign2" ELSE "assign3"
    BY <1>8, <1>10 DEF Assign, Goto
  <2>2. UNCHANGED <<at, got>>
    BY <1>8, <1>10 DEF Assign
  <2>3. at' = [at EXCEPT ![r] = 3] /\ got' = [got EXCEPT ![r] = g]
    BY <1>8, <1>10, <2>2, Standing
  <2>4. c \in Fills \cup {"lookup"} /\ (c = "lookup" => 3 = 5)
    BY <2>1 DEF Fills
  <2>5. ASSUME NEW x \in Requests, Live(x), Shares(x) PROVE Better /\ Accurate(3, c, L, g)'
    <3>1. Accurate(3, d, L, g) /\ g = Whole(3) /\ Better
      BY <1>9, <1>10, <2>5
    <3> QED BY <1>1, <2>1, <3>1, RedisFrame DEF Accurate, Better
  <2>6. ASSUME Live(r) PROVE AliasAt(r, 3, c)'
    <3>1. AliasAt(r, 3, d) /\ g = Whole(3)
      BY <1>1, <1>5, <1>8, <1>9, <1>10, <2>6 DEF Shares
    <3>2. d = "assign" => maps' = [maps EXCEPT !.a2n = g]
      BY <1>1, <1>8, <1>10 DEF Assigned
    <3>3. d = "assign2" => maps' = [maps EXCEPT !.n2a = g]
      BY <1>1, <1>8, <1>10 DEF Assigned
    <3>4. d \in {"assign", "assign2"}
      BY <1>1, <1>8, <1>10
    <3>5. CASE d = "assign"
      <4>1. maps'.a2n = cfg' /\ c = "assign2"
        BY <1>3, <1>7, <2>1, <3>1, <3>2, <3>5 DEF MapsType
      <4> QED BY <4>1 DEF AliasAt
    <3>6. CASE d = "assign2"
      <4>1. maps'.a2n = cfg' /\ maps'.n2a = cfg' /\ c = "assign3"
        BY <1>3, <1>7, <2>1, <3>1, <3>3, <3>6 DEF MapsType, AliasAt
      <4> QED BY <4>1 DEF AliasAt
    <3> QED BY <3>4, <3>5, <3>6
  <2>7. left' = [left EXCEPT ![r] = L]
    BY <1>2, <1>8
  <2> QED BY <1>1, <2>1, <2>3, <2>4, <2>5, <2>6, <2>7, FillBetter
<1>11. CASE ~(i = 3 /\ d # "assign3")
  <2>1. PICK j \in 2..5 : j = i + 1
    BY <1>8
  <2>2. /\ pc' = [pc EXCEPT ![r] = "init"] /\ at' = [at EXCEPT ![r] = j]
        /\ got' = [got EXCEPT ![r] = {}] /\ left' = [left EXCEPT ![r] = L]
    BY <1>2, <1>8, <1>11, <2>1 DEF Assign, Goto
  <2>3. "init" \in Fills \cup {"lookup"} /\ ("init" = "lookup" => j = 5)
    BY DEF Fills
  <2>4. ASSUME NEW x \in Requests, Live(x), Shares(x) PROVE Better /\ Accurate(j, "init", L, {})'
    <3>1. Accurate(i, d, L, g) /\ g = Whole(i) /\ Better
      BY <1>9, <2>4
    <3>2. CASE i = 1
      <4>1. maps'.port = Named(port)
        BY <1>1, <1>3, <1>8, <3>1, <3>2 DEF Assigned, MapsType, Whole
      <4> QED BY <1>1, <2>1, <3>1, <3>2, <4>1, RedisFrame DEF Accurate
    <3>3. CASE i = 2
      <4>1. maps'.que = Named(que) /\ maps'.port = maps.port
        BY <1>1, <1>3, <1>8, <3>1, <3>3 DEF Assigned, MapsType, Whole
      <4> QED BY <1>1, <2>1, <3>1, <3>3, <4>1, RedisFrame DEF Accurate
    <3>4. CASE i = 3
      BY <1>1, <2>1, <3>1, <3>4, RedisFrame DEF Accurate, Better
    <3>5. CASE i = 4
      <4>1. maps'.pfc = Pfcs
        BY <1>1, <1>3, <1>8, <3>1, <3>5 DEF Assigned, MapsType, Whole
      <4> QED BY <1>1, <2>1, <3>1, <3>5, <4>1, RedisFrame DEF Accurate, Better
    <3> QED BY <1>8, <3>2, <3>3, <3>4, <3>5
  <2>5. ASSUME Live(r) PROVE AliasAt(r, j, "init")'
    <3>1. AliasAt(r, i, d) /\ g = Whole(i)
      BY <1>1, <1>5, <1>8, <1>9, <2>5 DEF Shares
    <3>2. CASE i = 3
      <4>1. maps' = [maps EXCEPT !.p2n = g] /\ d = "assign3"
        BY <1>1, <1>8, <1>11, <3>2 DEF Assigned
      <4>2. Aliased'
        BY <1>3, <1>7, <3>1, <3>2, <4>1 DEF Aliased, AliasAt, MapsType
      <4> QED BY <2>1, <3>2, <4>2 DEF AliasAt
    <3>3. CASE i # 3
      <4>1. maps'.a2n = maps.a2n /\ maps'.n2a = maps.n2a /\ maps'.p2n = maps.p2n
        BY <1>1, <1>3, <1>8, <3>3 DEF Assigned, MapsType
      <4>2. Aliased' = Aliased /\ d = "assign"
        BY <1>1, <1>3, <1>7, <1>8, <3>3, <4>1 DEF Aliased
      <4>3. \A q \in Requests \ {r} : Filling(q)' <=> Filling(q)
        BY <2>2 DEF Filling, FullInv, TypeInv, TypeOK
      <4> QED BY <1>7, <1>8, <2>1, <3>1, <3>3, <4>1, <4>2, <4>3 DEF AliasAt
    <3> QED BY <3>2, <3>3
  <2> QED BY <1>1, <2>2, <2>3, <2>4, <2>5, FillBetter
<1> QED BY <1>10, <1>11

(***************************************************************************)
(* What the arrival of a path changes.                                     *)
(***************************************************************************)
LEMMA RequestFrame ==
    ASSUME FullInv, NEW r \in Requests, NEW a \in Paths[r], Request(r, a)
    PROVE  /\ UNCHANGED <<redisVars, maps, left, got>> /\ pc[r] \in {"idle", "done"}
           /\ path'[r] = a /\ at'[r] = 1 /\ tbl'[r] = {} /\ ans'[r] = {} /\ calm'[r]
           /\ pc'[r] \in {"done", "getter", "init"}
           /\ pc'[r] = "done" => a.ns # Default
           /\ pc'[r] = "getter" => a.elems[1] = "OTHERS"
           /\ DOMAIN fit' = Requests /\ DOMAIN calm' = Requests
           /\ \A q \in Requests : q # r =>
                /\ pc'[q] = pc[q] /\ at'[q] = at[q] /\ path'[q] = path[q] /\ tbl'[q] = tbl[q]
                /\ ans'[q] = ans[q] /\ res'[q] = res[q] /\ calm'[q] = calm[q]
<1>1. /\ path' = [path EXCEPT ![r] = a] /\ at' = [at EXCEPT ![r] = 1]
      /\ tbl' = [tbl EXCEPT ![r] = {}] /\ ans' = [ans EXCEPT ![r] = {}]
      /\ calm' = [calm EXCEPT ![r] = TRUE] /\ DOMAIN fit' = Requests
      /\ UNCHANGED <<redisVars, maps, left, got>> /\ pc[r] \in {"idle", "done"}
  BY DEF Request
<1>2. CASE FromTarget(a.ns)
  <2>1. /\ pc' = [pc EXCEPT ![r] = IF a.elems[1] = "OTHERS" THEN "getter" ELSE "init"]
        /\ res' = [res EXCEPT ![r] = "none"]
    BY <1>2 DEF Request, Goto
  <2> QED BY <1>1, <2>1 DEF FullInv, TypeInv, TypeOK, Functions0, History
<1>3. CASE ~FromTarget(a.ns)
  <2>1. pc' = [pc EXCEPT ![r] = "done"] /\ res' = [res EXCEPT ![r] = "NotFound"]
    BY <1>3 DEF Request, Finish, Goto
  <2>2. a.ns # Default
    BY <1>3 DEF FromTarget
  <2> QED BY <1>1, <2>1, <2>2 DEF FullInv, TypeInv, TypeOK, Functions0, History
<1> QED BY <1>2, <1>3

(***************************************************************************)
(* A request that arrives is fit by Fit; one that fills the alias maps     *)
(* from empty ones is no longer, once another arrives.                     *)
(***************************************************************************)
LEMMA FitIs ==
    ASSUME NEW r \in Requests, NEW a \in Paths[r], Request(r, a)
    PROVE  /\ fit'[r] => Fit
           /\ \A q \in Requests : q # r /\ fit'[q] => fit[q] /\ (Filling(q) => maps.a2n # {})
<1>1. fit' = [q \in Requests |-> IF q = r THEN Fit
                                 ELSE fit[q] /\ (Filling(q) => maps.a2n # {})]
  BY DEF Request
<1>2. fit'[r] = Fit
  BY <1>1
<1>3. ASSUME NEW q \in Requests, q # r
      PROVE  fit'[q] = (fit[q] /\ (Filling(q) => maps.a2n # {}))
  BY <1>1, <1>3
<1> QED BY <1>2, <1>3

(***************************************************************************)
(* Where a fit request arrives, the maps are right and so is what every    *)
(* other request has read.                                                 *)
(***************************************************************************)
LEMMA FitFine ==
    ASSUME FullInv, Fit, PfcReadable
    PROVE  MapsFine /\ FillersFine
<1>1. MapsFine
  BY DEF Fit, Half, MapsFine, Pfcs
<1>2. ASSUME NEW q \in Requests, Filling(q) PROVE calm[q] /\ AccurateFor(q)
  <2>1. fit[q] /\ calm[q]
    BY <1>2 DEF Fit
  <2>2. WorldOf(q)
    BY <1>2, <2>1 DEF FullInv, World, Live, Shares
  <2> QED BY <2>1, <2>2 DEF WorldOf
<1> QED BY <1>1, <1>2 DEF FillersFine

(***************************************************************************)
(* The arrival of a path keeps the invariant.                              *)
(***************************************************************************)
LEMMA RequestFull ==
    ASSUME FullInv, NEW r \in Requests, NEW a \in Paths[r], Request(r, a)
    PROVE  FullInv'
<1>1. /\ UNCHANGED <<redisVars, maps, left, got>> /\ pc[r] \in {"idle", "done"}
      /\ path'[r] = a /\ at'[r] = 1 /\ tbl'[r] = {} /\ ans'[r] = {} /\ calm'[r]
      /\ pc'[r] \in {"done", "getter", "init"}
      /\ pc'[r] = "done" => a.ns # Default
      /\ pc'[r] = "getter" => a.elems[1] = "OTHERS"
      /\ DOMAIN fit' = Requests /\ DOMAIN calm' = Requests
      /\ \A q \in Requests : q # r =>
           /\ pc'[q] = pc[q] /\ at'[q] = at[q] /\ path'[q] = path[q] /\ tbl'[q] = tbl[q]
           /\ ans'[q] = ans[q] /\ res'[q] = res[q] /\ calm'[q] = calm[q]
  BY RequestFrame
<1>2. TypeInv'
  BY RequestTypes DEF FullInv
<1>3. Paired' /\ History'
  BY <1>1 DEF FullInv, Paired, History, redisVars
<1>4. Blank'
  BY <1>1 DEF FullInv, Blank
<1>5. \A q \in Requests : q # r => (Filling(q)' <=> Filling(q)) /\ (Shares(q)' <=> Shares(q))
  BY <1>1 DEF Filling, Shares
<1>6. ASSUME NEW q \in Requests, q # r, AccurateFor(q) PROVE AccurateFor(q)'
  <2>1. PICK i \in 1..5 : i = at[q]
    BY BusyBelow DEF FullInv
  <2>2. PICK c, L, g : c = pc[q] /\ L = left[q] /\ g = got[q]
    OBVIOUS
  <2>3. (c \in Busy => i < 5) /\ Accurate(i, c, L, g)
    BY <1>6, <2>1, <2>2, BusyBelow DEF FullInv, AccurateFor
  <2>4. Accurate(i, c, L, g)'
    BY <1>1, <2>3, AccurateKeeps
  <2>5. i = at'[q] /\ c = pc'[q] /\ L = left'[q] /\ g = got'[q]
    BY <1>1, <1>6, <2>1, <2>2
  <2> QED BY <2>4, <2>5 DEF AccurateFor
<1>7. pc'[r] = "init" => AccurateFor(r)'
  BY <1>1 DEF AccurateFor, Accurate
<1>8. FillersFine => FillersFine'
  <2>1. ASSUME FillersFine, NEW q \in Requests, Filling(q)' PROVE calm'[q] /\ AccurateFor(q)'
    <3>1. CASE q = r
      BY <1>1, <1>7, <2>1, <3>1 DEF Filling
    <3>2. CASE q # r
      BY <1>1, <1>5, <1>6, <2>1, <3>2 DEF FillersFine
    <3> QED BY <3>1, <3>2
  <2> QED BY <2>1 DEF FillersFine
<1>9. (MapsFine => MapsFine') /\ Aliased' = Aliased /\ cfg' = cfg /\ maps' = maps
  BY <1>1, StillFine
<1>10. World'
  <2> SUFFICES ASSUME NEW x \in Requests, Live(x)', Shares(x)' PROVE WorldOf(x)'
    BY DEF World
  <2>1. CASE x = r
    <3>1. pc'[r] = "init"
      BY <1>1, <2>1 DEF Shares, Filling
    <3>2. Fit /\ PfcReadable
      BY <1>1, <2>1, FitIs, ReadableKeeps DEF Live
    <3>3. MapsFine' /\ FillersFine'
      BY <1>8, <1>9, <3>2, FitFine
    <3>4. \/ cfg # {} /\ Aliased
          \/ maps.a2n = {} /\ \A q \in Requests \ {r} : ~Filling(q)
      BY <3>2 DEF Fit, Warm, Aliased
    <3>5. AliasesFill(r)'
      BY <1>1, <1>5, <1>9, <3>1, <3>4 DEF AliasesFill, AliasAt
    <3> QED BY <1>7, <2>1, <3>1, <3>3, <3>5 DEF WorldOf
  <2>2. CASE x # r
    <3>1. fit[x] /\ calm[x] /\ PfcReadable /\ (Filling(x) => maps.a2n # {})
      BY <1>1, <2>2, FitIs, ReadableKeeps DEF Live
    <3>2. WorldOf(x)
      BY <1>5, <2>2, <3>1 DEF FullInv, World, Live
    <3>3. FillersFine' /\ MapsFine' /\ AccurateFor(x)'
      BY <1>6, <1>8, <1>9, <2>2, <3>2 DEF WorldOf
    <3>4. AliasesFill(x)'
      <4>1. PICK i, c : i = at[x] /\ c = pc[x]
        OBVIOUS
      <4>2. AliasAt(x, i, c) /\ (c \in Fills => maps.a2n # {})
        BY <3>1, <3>2, <4>1 DEF WorldOf, AliasesFill, Filling, Fills
      <4>3. AliasAt(x, i, c)'
        BY <1>9, <4>2 DEF AliasAt, Fills
      <4>4. i = at'[x] /\ c = pc'[x]
        BY <1>1, <2>2, <4>1
      <4> QED BY <4>3, <4>4 DEF AliasesFill
    <3> QED BY <3>3, <3>4 DEF WorldOf
  <2> QED BY <2>1, <2>2
<1>11. Progress'
  <2> SUFFICES ASSUME NEW x \in Requests, Live(x)', VirtualPath(path[x])' PROVE Answers(x)'
    BY DEF Progress
  <2>1. CASE x = r
    <3>1. pc'[r] = "init" \/ pc'[r] = "getter"
      BY <1>1, <2>1 DEF VirtualPath
    <3> QED BY <2>1, <3>1 DEF Answers, ProgressOf, DoneOf
  <2>2. CASE x # r
    <3>1. Live(x)
      BY <1>1, <2>2, FitIs, ReadableKeeps DEF Live
    <3>2. VirtualPath(path[x])'
      OBVIOUS
    <3> QED BY <1>1, <2>2, <3>1, OthersAnswer
  <2> QED BY <2>1, <2>2
<1> QED BY <1>2, <1>3, <1>4, <1>10, <1>11 DEF FullInv

(***************************************************************************)
(* The steps past the name maps.                                           *)
(***************************************************************************)
QuietStep(r) == \/ Lookup(r) \/ RealLookup(r) \/ RealExists(r) \/ ReadData(r) \/ ReadNone(r)
                \/ Getter(r)

(***************************************************************************)
(* What a step past the name maps changes.                                 *)
(***************************************************************************)
LEMMA QuietFrame ==
    ASSUME FullInv, NEW r \in Requests, QuietStep(r)
    PROVE  /\ TypeInv' /\ UNCHANGED <<redisVars, maps, at, left, got, path, fit, calm>>
           /\ pc[r] \in {"lookup", "real", "exists", "data", "getter"}
           /\ pc'[r] \in {"real", "exists", "data", "done"}
           /\ pc'[r] \in {"real", "exists"} => tbl' = tbl /\ ans' = ans /\ pc[r] # "data"
           /\ \A q \in Requests : q # r => /\ tbl'[q] = tbl[q] /\ ans'[q] = ans[q]
                                           /\ pc'[q] = pc[q] /\ res'[q] = res[q]
<1>1. /\ TypeInv' /\ UNCHANGED <<redisVars, maps, at, got, path>>
      /\ \A q \in Requests : q # r => tbl'[q] = tbl[q] /\ ans'[q] = ans[q]
  BY QuietServe DEF FullInv, QuietStep
<1>2. UNCHANGED <<left, fit, calm>> /\ pc[r] \in {"lookup", "real", "exists", "data", "getter"}
  BY DEF QuietStep, Lookup, RealLookup, RealExists, ReadData, ReadNone, Getter
<1>3. \/ pc' = [pc EXCEPT ![r] = "done"] \/ pc' = [pc EXCEPT ![r] = "data"]
      \/ pc' = pc /\ pc[r] = "data"
      \/ /\ pc' = [pc EXCEPT ![r] = "real"] \/ pc' = [pc EXCEPT ![r] = "exists"]
         /\ tbl' = tbl /\ ans' = ans /\ pc[r] # "data"
  <2>1. CASE Lookup(r)
    BY <2>1 DEF Lookup, Finish, Goto
  <2>2. CASE RealLookup(r)
    BY <2>2 DEF RealLookup, Finish, Goto
  <2>3. CASE RealExists(r) \/ ReadData(r)
    BY <2>3 DEF RealExists, ReadData, Finish, Goto
  <2>4. CASE ReadNone(r) \/ Getter(r)
    BY <2>4 DEF ReadNone, Getter, Finish, Goto
  <2> QED BY <2>1, <2>2, <2>3, <2>4 DEF QuietStep
<1>4. \/ res' = res \/ res' = [res EXCEPT ![r] = "OK"]
      \/ res' = [res EXCEPT ![r] = "NotFound"] \/ res' = [res EXCEPT ![r] = "panic"]
  <2>1. CASE Lookup(r)
    BY <2>1 DEF Lookup, Finish
  <2>2. CASE RealLookup(r)
    BY <2>2 DEF RealLookup, Finish
  <2>3. CASE RealExists(r) \/ ReadData(r)
    BY <2>3 DEF RealExists, ReadData, Finish
  <2>4. CASE ReadNone(r) \/ Getter(r)
    BY <2>4 DEF ReadNone, Getter, Finish
  <2> QED BY <2>1, <2>2, <2>3, <2>4 DEF QuietStep
<1>5. \A q \in Requests : q # r => pc'[q] = pc[q] /\ res'[q] = res[q]
  BY <1>3, <1>4 DEF FullInv, TypeInv, TypeOK
<1>6. /\ pc'[r] \in {"real", "exists", "data", "done"}
      /\ pc'[r] \in {"real", "exists"} => tbl' = tbl /\ ans' = ans /\ pc[r] # "data"
  BY <1>3 DEF FullInv, TypeInv, TypeOK
<1> QED BY <1>1, <1>2, <1>5, <1>6

(***************************************************************************)
(* A step past the name maps keeps the invariant if its request still gets *)
(* the right answer.                                                       *)
(***************************************************************************)
LEMMA QuietFull ==
    ASSUME FullInv, NEW r \in Requests, QuietStep(r),
           NEW c, c = pc'[r], NEW T, T = tbl'[r], NEW A, A = ans'[r], NEW s, s = res'[r],
           Live(r) /\ VirtualPath(path[r]) =>
               ProgressOf(path[r], c, T, A) /\ DoneOf(path[r], c, s, A)
    PROVE  FullInv'
<1>1. /\ TypeInv' /\ UNCHANGED <<redisVars, maps, at, left, got, path, fit, calm>>
      /\ pc[r] \in {"lookup", "real", "exists", "data", "getter"}
      /\ pc'[r] \in {"real", "exists", "data", "done"}
      /\ pc'[r] \in {"real", "exists"} => tbl' = tbl /\ ans' = ans /\ pc[r] # "data"
      /\ \A q \in Requests : q # r => /\ tbl'[q] = tbl[q] /\ ans'[q] = ans[q]
                                      /\ pc'[q] = pc[q] /\ res'[q] = res[q]
  BY QuietFrame
<1>2. Paired' /\ History'
  BY <1>1 DEF FullInv, Paired, History, redisVars
<1>3. Blank'
  <2>1. \A q \in Requests : q # r => /\ tbl'[q] = tbl[q] /\ ans'[q] = ans[q]
                                     /\ pc'[q] = pc[q] /\ at'[q] = at[q] /\ path'[q] = path[q]
    BY <1>1
  <2>2. /\ pc'[r] \notin {"data", "done"} => ans'[r] = {} /\ tbl'[r] = {}
        /\ pc'[r] \notin {"getter", "lookup"}
    BY <1>1 DEF FullInv, Blank
  <2> QED BY <2>1, <2>2 DEF FullInv, Blank
<1>4. \A q \in Requests : Filling(q)' <=> Filling(q)
  BY <1>1 DEF Filling
<1>5. \A q \in Requests : Filling(q) => q # r
  BY <1>1 DEF Filling
<1>6. ASSUME NEW q \in Requests, q # r, AccurateFor(q) PROVE AccurateFor(q)'
  <2>1. PICK i \in 1..5 : i = at[q]
    BY BusyBelow DEF FullInv
  <2>2. PICK d, L, g : d = pc[q] /\ L = left[q] /\ g = got[q]
    OBVIOUS
  <2>3. (d \in Busy => i < 5) /\ Accurate(i, d, L, g)
    BY <1>6, <2>1, <2>2, BusyBelow DEF FullInv, AccurateFor
  <2>4. Accurate(i, d, L, g)'
    BY <1>1, <2>3, AccurateKeeps
  <2>5. i = at'[q] /\ d = pc'[q] /\ L = left'[q] /\ g = got'[q]
    BY <1>1, <1>6, <2>1, <2>2
  <2> QED BY <2>4, <2>5 DEF AccurateFor
<1>7. (MapsFine => MapsFine') /\ Aliased' = Aliased /\ cfg' = cfg /\ maps' = maps
  BY <1>1, StillFine
<1>8. World'
  <2> SUFFICES ASSUME NEW x \in Requests, Live(x)', Shares(x)' PROVE WorldOf(x)'
    BY DEF World
  <2>1. x # r /\ Live(x) /\ Shares(x)
    BY <1>1, <1>4, ReadableKeeps DEF Live, Shares, Filling
  <2>2. WorldOf(x)
    BY <2>1 DEF FullInv, World
  <2>3. FillersFine'
    BY <1>1, <1>4, <1>5, <1>6, <2>2 DEF WorldOf, FillersFine
  <2>4. MapsFine' /\ AccurateFor(x)'
    BY <1>6, <1>7, <2>1, <2>2 DEF WorldOf
  <2>5. AliasesFill(x)'
    <3>1. PICK i, d : i = at[x] /\ d = pc[x]
      OBVIOUS
    <3>2. AliasAt(x, i, d)
      BY <2>2, <3>1 DEF WorldOf, AliasesFill
    <3>3. AliasAt(x, i, d)'
      BY <1>4, <1>7, <3>2 DEF AliasAt
    <3>4. i = at'[x] /\ d = pc'[x]
      BY <1>1, <2>1, <3>1
    <3> QED BY <3>3, <3>4 DEF AliasesFill
  <2> QED BY <2>3, <2>4, <2>5 DEF WorldOf
<1>9. Progress'
  <2> SUFFICES ASSUME NEW x \in Requests, Live(x)', VirtualPath(path[x])' PROVE Answers(x)'
    BY DEF Progress
  <2>1. Live(x)
    BY <1>1, ReadableKeeps DEF Live
  <2>2. CASE x = r
    <3>1. PICK a : a = path[r] /\ a = path'[r]
      BY <1>1
    <3>2. VirtualPath(a)'
      BY <2>2, <3>1
    <3>3. VirtualPath(path[r])
      BY <1>1, <3>1, <3>2, AnswerFrame
    <3>4. ProgressOf(a, c, T, A) /\ DoneOf(a, c, s, A)
      BY <2>1, <2>2, <3>1, <3>3
    <3>5. ProgressOf(a, c, T, A)' /\ DoneOf(a, c, s, A)'
      BY <1>1, <3>4, AnswerFrame
    <3> QED BY <2>2, <3>1, <3>5 DEF Answers
  <2>3. CASE x # r
    BY <1>1, <2>1, <2>3, OthersAnswer
  <2> QED BY <2>2, <2>3
<1> QED BY <1>1, <1>2, <1>3, <1>8, <1>9 DEF FullInv

(***************************************************************************)
(* How far the answer of a request that relies on the maps is.             *)
(***************************************************************************)
LEMMA LiveAnswers ==
    ASSUME FullInv, NEW r \in Requests, Live(r), VirtualPath(path[r])
    PROVE  ProgressOf(path[r], pc[r], tbl[r], ans[r])
BY DEF FullInv, Progress, Answers

(***************************************************************************)
(* The getters of OTHERS keep the invariant: their paths are not virtual.  *)
(***************************************************************************)
LEMMA GetterFull ==
    ASSUME FullInv, NEW r \in Requests, Getter(r)
    PROVE  FullInv'
<1>1. PICK c, T, A, s : c = pc'[r] /\ T = tbl'[r] /\ A = ans'[r] /\ s = res'[r]
  OBVIOUS
<1>2. ~VirtualPath(path[r])
  <2>1. path[r].elems[1] = "OTHERS"
    BY DEF Getter, FullInv, Blank
  <2> QED BY <2>1 DEF VirtualPath
<1> QED BY <1>1, <1>2, QuietFull DEF QuietStep

(***************************************************************************)
(* The end without a table path keeps the invariant: the path stands for   *)
(* nothing.                                                                *)
(***************************************************************************)
LEMMA ReadNoneFull ==
    ASSUME FullInv, NEW r \in Requests, ReadNone(r)
    PROVE  FullInv'
<1>1. PICK c, T, A, s : c = pc'[r] /\ T = tbl'[r] /\ A = ans'[r] /\ s = res'[r]
  OBVIOUS
<1>2. /\ pc[r] = "data" /\ tbl[r] = {} /\ c = "done" /\ s = "OK" /\ A = ans[r]
  BY <1>1 DEF ReadNone, Finish, Goto, FullInv, TypeInv, TypeOK
<1>3. ASSUME Live(r), VirtualPath(path[r])
      PROVE  ProgressOf(path[r], c, T, A) /\ DoneOf(path[r], c, s, A)
  <2>1. ProgressOf(path[r], "data", {}, A)
    BY <1>2, <1>3, LiveAnswers
  <2>2. ~IsDown(path[r]) /\ {x.label : x \in A} \cup {t.label : t \in {}} = Expected(path[r])
    BY <2>1 DEF ProgressOf
  <2>3. {x.label : x \in A} = Expected(path[r])
    BY <2>2
  <2> QED BY <1>2, <2>2, <2>3 DEF ProgressOf, DoneOf
<1> QED BY <1>1, <1>3, QuietFull DEF QuietStep

(***************************************************************************)
(* tableData2TypedValue, one table path: its row is there, so its label    *)
(* passes from the table paths to the answer.                              *)
(***************************************************************************)
LEMMA ReadDataFull ==
    ASSUME FullInv, NEW r \in Requests, ReadData(r)
    PROVE  FullInv'
<1>1. PICK c, T, A, s : c = pc'[r] /\ T = tbl'[r] /\ A = ans'[r] /\ s = res'[r]
  OBVIOUS
<1>2. PICK t \in tbl[r] :
        IF t.field = "one" /\ Owner(t.ns, t.key) = {}
        THEN Finish(r, "NotFound") /\ UNCHANGED <<tbl, ans>>
        ELSE /\ ans' = [ans EXCEPT ![r] = @ \cup Value(t)]
             /\ tbl' = [tbl EXCEPT ![r] = @ \ {t}]
             /\ IF tbl[r] = {t} THEN Finish(r, "OK") ELSE UNCHANGED <<pc, res>>
  BY DEF ReadData
<1>3. pc[r] = "data"
  BY DEF ReadData
<1>4. ASSUME Live(r), VirtualPath(path[r])
      PROVE  ProgressOf(path[r], c, T, A) /\ DoneOf(path[r], c, s, A)
  <2>1. ProgressOf(path[r], "data", tbl[r], ans[r])
    BY <1>3, <1>4, LiveAnswers
  <2>2. CASE IsDown(path[r])
    <3>1. t.key = None /\ t.field = "one"
      BY <2>1, <2>2 DEF ProgressOf
    <3>2. Finish(r, "NotFound")
      BY <1>2, <3>1, NoOwner
    <3>3. c = "done" /\ s = "NotFound"
      BY <1>1, <3>2 DEF Finish, Goto, FullInv, TypeInv, TypeOK
    <3> QED BY <2>2, <3>3 DEF ProgressOf, DoneOf
  <2>3. CASE ~IsDown(path[r])
    <3>1. /\ {x.label : x \in ans[r]} \cup {u.label : u \in tbl[r]} = Expected(path[r])
          /\ \A u \in tbl[r] : Owner(u.ns, u.key) # {}
      BY <2>1, <2>3 DEF ProgressOf
    <3>2. /\ ans' = [ans EXCEPT ![r] = ans[r] \cup Value(t)]
          /\ tbl' = [tbl EXCEPT ![r] = tbl[r] \ {t}]
          /\ IF tbl[r] = {t} THEN Finish(r, "OK") ELSE UNCHANGED <<pc, res>>
      BY <1>2, <3>1
    <3>3. A = ans[r] \cup Value(t) /\ T = tbl[r] \ {t}
      BY <1>1, <3>2 DEF FullInv, TypeInv, Functions0
    <3>4. \A x \in Value(t) : x.label = t.label
      BY DEF Value
    <3>5. \E x \in Value(t) : x.label = t.label
      <4>1. PICK o \in Owner(t.ns, t.key) : TRUE
        BY <3>1
      <4>2. [label |-> t.label, of |-> o] \in Value(t)
        BY <4>1 DEF Value
      <4> QED BY <4>2
    <3>6. {x.label : x \in A} \cup {u.label : u \in T} = Expected(path[r])
      <4>1. ASSUME NEW x \in A PROVE x.label \in Expected(path[r])
        BY <3>1, <3>3, <3>4
      <4>2. ASSUME NEW u \in T PROVE u.label \in Expected(path[r])
        BY <3>1, <3>3
      <4>3. ASSUME NEW l \in Expected(path[r])
            PROVE  (\E x \in A : x.label = l) \/ (\E u \in T : u.label = l)
        <5>1. (\E x \in ans[r] : x.label = l) \/ (\E u \in tbl[r] : u.label = l)
          BY <3>1
        <5> QED BY <3>3, <3>5, <5>1
      <4> QED BY <4>1, <4>2, <4>3
    <3>7. \A u \in T : Owner(u.ns, u.key) # {}
      BY <3>1, <3>3
    <3>8. CASE tbl[r] = {t}
      <4>1. c = "done" /\ s = "OK" /\ T = {}
        BY <1>1, <3>2, <3>3, <3>8 DEF Finish, Goto, FullInv, TypeInv, TypeOK
      <4>2. {x.label : x \in A} = Expected(path[r])
        BY <3>6, <4>1
      <4> QED BY <2>3, <4>1, <4>2 DEF ProgressOf, DoneOf
    <3>9. CASE tbl[r] # {t}
      <4>1. c = "data"
        BY <1>1, <1>3, <3>2, <3>9
      <4> QED BY <2>3, <3>6, <3>7, <4>1 DEF ProgressOf, DoneOf
    <3> QED BY <3>8, <3>9
  <2> QED BY <2>2, <2>3
<1> QED BY <1>1, <1>4, QuietFull DEF QuietStep

(***************************************************************************)
(* The name of a port that is not there is no OID.                         *)
(***************************************************************************)
LEMMA DownKey ==
    ASSUME NEW a, IsPrefixed(a.elems[2]), IsDown(a)
    PROVE  a.elems[2] # "Ethernet*" /\ a.elems[2] \notin Oids
<1>1. a.elems[2] # "Ethernet*"
  BY PathAssumption DEF IsDown, Labelled
<1> QED BY <1>1, PathAssumption DEF IsPrefixed

(***************************************************************************)
(* A path of a port that is not there ends in an error: neither a row nor  *)
(* a field of that name exists.                                            *)
(***************************************************************************)
LEMMA RealFull ==
    ASSUME FullInv, NEW r \in Requests, RealLookup(r) \/ RealExists(r)
    PROVE  FullInv'
<1>1. PICK c, T, A, s : c = pc'[r] /\ T = tbl'[r] /\ A = ans'[r] /\ s = res'[r]
  OBVIOUS
<1>2. pc[r] \in {"real", "exists"} /\ A = {}
  BY <1>1 DEF RealLookup, RealExists, FullInv, Blank
<1>3. ASSUME Live(r), VirtualPath(path[r])
      PROVE  ProgressOf(path[r], c, T, A) /\ DoneOf(path[r], c, s, A)
  <2>1. IsDown(path[r])
    BY <1>2, <1>3, LiveAnswers DEF ProgressOf
  <2>2. ~IsRow(r)
    BY <1>3, <2>1, DownKey DEF IsRow, Key, VirtualPath
  <2>3. CASE c = "exists"
    BY <2>1, <2>3 DEF ProgressOf, DoneOf
  <2>4. CASE c = "done" /\ s = "NotFound"
    BY <2>1, <2>4 DEF ProgressOf, DoneOf
  <2>5. CASE c = "data" /\ \E t : T = {t} /\ t.key = None /\ t.field = "one"
    BY <1>2, <2>1, <2>5 DEF ProgressOf, DoneOf
  <2>6. CASE RealExists(r)
    <3>1. c = "done" /\ s = "NotFound"
      BY <1>1, <2>2, <2>6 DEF RealExists, Finish, Goto, FullInv, TypeInv, TypeOK
    <3> QED BY <2>4, <3>1
  <2>7. CASE RealLookup(r)
    <3>1. CASE Finish(r, "NotFound")
      BY <1>1, <2>4, <3>1 DEF Finish, Goto, FullInv, TypeInv, TypeOK
    <3>2. CASE Goto(r, "exists")
      BY <1>1, <2>3, <3>2 DEF Goto, FullInv, TypeInv, TypeOK
    <3>3. CASE /\ tbl' = [tbl EXCEPT ![r] = {[RealPath(r) EXCEPT !.key = None, !.field = "one"]}]
               /\ Goto(r, "data")
      <4>1. c = "data" /\ T = {[RealPath(r) EXCEPT !.key = None, !.field = "one"]}
        BY <1>1, <3>3 DEF Goto, FullInv, TypeInv, TypeOK, Functions0
      <4>2. ASSUME NEW t, t = [RealPath(r) EXCEPT !.key = None, !.field = "one"]
            PROVE  t.key = None /\ t.field = "one"
        BY <4>2 DEF RealPath
      <4> QED BY <2>5, <4>1, <4>2
    <3> QED BY <2>7, <3>1, <3>2, <3>3 DEF RealLookup
  <2> QED BY <2>6, <2>7
<1> QED BY <1>1, <1>3, QuietFull DEF QuietStep

(***************************************************************************)
(* alias2nameMap, once complete, yields the port that the key names, if    *)
(* there is such a port, and no other.                                     *)
(***************************************************************************)
LEMMA PortOfKey ==
    ASSUME Apart, TypeOK, maps.a2n = cfg, NEW k, IsPrefixed(k), k # "Ethernet*"
    PROVE  /\ Labelled(k) \in Ports
           /\ PortOf(k) \in cfg <=> Labelled(k) \in cfg
           /\ Labelled(k) \in cfg => PortOf(k) = Labelled(k)
<1>1. cfg \subseteq Ports
  BY DEF TypeOK
<1>2. ASSUME NEW p \in Ports, Alias[p] = k
      PROVE  /\ Labelled(k) = p
             /\ IF p \in cfg THEN PortOf(k) = p ELSE PortOf(k) = k /\ k \notin cfg
  <2>1. Labelled(k) = p
    BY <1>2, LabelledPort
  <2>2. \A q \in cfg : Alias[q] = k => q = p
    BY <1>1, <1>2, PathAssumption
  <2>3. CASE p \in cfg
    <3>1. PortOf(k) \in cfg /\ Alias[PortOf(k)] = k
      BY <1>2, <2>3 DEF PortOf
    <3> QED BY <2>1, <2>2, <2>3, <3>1
  <2>4. CASE p \notin cfg
    <3>1. PortOf(k) = k
      BY <2>2, <2>4 DEF PortOf
    <3>2. k \notin cfg
      BY <1>1, <1>2, <2>4 DEF Apart
    <3> QED BY <2>1, <2>4, <3>1, <3>2
  <2> QED BY <2>3, <2>4
<1>3. CASE \E p \in Ports : Alias[p] = k
  BY <1>2, <1>3
<1>4. CASE ~\E p \in Ports : Alias[p] = k
  <2>1. k \in Ports
    BY <1>4 DEF IsPrefixed
  <2>2. Labelled(k) = k /\ PortOf(k) = k
    BY <1>1, <1>4 DEF Labelled, PortOf
  <2> QED BY <2>1, <2>2
<1> QED BY <1>3, <1>4

(***************************************************************************)
(* The entries of a name map: the ports of S with what f gives them.       *)
(***************************************************************************)
Pairing(f, S) == {<<p, f[p]>> : p \in S}

(***************************************************************************)
(* The OIDs of a port and of its queue have rows in COUNTERS.              *)
(***************************************************************************)
LEMMA OwnsRow ==
    ASSUME TypeInv, Paired, NEW p \in cfg
    PROVE  Owner(Home[p], port[p]) # {} /\ Owner(Home[p], que[p]) # {}
<1>1. p \in Ports /\ port[p] # None /\ que[p] # None
  BY DEF TypeInv, TypeOK, Up, Paired
<1>2. [port |-> p, kind |-> "port"] \in Owner(Home[p], port[p])
  BY <1>1 DEF Owner
<1>3. [port |-> p, kind |-> "queue"] \in Owner(Home[p], que[p])
  BY <1>1 DEF Owner
<1> QED BY <1>2, <1>3

(***************************************************************************)
(* Table paths that lead to rows of COUNTERS and show the ports of S.      *)
(***************************************************************************)
Shown(T, r, S) ==
    /\ \A t \in T : Owner(t.ns, t.key) # {}
    /\ {t.label : t \in T} = IF All(r) THEN {Alias[p] : p \in S}
                             ELSE IF PortOf(Key(r)) \in S THEN {Key(r)} ELSE {}

(***************************************************************************)
(* The table paths made of the entries of these ports show these ports,    *)
(* and lead to rows that are there.                                        *)
(***************************************************************************)
LEMMA TablePathsFor ==
    ASSUME TypeInv, Paired, maps.n2a = cfg, NEW r, NEW fld,
           NEW f, f = port \/ f = que, NEW S \in SUBSET cfg, NEW T,
           T = TablePaths(r, Pairing(f, S), fld)
    PROVE  Shown(T, r, S)
<1> DEFINE label(p) == IF All(r) THEN Label(p) ELSE Key(r)
<1>1. ASSUME NEW t \in T
      PROVE  \E p \in S : /\ All(r) \/ p = PortOf(Key(r))
                          /\ t = TablePath(label(p), p, f[p], fld)
  <2>1. PICK e \in Pairing(f, S) : /\ All(r) \/ e[1] = PortOf(Key(r))
                                   /\ t = TablePath(label(e[1]), e[1], e[2], fld)
    BY <1>1 DEF TablePaths
  <2>2. PICK p \in S : e = <<p, f[p]>>
    BY DEF Pairing
  <2>3. e[1] = p /\ e[2] = f[p]
    BY <2>2
  <2> QED BY <2>1, <2>2, <2>3
<1>2. ASSUME NEW p \in S, All(r) \/ p = PortOf(Key(r))
      PROVE  TablePath(label(p), p, f[p], fld) \in T
  <2>1. PICK e : e = <<p, f[p]>>
    OBVIOUS
  <2>2. e \in Pairing(f, S) /\ e[1] = p /\ e[2] = f[p]
    BY <2>1 DEF Pairing
  <2>3. TablePath(label(e[1]), e[1], e[2], fld) \in T
    BY <1>2, <2>2 DEF TablePaths
  <2> QED BY <2>2, <2>3
<1>3. \A p, o, l : /\ TablePath(l, p, o, fld).label = l /\ TablePath(l, p, o, fld).ns = Home[p]
                   /\ TablePath(l, p, o, fld).key = o
  BY DEF TablePath, Place
<1>4. \A p \in S : All(r) => label(p) = Alias[p]
  BY DEF Label
<1>5. \A p \in S : ~All(r) => label(p) = Key(r)
  OBVIOUS
<1> HIDE DEF label
<1>6. \A t \in T : Owner(t.ns, t.key) # {}
  BY <1>1, <1>3, OwnsRow
<1>7. CASE All(r)
  <2>1. ASSUME NEW t \in T PROVE \E p \in S : t.label = Alias[p]
    BY <1>1, <1>3, <1>4, <1>7
  <2>2. ASSUME NEW p \in S PROVE \E t \in T : t.label = Alias[p]
    BY <1>2, <1>3, <1>4, <1>7
  <2>3. {t.label : t \in T} = {Alias[p] : p \in S}
    BY <2>1, <2>2
  <2> QED BY <1>6, <1>7, <2>3 DEF Shown
<1>8. CASE ~All(r)
  <2>1. ASSUME NEW t \in T PROVE t.label = Key(r) /\ PortOf(Key(r)) \in S
    BY <1>1, <1>3, <1>5, <1>8
  <2>2. ASSUME PortOf(Key(r)) \in S PROVE \E t \in T : t.label = Key(r)
    BY <1>2, <1>3, <1>5, <1>8, <2>2
  <2>3. {t.label : t \in T} = IF PortOf(Key(r)) \in S THEN {Key(r)} ELSE {}
    BY <2>1, <2>2
  <2> QED BY <1>6, <1>8, <2>3 DEF Shown
<1> QED BY <1>7, <1>8

(***************************************************************************)
(* The complete name maps, as ports with their OIDs.                       *)
(***************************************************************************)
LEMMA MapsArePairings ==
    ASSUME TypeInv, Paired
    PROVE  /\ Named(port) = Pairing(port, cfg) /\ Named(que) = Pairing(que, cfg)
           /\ pfc = {} \/ PfcEverywhere => Pfcs = Pairing(que, pfc)
           /\ pfc \subseteq cfg
<1>1. cfg = {p \in Ports : port[p] # None} /\ cfg = {p \in Ports : que[p] # None}
  BY DEF TypeInv, Up, Paired
<1>2. Named(port) = Pairing(port, cfg) /\ Named(que) = Pairing(que, cfg)
  BY <1>1 DEF Named, Pairing
<1>3. pfc = {} \/ PfcEverywhere => Pfcs = Pairing(que, pfc)
  BY DEF Pfcs, Pairing
<1> QED BY <1>2, <1>3 DEF TypeInv, TypeOK

(***************************************************************************)
(* A virtual path has a translator, that of the watchdog if it ends in     *)
(* Pfcwd.                                                                  *)
(***************************************************************************)
LEMMA VirtualTranslator ==
    ASSUME TypeOK, NEW r \in Requests, VirtualPath(path[r]), NEW f,
           f = Find(V2R, <<"COUNTERS_DB">> \o path[r].elems)
    PROVE  /\ f \in {"v2rEthPortStats", "v2rEthPortFieldStats", "v2rEthPortQueStats",
                     "v2rEthPortPfcwdStats"}
           /\ f = "v2rEthPortPfcwdStats" <=> path[r].elems[Len(path[r].elems)] = "Pfcwd"
<1> DEFINE ks == <<"COUNTERS_DB">> \o path[r].elems
           es == path[r].elems
<1>1. /\ Len(es) \in Nat /\ Len(es) > 1 /\ Len(ks) = Len(es) + 1
      /\ ks[1] = "COUNTERS_DB" /\ ks[2] = es[1] /\ ks[3] = es[2]
      /\ Len(es) > 2 => ks[4] = es[3]
  BY KeysOf
<1>2. f = Find(V2R, ks)
  OBVIOUS
<1>3. es[1] = "COUNTERS" /\ IsPrefixed(es[2]) /\ Len(es) < 4
  BY DEF VirtualPath
<1>4. path[r].elems = es
  OBVIOUS
<1> HIDE DEF ks, es
<1>5. PICK n \in Nat : n = Len(es) /\ n > 1 /\ n < 4
  BY <1>1, <1>3
<1>6. PICK m \in Nat : m = n + 1 /\ m = Len(ks) /\ m > 2
  BY <1>1, <1>5
<1>7. f = IF ks[2] # "COUNTERS" \/ ~IsPrefixed(ks[3]) \/ m > 4 THEN "none"
          ELSE IF m = 3 THEN "v2rEthPortStats"
          ELSE IF ks[4] = "Queues" THEN "v2rEthPortQueStats"
          ELSE IF ks[4] = "Pfcwd" THEN "v2rEthPortPfcwdStats"
          ELSE "v2rEthPortFieldStats"
  BY <1>1, <1>2, <1>6, FindsTranslator
<1>8. f = IF m = 3 THEN "v2rEthPortStats"
          ELSE IF ks[4] = "Queues" THEN "v2rEthPortQueStats"
          ELSE IF ks[4] = "Pfcwd" THEN "v2rEthPortPfcwdStats"
          ELSE "v2rEthPortFieldStats"
  BY <1>1, <1>3, <1>5, <1>6, <1>7
<1>9. CASE n = 2
  <2>1. es[2] # "Pfcwd"
    BY <1>3, PathAssumption DEF IsPrefixed
  <2> QED BY <1>4, <1>5, <1>6, <1>8, <1>9, <2>1
<1>10. CASE n = 3
  <2>1. ks[4] = es[3] /\ m # 3
    BY <1>1, <1>5, <1>6, <1>10
  <2> QED BY <1>4, <1>5, <1>8, <1>10, <2>1
<1> QED BY <1>5, <1>9, <1>10

(***************************************************************************)
(* A request that relies on the maps finds all of them complete when it    *)
(* comes to look.                                                          *)
(***************************************************************************)
LEMMA FilledAtLookup ==
    ASSUME FullInv, NEW r \in Requests, Live(r), pc[r] = "lookup"
    PROVE  /\ maps.port = Named(port) /\ maps.que = Named(que) /\ maps.pfc = Pfcs
           /\ maps.a2n = cfg /\ maps.n2a = cfg /\ maps.p2n = cfg
<1>1. WorldOf(r) /\ at[r] = 5
  BY DEF FullInv, World, Shares, Blank
<1>2. Accurate(5, "lookup", left[r], got[r]) /\ AliasAt(r, 5, "lookup")
  BY <1>1 DEF WorldOf, AccurateFor, AliasesFill
<1> QED BY <1>2 DEF Accurate, AliasAt, Aliased

(***************************************************************************)
(* With a complete port2namespaceMap, every port of a name map has a       *)
(* namespace.                                                              *)
(***************************************************************************)
LEMMA PlacedAll ==
    ASSUME maps.p2n = cfg, NEW f, NEW S \in SUBSET cfg, NEW m, m = Pairing(f, S)
    PROVE  Placed(m)
BY DEF Placed, Pairing

(***************************************************************************)
(* With complete maps, a port is known if it has a PORT row.               *)
(***************************************************************************)
LEMMA KnownPort ==
    ASSUME TypeInv, Paired, maps.p2n = cfg, maps.port = Pairing(port, cfg), NEW r
    PROVE  Known(r) <=> PortOf(Key(r)) \in cfg
<1>1. ASSUME NEW p \in cfg PROVE \E o \in Oids : <<p, o>> \in maps.port
  <2>1. p \in Ports /\ port[p] # None /\ port[p] \in Oids \cup {None}
    BY DEF TypeInv, TypeOK, Up
  <2> QED BY <2>1 DEF Pairing
<1> QED BY <1>1 DEF Known

(***************************************************************************)
(* With complete maps a translator succeeds unless the port is not there,  *)
(* and its table paths are what the path stands for.                       *)
(***************************************************************************)
LEMMA LookupGives ==
    ASSUME Apart, FullInv, NEW r \in Requests, Live(r), VirtualPath(path[r]), pc[r] = "lookup",
           NEW f, f = Find(V2R, <<"COUNTERS_DB">> \o path[r].elems),
           NEW t, t = LookupV2R(r, f)
    PROVE  /\ t.ok <=> ~IsDown(path[r])
           /\ ~IsDown(path[r]) => /\ {u.label : u \in t.paths} = Expected(path[r])
                                  /\ \A u \in t.paths : Owner(u.ns, u.key) # {}
<1> DEFINE S == IF f = "v2rEthPortPfcwdStats" THEN pfc ELSE cfg
           P == PortOf(Key(r))
<1>1. /\ maps.port = Named(port) /\ maps.que = Named(que) /\ maps.pfc = Pfcs
      /\ maps.a2n = cfg /\ maps.n2a = cfg /\ maps.p2n = cfg
  BY FilledAtLookup
<1>2. /\ f \in {"v2rEthPortStats", "v2rEthPortFieldStats", "v2rEthPortQueStats",
                "v2rEthPortPfcwdStats"}
      /\ f = "v2rEthPortPfcwdStats" <=> path[r].elems[Len(path[r].elems)] = "Pfcwd"
  BY VirtualTranslator DEF FullInv, TypeInv
<1>3. TypeInv /\ Paired /\ TypeOK
  BY DEF FullInv, TypeInv
<1>4. /\ maps.port = Pairing(port, cfg) /\ maps.que = Pairing(que, cfg)
      /\ f = "v2rEthPortPfcwdStats" => maps.pfc = Pairing(que, pfc)
      /\ pfc \subseteq cfg
  <2>1. f = "v2rEthPortPfcwdStats" => pfc = {} \/ PfcEverywhere
    BY <1>2 DEF VirtualPath
  <2> QED BY <1>1, <1>3, <2>1, MapsArePairings
<1>5. S \in SUBSET cfg
  BY <1>4
<1>6. PICK g, fld : /\ g = port \/ g = que
                    /\ t.paths = TablePaths(r, Pairing(g, S), fld)
                    /\ All(r) => t.ok = TRUE
                    /\ ~All(r) => t.ok = (P \in cfg)
  <2>1. Placed(maps.port) /\ Placed(maps.que)
    BY <1>1, <1>4, PlacedAll
  <2>2. f = "v2rEthPortPfcwdStats" => Placed(maps.pfc)
    BY <1>1, <1>4, PlacedAll
  <2>3. Known(r) = (P \in cfg)
    <3>1. Known(r) \in BOOLEAN /\ (P \in cfg) \in BOOLEAN
      BY DEF Known
    <3> QED BY <1>1, <1>3, <1>4, <3>1, KnownPort
  <2>4. (P \in maps.p2n) = (P \in cfg)
    BY <1>1
  <2> HIDE DEF P
  <2>5. CASE f = "v2rEthPortStats"
    BY <1>4, <2>1, <2>3, <2>5 DEF LookupV2R, v2rEthPortStats
  <2>6. CASE f = "v2rEthPortFieldStats"
    BY <1>4, <2>1, <2>3, <2>6 DEF LookupV2R, v2rEthPortFieldStats
  <2>7. CASE f = "v2rEthPortPfcwdStats"
    BY <1>4, <2>2, <2>3, <2>7 DEF LookupV2R, v2rEthPortPfcwdStats
  <2>8. CASE f = "v2rEthPortQueStats"
    BY <1>4, <2>1, <2>4, <2>8 DEF LookupV2R, v2rEthPortQueStats, P
  <2> QED BY <1>2, <2>5, <2>6, <2>7, <2>8
<1>7. S = IF path[r].elems[Len(path[r].elems)] = "Pfcwd" THEN pfc ELSE cfg
  BY <1>2
<1> HIDE DEF S, P
<1>8. /\ \A u \in t.paths : Owner(u.ns, u.key) # {}
      /\ {u.label : u \in t.paths} = IF All(r) THEN {Alias[p] : p \in S}
                                     ELSE IF P \in S THEN {Key(r)} ELSE {}
  <2>1. ASSUME NEW T, T = t.paths
        PROVE  Shown(T, r, S)
    <3>1. T = TablePaths(r, Pairing(g, S), fld) /\ (g = port \/ g = que)
      BY <1>6, <2>1
    <3> QED BY <1>1, <1>3, <1>5, <3>1, TablePathsFor
  <2> QED BY <2>1 DEF P, Shown
<1>9. Expected(path[r]) = IF All(r) THEN {Alias[p] : p \in S}
                          ELSE IF Labelled(Key(r)) \in S THEN {Key(r)} ELSE {}
  BY <1>7 DEF Expected, All, Key
<1>10. CASE All(r)
  <2>1. ~IsDown(path[r])
    BY <1>10, PathAssumption DEF All, Key, IsDown, Labelled
  <2> QED BY <1>6, <1>8, <1>9, <1>10, <2>1
<1>11. CASE ~All(r)
  <2>1. /\ Labelled(Key(r)) \in Ports
        /\ P \in cfg <=> Labelled(Key(r)) \in cfg
        /\ Labelled(Key(r)) \in cfg => P = Labelled(Key(r))
    BY <1>1, <1>3, <1>11, PortOfKey DEF All, Key, VirtualPath, P
  <2>2. IsDown(path[r]) <=> P \notin cfg
    BY <2>1 DEF IsDown, Key
  <2>3. P \in S <=> Labelled(Key(r)) \in S
    BY <1>5, <2>1
  <2> QED BY <1>6, <1>8, <1>9, <1>11, <2>2, <2>3
<1> QED BY <1>10, <1>11

(***************************************************************************)
(* populateDbtablePath keeps the invariant.                                *)
(***************************************************************************)
LEMMA LookupFull ==
    ASSUME Apart, Homed, FullInv, NEW r \in Requests, Lookup(r)
    PROVE  FullInv'
<1>1. PICK c, T, A, s : c = pc'[r] /\ T = tbl'[r] /\ A = ans'[r] /\ s = res'[r]
  OBVIOUS
<1>2. PICK f : f = Find(V2R, <<"COUNTERS_DB">> \o path[r].elems)
  OBVIOUS
<1>3. PICK t : t = LookupV2R(r, f)
  OBVIOUS
<1>4. pc[r] = "lookup" /\ A = {}
  BY <1>1 DEF Lookup, FullInv, Blank
<1>5. ASSUME Live(r), VirtualPath(path[r])
      PROVE  ProgressOf(path[r], c, T, A) /\ DoneOf(path[r], c, s, A)
  <2>1. path[r].ns = Default /\ Configured(path[r].ns) /\ Configured(Default)
    BY <1>5 DEF VirtualPath, Homed, Configured
  <2>2. IF ~t.ok THEN Goto(r, "real")
        ELSE tbl' = [tbl EXCEPT ![r] = t.paths] /\ Goto(r, "data")
    BY <1>2, <1>3, <2>1 DEF Lookup, HasNamespace
  <2>3. /\ t.ok <=> ~IsDown(path[r])
        /\ ~IsDown(path[r]) => /\ {u.label : u \in t.paths} = Expected(path[r])
                               /\ \A u \in t.paths : Owner(u.ns, u.key) # {}
    BY <1>2, <1>3, <1>4, <1>5, LookupGives
  <2>4. CASE ~t.ok
    <3>1. c = "real"
      BY <1>1, <2>2, <2>4 DEF Goto, FullInv, TypeInv, TypeOK
    <3> QED BY <2>3, <2>4, <3>1 DEF ProgressOf, DoneOf
  <2>5. CASE t.ok
    <3>1. c = "data" /\ T = t.paths
      BY <1>1, <2>2, <2>5 DEF Goto, FullInv, TypeInv, TypeOK, Functions0
    <3>2. {x.label : x \in A} \cup {u.label : u \in T} = Expected(path[r])
      BY <1>4, <2>3, <2>5, <3>1
    <3> QED BY <2>3, <2>5, <3>1, <3>2 DEF ProgressOf, DoneOf
  <2> QED BY <2>4, <2>5
<1> QED BY <1>1, <1>5, QuietFull DEF QuietStep

(***************************************************************************)
(* A step that changes nothing keeps the invariant.                        *)
(***************************************************************************)
LEMMA StutterFull ==
    ASSUME FullInv, UNCHANGED vars
    PROVE  FullInv'
<1>1. /\ UNCHANGED <<redisVars, maps, pc, at, left, got, path, tbl, ans, res, fit, calm>>
      /\ UNCHANGED <<port, que, cfg, pfc>>
  BY DEF vars, redisVars
<1>2. TypeInv'
  BY NextTypes DEF FullInv
<1>3. Paired' /\ Blank' /\ History'
  BY <1>1 DEF FullInv, Paired, Blank, History
<1>4. World'
  <2> SUFFICES ASSUME NEW x \in Requests, Live(x)', Shares(x)' PROVE WorldOf(x)'
    BY DEF World
  <2>1. WorldOf(x)
    BY <1>1, ReadableKeeps DEF FullInv, World, Live, Shares, Filling
  <2>2. ASSUME NEW q \in Requests, AccurateFor(q) PROVE AccurateFor(q)'
    <3>1. PICK i \in 1..5 : i = at[q]
      BY BusyBelow DEF FullInv
    <3>2. PICK d, L, g : d = pc[q] /\ L = left[q] /\ g = got[q]
      OBVIOUS
    <3>3. (d \in Busy => i < 5) /\ Accurate(i, d, L, g)
      BY <2>2, <3>1, <3>2, BusyBelow DEF FullInv, AccurateFor
    <3>4. Accurate(i, d, L, g)'
      BY <1>1, <3>3, AccurateKeeps
    <3>5. i = at'[q] /\ d = pc'[q] /\ L = left'[q] /\ g = got'[q]
      BY <1>1, <3>1, <3>2
    <3> QED BY <3>4, <3>5 DEF AccurateFor
  <2>3. (MapsFine => MapsFine') /\ Aliased' = Aliased /\ cfg' = cfg /\ maps' = maps
    BY <1>1, StillFine
  <2>4. FillersFine'
    BY <1>1, <2>1, <2>2 DEF WorldOf, FillersFine, Filling
  <2>5. AliasesFill(x)'
    <3>1. PICK i, d : i = at[x] /\ d = pc[x]
      OBVIOUS
    <3>2. AliasAt(x, i, d)
      BY <2>1, <3>1 DEF WorldOf, AliasesFill
    <3>3. AliasAt(x, i, d)'
      BY <1>1, <2>3, <3>2 DEF AliasAt, Filling
    <3>4. i = at'[x] /\ d = pc'[x]
      BY <1>1, <3>1
    <3> QED BY <3>3, <3>4 DEF AliasesFill
  <2> QED BY <2>1, <2>2, <2>3, <2>4, <2>5 DEF WorldOf
<1>5. Progress'
  <2> SUFFICES ASSUME NEW x \in Requests, Live(x)', VirtualPath(path[x])' PROVE Answers(x)'
    BY DEF Progress
  <2>1. Live(x)
    BY <1>1, ReadableKeeps DEF Live
  <2> QED BY <1>1, <2>1, OthersAnswer
<1> QED BY <1>2, <1>3, <1>4, <1>5 DEF FullInv

(***************************************************************************)
(* Every step keeps the invariant.                                         *)
(***************************************************************************)
LEMMA NextFull == ASSUME Apart, Homed PROVE FullInv /\ [Next]_vars => FullInv'
<1> SUFFICES ASSUME FullInv, [Next]_vars PROVE FullInv'
  OBVIOUS
<1>1. ASSUME NEW r \in Requests, Serve(r) PROVE FullInv'
  <2>1. CASE \E a \in Paths[r] : Request(r, a)
    BY <2>1, RequestFull
  <2>2. CASE InitMap(r)
    BY <2>2, InitMapFull
  <2>3. CASE ReadMap(r)
    BY <2>3, ReadMapFull
  <2>4. CASE ReadPfc(r)
    BY <2>4, ReadPfcFull
  <2>5. CASE ReadFails(r)
    BY <2>5, ReadFailsFull
  <2>6. CASE Assign(r)
    BY <2>6, AssignFull
  <2>7. CASE Lookup(r)
    BY <2>7, LookupFull
  <2>8. CASE RealLookup(r) \/ RealExists(r)
    BY <2>8, RealFull
  <2>9. CASE ReadData(r)
    BY <2>9, ReadDataFull
  <2>10. CASE ReadNone(r)
    BY <2>10, ReadNoneFull
  <2>11. CASE Getter(r)
    BY <2>11, GetterFull
  <2> QED BY <1>1, <2>1, <2>2, <2>3, <2>4, <2>5, <2>6, <2>7, <2>8, <2>9, <2>10, <2>11
          DEF Serve
<1>2. CASE \E p \in Ports : PortUp(p) \/ PortDown(p) \/ PfcUp(p) \/ QosChange(Home[p])
  BY <1>2, RedisFull
<1>3. CASE UNCHANGED vars
  BY <1>3, StutterFull
<1> QED BY <1>1, <1>2, <1>3 DEF Next

(***************************************************************************)
(* A request that begins alone, or once the alias maps are complete and    *)
(* the others filling maps began so too, is answered with all that its     *)
(* path stands for unless redis changes or fails: for every set of ports   *)
(* and namespaces and any number of concurrent requests, which fill the    *)
(* shared maps without a lock in every interleaving.  Assumes that no port *)
(* has another one's name as its alias, that the default namespace has a   *)
(* configuration, and that every port is in a namespace the maps are       *)
(* filled from.  Resolves itself excepts redis contents without a          *)
(* pfc_enable where getPfcwdMap looks for one.                             *)
(***************************************************************************)
THEOREM RequestsResolve ==
    ASSUME Apart, Homed
    PROVE  Spec => []Resolves
<1>1. Init => FullInv
  BY InitFull
<1>2. FullInv /\ [Next]_vars => FullInv'
  BY NextFull
<1>3. FullInv => Resolves
  BY FullImplies
<1> QED BY <1>1, <1>2, <1>3, PTL DEF Spec
=============================================================================
