--------------------------- MODULE PathResolution ---------------------------
(***************************************************************************)
(* From a gNMI path to the data it names: NewDbClient and                  *)
(* populateDbtablePath of db_client.go, the virtual paths and name maps of *)
(* virtual_db.go, trie.go, the namespaces of db_config.go, DbClient.Get,   *)
(* and NewNonDbClient and Get of non_db_client.go.                         *)
(*                                                                         *)
(* Requests are served by concurrent goroutines that share the name maps   *)
(* without a lock.  Redis is external: each port has a row in CONFIG_DB    *)
(* and, with one queue, a name and an OID in COUNTERS_DB of the namespace  *)
(* it belongs to; a row of COUNTERS exists while its OID is in use.  OIDs  *)
(* are unique in a namespace only.  Each namespace has PORT_QOS_MAP rows   *)
(* or none, and the first of them has a pfc_enable or has none.            *)
(***************************************************************************)
EXTENDS Naturals, SequencesExt

CONSTANTS Ports,            \* names that begin with Ethernet
          Alias, Home,      \* vendor alias and namespace of each port
          Oids, None,       \* OIDs; no OID
          PortOid, QueOid,  \* the first OID of each port and of its queue
          Default,          \* the namespace ""
          Includes,         \* namespaces of database_global.json; <<>>: no such file
          Requests,         \* slots for requests in progress
          Paths,            \* what a slot may be asked for: the names of the path's
                            \* elements, the namespace in the target (Default: none)
                            \* and the use, "get" or "onchange"
          Boot,             \* ports that are up at first, those with a watchdog, and qos
          Reuse,            \* whether an OID may be used again
          MaxRequests,      \* bound: requests
          MaxChanges        \* bound: changes and failures of redis

ASSUME PathAssumption ==
    /\ DOMAIN Alias = Ports /\ DOMAIN Home = Ports
    /\ \A p, q \in Ports : Alias[p] = Alias[q] => p = q
    /\ \A p \in Ports : {p, Alias[p]} \cap ({"Queues", "Pfcwd", "Ethernet*"} \cup Oids) = {}
    /\ None \notin Oids
    /\ \A p \in Ports : {PortOid[p], QueOid[p]} \subseteq Oids /\ PortOid[p] # QueOid[p]
    /\ \A p, q \in Ports : p # q /\ Home[p] = Home[q] =>
         {PortOid[p], QueOid[p]} \cap {PortOid[q], QueOid[q]} = {}
    /\ \A r \in Requests : Paths[r] # {} /\ \A a \in Paths[r] :
         a.elems \in Seq(Range(a.elems)) /\ Len(a.elems) > 1
    /\ \A b \in Boot : b.pfc \subseteq b.up /\ b.up \subseteq Ports
         /\ b.qos \in [Range(Includes) \cup {Default} -> {"none", "unset", "on"}]
    /\ Reuse \in BOOLEAN
    /\ MaxRequests \in Nat /\ MaxChanges \in Nat

VARIABLES
    port, que,  \* COUNTERS_PORT_NAME_MAP and COUNTERS_QUEUE_NAME_MAP
    cfg, pfc,   \* ports with a PORT row; with a PFC_WD_TABLE row
    qos,        \* PORT_QOS_MAP of a namespace: "none", or whether the first row
                \* that Keys returns has a pfc_enable, "on" or "unset"
    used,       \* OIDs that have been used, with their namespace
    maps,       \* the name maps of the process
    pc,         \* control point of a request
    at,         \* the name map it is about to fill, 1 to 4
    left, got,  \* namespaces still to be read; what has been read
    path,       \* the path asked for
    tbl,        \* pathG2S: the table paths found
    ans, res,   \* the answer and the status
    panic,      \* the process has panicked
    fit,        \* history: the request shares no filling of the alias maps
    calm,       \* history: redis has neither failed nor changed since
    nreqs, nchanges

redisVars == <<port, que, cfg, pfc, qos, used>>
vars == <<port, que, cfg, pfc, qos, used, maps, pc, at, left, got, path, tbl, ans, res, panic,
          fit, calm, nreqs, nchanges>>

-----------------------------------------------------------------------------
(* Faults, for mutation testing *)

DownWild(n, k, T) ==                       \* wildcards before exact names
    LET w == {x \in {"Ethernet*", "*"} : Append(n, x) \in UNION {
                 {SubSeq(s, 1, i) : i \in 0..Len(s)} : s \in DOMAIN T}}
    IN  IF w # {} THEN Append(n, CHOOSE x \in w : TRUE) ELSE Append(n, k)
PlaceAny(p) == CHOOSE ns \in {Home[q] : q \in Ports} : TRUE   \* one namespace for all
FilledNot(i) == IF i = 3 THEN maps.a2n # {} \/ maps.port # {} ELSE FALSE
                                           \* alias maps taken as filled with the ports

-----------------------------------------------------------------------------
(* Namespaces *)

(***************************************************************************)
(* DbInit and DbGetNamespaceAndConfigFile: the namespaces of the global    *)
(* file, of which there is one each, or else the default.                  *)
(***************************************************************************)
Namespaces == IF Includes = <<>> THEN {Default} ELSE Range(Includes)

InitPanics == Len(Includes) # Cardinality(Range(Includes))

MultiNamespace == Cardinality(Namespaces) > 1

\* GetDbNamespaceFromTarget: no namespace stands for the default one.
FromTarget(ns) == ns \in Namespaces \cup {Default}

\* IsTargetDb: whether the target names a namespace.
HasNamespace(a) == a.ns # Default

\* GetDbSeparator, GetDbInst and the rest panic without a configuration.
Configured(ns) == ns \in Namespaces

(***************************************************************************)
(* GetRedisClientsForDb: all namespaces but the default, if there are      *)
(* several; the client of a namespace without a configuration is nil.      *)
(***************************************************************************)
RedisClients == IF MultiNamespace THEN Namespaces \ {Default} ELSE {Default}

-----------------------------------------------------------------------------
(* Tries *)

IsPrefixed(k) == k \in Ports \cup {Alias[p] : p \in Ports} \cup {"Ethernet*"}

HasPrefix(k, w) == w = "*" \/ (w = "Ethernet*" /\ IsPrefixed(k))

Wildcards == {"Ethernet*", "*"}

\* Add puts every prefix of a path into the trie and its function at the end.
Nodes(T) == UNION {{SubSeq(s, 1, i) : i \in 0..Len(s)} : s \in DOMAIN T}

NoNode == <<"nil">>

\* One level of findNode: the child of that name, else one whose wildcard
\* fits; there is no way back.
Down(n, k, T) ==
    LET w == {x \in Wildcards : Append(n, x) \in Nodes(T) /\ HasPrefix(k, x)}
    IN  CASE n = NoNode -> NoNode
          [] n # NoNode /\ Append(n, k) \in Nodes(T) -> Append(n, k)
          [] n # NoNode /\ Append(n, k) \notin Nodes(T) /\ w # {} ->
                 Append(n, CHOOSE x \in w : TRUE)
          [] OTHER -> NoNode

FindNode(T, keys) ==
    LET node[i \in 0..Len(keys)] == IF i = 0 THEN <<>> ELSE Down(node[i - 1], keys[i], T)
    IN  node[Len(keys)]

Find(T, keys) == IF FindNode(T, keys) \in DOMAIN T THEN T[FindNode(T, keys)] ELSE "none"

Counter(tail) == <<"COUNTERS_DB", "COUNTERS", "Ethernet*">> \o tail

\* pathTransFuncTbl and path2DataFuncTbl.
V2R == [e \in {Counter(t) : t \in {<<>>, <<"*">>, <<"Queues">>, <<"Pfcwd">>}} |->
            CASE e = Counter(<<>>) -> "v2rEthPortStats"
              [] e = Counter(<<"*">>) -> "v2rEthPortFieldStats"
              [] e = Counter(<<"Queues">>) -> "v2rEthPortQueStats"
              [] e = Counter(<<"Pfcwd">>) -> "v2rEthPortPfcwdStats"]

\* Files of /proc with a getter, which renders what it reads.
Files == {"uptime", "meminfo", "diskstats", "loadavg", "vmstat", "stat"}

Getters == (<<"OTHERS", "platform", "cpu">> :> "getCpuUtil")
           @@ (<<"OTHERS", "osversion", "build">> :> "getBuildVersion")
           @@ [e \in {<<"OTHERS", "proc", f>> : f \in Files} |-> e[3]]

-----------------------------------------------------------------------------
(* Redis *)

\* What a row of COUNTERS belongs to.
Owner(ns, oid) ==
    LET of(f, kind) == {[port |-> p, kind |-> kind] :
                           p \in {q \in Ports : Home[q] = ns /\ f[q] = oid /\ oid # None}}
    IN  of(port, "port") \cup of(que, "queue")

Fresh(ns) == {o \in Oids : Owner(ns, o) = {} /\ (Reuse \/ <<ns, o>> \notin used)}

Changed ==
    /\ nchanges < MaxChanges
    /\ nchanges' = nchanges + 1
    /\ calm' = [r \in Requests |-> FALSE]
    /\ UNCHANGED <<maps, pc, at, left, got, path, tbl, ans, res, panic, fit, nreqs>>

PortUp(p) ==
    /\ port[p] = None
    /\ \E o, q \in Fresh(Home[p]) :
         /\ o # q
         /\ port' = [port EXCEPT ![p] = o]
         /\ que' = [que EXCEPT ![p] = q]
         /\ used' = used \cup {<<Home[p], o>>, <<Home[p], q>>}
    /\ cfg' = cfg \cup {p}
    /\ UNCHANGED <<pfc, qos>>
    /\ Changed

PortDown(p) ==
    /\ port[p] # None
    /\ port' = [port EXCEPT ![p] = None]
    /\ que' = [que EXCEPT ![p] = None]
    /\ cfg' = cfg \ {p}
    /\ pfc' = pfc \ {p}
    /\ UNCHANGED <<qos, used>>
    /\ Changed

PfcUp(p) ==
    /\ port[p] # None /\ p \notin pfc
    /\ pfc' = pfc \cup {p}
    /\ UNCHANGED <<port, que, cfg, qos, used>>
    /\ Changed

QosChange(ns) ==
    /\ \E q \in {"none", "unset", "on"} \ {qos[ns]} : qos' = [qos EXCEPT ![ns] = q]
    /\ UNCHANGED <<port, que, cfg, pfc, used>>
    /\ Changed

-----------------------------------------------------------------------------
(* The name maps *)

NoMaps == [port |-> {}, que |-> {}, a2n |-> {}, n2a |-> {}, p2n |-> {}, pfc |-> {}]

\* The tests for an empty map in the four init functions.
Filled(i) == CASE i = 1 -> maps.port # {}
               [] i = 2 -> maps.que # {}
               [] i = 3 -> maps.a2n # {}
               [] i = 4 -> maps.pfc # {}

Named(f) == {<<p, f[p]>> : p \in {q \in Ports : f[q] # None}}

\* What reading namespace ns adds to the i-th map.
Content(i, ns) == CASE i = 1 -> {e \in Named(port) : Home[e[1]] = ns}
                    [] i = 2 -> {e \in Named(que) : Home[e[1]] = ns}
                    [] i = 3 -> {p \in cfg : Home[p] = ns}
                    [] i = 4 -> {p \in pfc : Home[p] = ns}

Goto(r, l) == pc' = [pc EXCEPT ![r] = l]

Finish(r, code) == Goto(r, "done") /\ res' = [res EXCEPT ![r] = code]

(***************************************************************************)
(* A path arrives: populateDbtablePath, or lookupGetFunc for OTHERS.       *)
(***************************************************************************)
Half(m, c) == m # {} /\ m # c

PfcEverywhere == \A ns \in RedisClients : Content(4, ns) # {} /\ qos[ns] = "on"

Warm == cfg # {} /\ maps.a2n = cfg /\ maps.n2a = cfg /\ maps.p2n = cfg

Filling(r) == pc[r] \in {"init", "read", "assign", "assign2", "assign3"}

\* A request begins with no other that fills maps, or with the alias maps
\* complete and such others as began so too, and no map is out of date.
Fit ==
    /\ \/ Warm /\ \A r \in Requests : Filling(r) => fit[r] /\ calm[r]
       \/ maps.a2n = {} /\ \A r \in Requests : ~Filling(r)
    /\ ~Half(maps.port, Named(port)) /\ ~Half(maps.que, Named(que))
    /\ ~Half(maps.pfc, IF PfcEverywhere THEN {<<p, que[p]>> : p \in pfc} ELSE {})

Request(r, a) ==
    /\ pc[r] \in {"idle", "done"}
    /\ nreqs < MaxRequests
    /\ nreqs' = nreqs + 1
    /\ path' = [path EXCEPT ![r] = a]
    /\ at' = [at EXCEPT ![r] = 1]
    /\ tbl' = [tbl EXCEPT ![r] = {}]
    /\ ans' = [ans EXCEPT ![r] = {}]
    /\ fit' = [q \in Requests |-> IF q = r THEN Fit ELSE fit[q] /\ (Filling(q) => maps.a2n # {})]
    /\ calm' = [calm EXCEPT ![r] = TRUE]
    /\ IF ~FromTarget(a.ns) THEN Finish(r, "NotFound")
       ELSE /\ Goto(r, IF a.elems[1] = "OTHERS" THEN "getter" ELSE "init")
            /\ res' = [res EXCEPT ![r] = "none"]
    /\ UNCHANGED <<redisVars, maps, left, got, panic, nchanges>>

\* One of the four init functions looks at its map.
InitMap(r) ==
    /\ pc[r] = "init"
    /\ IF at[r] = 5 THEN Goto(r, "lookup") /\ UNCHANGED <<at, left, got>>
       ELSE IF Filled(at[r])
            THEN at' = [at EXCEPT ![r] = @ + 1] /\ UNCHANGED <<pc, left, got>>
            ELSE /\ Goto(r, "read")
                 /\ left' = [left EXCEPT ![r] = RedisClients]
                 /\ got' = [got EXCEPT ![r] = {}]
                 /\ UNCHANGED at
    /\ UNCHANGED <<redisVars, maps, path, tbl, ans, res, panic, fit, calm, nreqs, nchanges>>

\* The result of a read that fails is nil, and is assigned as well.
Emptied(i) == CASE i = 1 -> [maps EXCEPT !.port = {}]
                [] i = 2 -> [maps EXCEPT !.que = {}]
                [] i = 3 -> [maps EXCEPT !.a2n = {}, !.n2a = {}, !.p2n = {}]
                [] i = 4 -> [maps EXCEPT !.pfc = {}]

Fails(r) ==
    /\ maps' = Emptied(at[r])
    /\ left' = [left EXCEPT ![r] = {}]
    /\ got' = [got EXCEPT ![r] = {}]
    /\ Finish(r, "NotFound")

\* getCountersMap and getAliasMap read one namespace after the other, in any
\* order.
ReadMap(r) ==
    /\ pc[r] = "read" /\ at[r] < 4
    /\ \E ns \in left[r] :
         IF ~Configured(ns) THEN panic' = TRUE /\ UNCHANGED <<left, got>>
         ELSE /\ left' = [left EXCEPT ![r] = @ \ {ns}]
              /\ got' = [got EXCEPT ![r] = @ \cup Content(at[r], ns)]
              /\ UNCHANGED panic
    /\ Goto(r, IF left'[r] = {} THEN "assign" ELSE "read")
    /\ UNCHANGED <<redisVars, maps, at, path, tbl, ans, res, fit, calm, nreqs, nchanges>>

\* getPfcwdMap: nothing at all if some namespace has no PFC_WD_TABLE row, or
\* no PORT_QOS_MAP row, or if the queue map is empty; an error if the first
\* PORT_QOS_MAP row has no pfc_enable or a port has no queue.
Unwatched(ns) == Content(4, ns) = {} \/ qos[ns] = "none"

ReadPfc(r) ==
    /\ pc[r] = "read" /\ at[r] = 4
    /\ \E ns \in left[r] :
         LET ports == {e[1] : e \in got[r]} \cup Content(4, ns)
             queueless == \E p \in ports : \A o \in Oids : <<p, o>> \notin maps.que IN
         CASE Unwatched(ns) \/ (qos[ns] # "unset" /\ maps.que = {}) ->
                /\ left' = [left EXCEPT ![r] = {}]
                /\ got' = [got EXCEPT ![r] = {}]
                /\ Goto(r, "assign") /\ UNCHANGED <<maps, res>>
           [] ~Unwatched(ns) /\ (qos[ns] = "unset" \/ (maps.que # {} /\ queueless)) ->
                Fails(r)
           [] OTHER ->
                /\ left' = [left EXCEPT ![r] = @ \ {ns}]
                /\ got' = [got EXCEPT ![r] = {e \in maps.que : e[1] \in ports}]
                /\ Goto(r, IF left'[r] = {} THEN "assign" ELSE "read")
                /\ UNCHANGED <<maps, res>>
    /\ UNCHANGED <<redisVars, at, path, tbl, ans, panic, fit, calm, nreqs, nchanges>>

\* Redis fails, or a PORT row goes between Keys and HGet.
ReadFails(r) ==
    /\ pc[r] = "read"
    /\ nchanges < MaxChanges
    /\ nchanges' = nchanges + 1
    /\ Fails(r)
    /\ calm' = [q \in Requests |-> FALSE]
    /\ UNCHANGED <<redisVars, at, path, tbl, ans, panic, fit, nreqs>>

\* The alias maps are three variables, assigned in turn.
Assigned(r) ==
    CASE at[r] = 1 -> [maps EXCEPT !.port = got[r]]
      [] at[r] = 2 -> [maps EXCEPT !.que = got[r]]
      [] at[r] = 3 /\ pc[r] = "assign" -> [maps EXCEPT !.a2n = got[r]]
      [] at[r] = 3 /\ pc[r] = "assign2" -> [maps EXCEPT !.n2a = got[r]]
      [] at[r] = 3 /\ pc[r] = "assign3" -> [maps EXCEPT !.p2n = got[r]]
      [] at[r] = 4 -> [maps EXCEPT !.pfc = got[r]]

Assign(r) ==
    /\ pc[r] \in {"assign", "assign2", "assign3"}
    /\ maps' = Assigned(r)
    /\ IF at[r] = 3 /\ pc[r] # "assign3"
       THEN Goto(r, IF pc[r] = "assign" THEN "assign2" ELSE "assign3") /\ UNCHANGED <<at, got>>
       ELSE /\ Goto(r, "init") /\ at' = [at EXCEPT ![r] = @ + 1]
            /\ got' = [got EXCEPT ![r] = {}]
    /\ UNCHANGED <<redisVars, left, path, tbl, ans, res, panic, fit, calm, nreqs,
                   nchanges>>

-----------------------------------------------------------------------------
(* Virtual paths *)

Key(r) == path[r].elems[2]

All(r) == Key(r) = "Ethernet*"

\* The port a key names, by its alias if alias2nameMap has it.
PortOf(k) == IF \E p \in maps.a2n : Alias[p] = k
             THEN CHOOSE p \in maps.a2n : Alias[p] = k ELSE k

\* port2namespaceMap[p], for a port that is in it.
Place(p) == Home[p]

Label(p) == IF p \in maps.n2a THEN Alias[p] ELSE p

TablePath(label, p, oid, fld) == [label |-> label, ns |-> Place(p), key |-> oid, field |-> fld]

\* One table path for each entry of a name map that the key stands for.
TablePaths(r, m, fld) ==
    {TablePath(IF All(r) THEN Label(e[1]) ELSE Key(r), e[1], e[2], fld) :
        e \in {x \in m : All(r) \/ x[1] = PortOf(Key(r))}}

\* All ports have a namespace; the one port of the key has one and an OID.
Placed(m) == \A e \in m : e[1] \in maps.p2n

Known(r) == /\ PortOf(Key(r)) \in maps.p2n
            /\ \E o \in Oids : <<PortOf(Key(r)), o>> \in maps.port

(***************************************************************************)
(* The four translators: whether they succeed, and the table paths.  The   *)
(* fields of many ports are shown under their names.                       *)
(***************************************************************************)
v2rEthPortStats(r) ==
    [ok |-> IF All(r) THEN Placed(maps.port) ELSE Known(r),
     paths |-> TablePaths(r, maps.port, "none")]

v2rEthPortFieldStats(r) ==
    [ok |-> IF All(r) THEN Placed(maps.port) ELSE Known(r),
     paths |-> TablePaths(r, maps.port, IF All(r) THEN "each" ELSE "one")]

v2rEthPortPfcwdStats(r) ==
    [ok |-> IF All(r) THEN Placed(maps.pfc) ELSE Known(r),
     paths |-> TablePaths(r, maps.pfc, "none")]

v2rEthPortQueStats(r) ==
    [ok |-> IF All(r) THEN Placed(maps.que) ELSE PortOf(Key(r)) \in maps.p2n,
     paths |-> TablePaths(r, maps.que, "none")]

LookupV2R(r, f) ==
    CASE f = "v2rEthPortStats" -> v2rEthPortStats(r)
      [] f = "v2rEthPortFieldStats" -> v2rEthPortFieldStats(r)
      [] f = "v2rEthPortPfcwdStats" -> v2rEthPortPfcwdStats(r)
      [] f = "v2rEthPortQueStats" -> v2rEthPortQueStats(r)
      [] OTHER -> [ok |-> FALSE, paths |-> {}]

\* populateDbtablePath with lookupV2R.  The separator is looked up before, in
\* the namespace of the target, and for queues in the default one.
Lookup(r) ==
    LET f == Find(V2R, <<"COUNTERS_DB">> \o path[r].elems)
        t == LookupV2R(r, f)
    IN
    /\ pc[r] = "lookup"
    /\ IF ~Configured(path[r].ns) \/ (f = "v2rEthPortQueStats" /\ ~Configured(Default))
       THEN panic' = TRUE /\ Finish(r, "panic") /\ UNCHANGED tbl
       ELSE /\ IF ~t.ok THEN Goto(r, "real") /\ UNCHANGED <<tbl, res>>
               ELSE IF HasNamespace(path[r]) THEN Finish(r, "NotFound") /\ UNCHANGED tbl
               ELSE /\ tbl' = [tbl EXCEPT ![r] = t.paths]
                    /\ Goto(r, "data") /\ UNCHANGED res
            /\ UNCHANGED panic
    /\ UNCHANGED <<redisVars, maps, at, left, got, path, ans, fit, calm, nreqs, nchanges>>

(***************************************************************************)
(* A path that is not virtual: a key of COUNTERS in the namespace asked    *)
(* for, or else a field of a hash COUNTERS, which does not exist; a fourth *)
(* element is a field of the key.  Exists is asked again before the path   *)
(* is taken.                                                               *)
(***************************************************************************)
IsRow(r) == Key(r) \in Oids /\ Owner(path[r].ns, Key(r)) # {}

RealPath(r) == [label |-> Key(r), ns |-> path[r].ns, key |-> Key(r),
                field |-> IF Len(path[r].elems) = 3 THEN "one" ELSE "none"]

RealLookup(r) ==
    /\ pc[r] = "real"
    /\ CASE Len(path[r].elems) > 3 -> Finish(r, "NotFound") /\ UNCHANGED tbl
         [] Len(path[r].elems) = 2 /\ ~IsRow(r) ->
              /\ tbl' = [tbl EXCEPT ![r] = {[RealPath(r) EXCEPT !.key = None, !.field = "one"]}]
              /\ Goto(r, "data") /\ UNCHANGED res
         [] OTHER -> Goto(r, "exists") /\ UNCHANGED <<tbl, res>>
    /\ UNCHANGED <<redisVars, maps, at, left, got, path, ans, panic, fit, calm, nreqs,
                   nchanges>>

RealExists(r) ==
    /\ pc[r] = "exists"
    /\ IF IsRow(r)
       THEN tbl' = [tbl EXCEPT ![r] = {RealPath(r)}] /\ Goto(r, "data") /\ UNCHANGED res
       ELSE Finish(r, "NotFound") /\ UNCHANGED tbl
    /\ UNCHANGED <<redisVars, maps, at, left, got, path, ans, panic, fit, calm, nreqs,
                   nchanges>>

-----------------------------------------------------------------------------
(* Reading *)

(***************************************************************************)
(* tableData2TypedValue, one table path after the other: a row that is     *)
(* gone is an empty object, or is left out if a field of many is asked     *)
(* for; the field of one that is gone is an error.  An ON_CHANGE routine   *)
(* looks at the first table path without asking whether there is one.      *)
(***************************************************************************)
Value(t) == {[label |-> t.label, of |-> o] : o \in Owner(t.ns, t.key)}

ReadData(r) ==
    /\ pc[r] = "data" /\ tbl[r] # {}
    /\ \E t \in tbl[r] :
         IF t.field = "one" /\ Owner(t.ns, t.key) = {}
         THEN Finish(r, "NotFound") /\ UNCHANGED <<tbl, ans>>
         ELSE /\ ans' = [ans EXCEPT ![r] = @ \cup Value(t)]
              /\ tbl' = [tbl EXCEPT ![r] = @ \ {t}]
              /\ IF tbl[r] = {t} THEN Finish(r, "OK") ELSE UNCHANGED <<pc, res>>
    /\ UNCHANGED <<redisVars, maps, at, left, got, path, panic, fit, calm, nreqs, nchanges>>

ReadNone(r) ==
    /\ pc[r] = "data" /\ tbl[r] = {}
    /\ panic' = (path[r].use = "onchange")
    /\ Finish(r, "OK")
    /\ UNCHANGED <<redisVars, maps, at, left, got, path, tbl, ans, fit, calm, nreqs, nchanges>>

LookupGetFunc(r) == Find(Getters, path[r].elems)

\* NonDbClient.Get: the error of a getter is logged and no more.
Getter(r) ==
    /\ pc[r] = "getter"
    /\ Finish(r, IF LookupGetFunc(r) = "none" THEN "NotFound" ELSE "OK")
    /\ UNCHANGED <<redisVars, maps, at, left, got, path, tbl, ans, panic, fit, calm, nreqs,
                   nchanges>>

-----------------------------------------------------------------------------

Init ==
    /\ \E b \in Boot :
         /\ port = [p \in Ports |-> IF p \in b.up THEN PortOid[p] ELSE None]
         /\ que = [p \in Ports |-> IF p \in b.up THEN QueOid[p] ELSE None]
         /\ cfg = b.up /\ pfc = b.pfc /\ qos = b.qos
         /\ used = UNION {{<<Home[p], PortOid[p]>>, <<Home[p], QueOid[p]>>} : p \in b.up}
    /\ maps = NoMaps
    /\ pc = [r \in Requests |-> "idle"] /\ at = [r \in Requests |-> 1]
    /\ left = [r \in Requests |-> {}] /\ got = [r \in Requests |-> {}]
    /\ path = [r \in Requests |-> CHOOSE a \in Paths[r] : TRUE]
    /\ tbl = [r \in Requests |-> {}] /\ ans = [r \in Requests |-> {}]
    /\ res = [r \in Requests |-> "none"] /\ panic = InitPanics
    /\ fit = [r \in Requests |-> FALSE] /\ calm = [r \in Requests |-> FALSE]
    /\ nreqs = 0 /\ nchanges = 0

Serve(r) ==
    \/ \E a \in Paths[r] : Request(r, a)
    \/ InitMap(r) \/ ReadMap(r) \/ ReadPfc(r) \/ ReadFails(r) \/ Assign(r)
    \/ Lookup(r) \/ RealLookup(r) \/ RealExists(r) \/ ReadData(r) \/ ReadNone(r)
    \/ Getter(r)

Next ==
    \/ \E r \in Requests : ~panic /\ Serve(r)
    \/ \E p \in Ports : PortUp(p) \/ PortDown(p) \/ PfcUp(p) \/ QosChange(Home[p])

Spec == Init /\ [][Next]_vars

-----------------------------------------------------------------------------
(* Properties *)

\* Every variable has its type.
TypeOK ==
    /\ port \in [Ports -> Oids \cup {None}] /\ que \in [Ports -> Oids \cup {None}]
    /\ cfg \subseteq Ports /\ pfc \subseteq cfg
    /\ qos \in [Range(Includes) \cup {Default} -> {"none", "unset", "on"}]
    /\ maps \in [port : SUBSET (Ports \X Oids), que : SUBSET (Ports \X Oids),
                 a2n : SUBSET Ports, n2a : SUBSET Ports, p2n : SUBSET Ports,
                 pfc : SUBSET (Ports \X Oids)]
    /\ at \in [Requests -> 1..5] /\ \A r \in Requests : path[r] \in Paths[r]
    /\ pc \in [Requests -> {"idle", "init", "read", "assign", "assign2", "assign3", "lookup",
                            "real", "exists", "data", "getter", "done"}]
    /\ res \in [Requests -> {"none", "OK", "NotFound", "panic"}]

\* findNode: the trie finds the function of the table entry that fits a path
\* level by level, an exact name before a wildcard, and finds nothing only if
\* no entry fits.
Fits(e, ks) ==
    /\ Len(e) = Len(ks)
    /\ \A i \in 1..Len(e) : e[i] = ks[i] \/ (e[i] \in Wildcards /\ HasPrefix(ks[i], e[i]))

Exacter(e, d, ks) ==
    \E i \in 1..Len(ks) : /\ e[i] = ks[i] /\ d[i] # ks[i]
                          /\ \A j \in 1..(i - 1) : e[j] = d[j]

TrieAgrees ==
    \A r \in {q \in Requests : pc[q] = "lookup"} :
        LET ks == <<"COUNTERS_DB">> \o path[r].elems
            fit0 == {e \in DOMAIN V2R : Fits(e, ks)}
            best == {e \in fit0 : \A d \in fit0 : ~Exacter(d, e, ks)}
        IN  IF fit0 = {} THEN Find(V2R, ks) = "none" ELSE Find(V2R, ks) \in {V2R[e] : e \in best}

Labelled(l) == IF \E p \in Ports : Alias[p] = l THEN CHOOSE p \in Ports : Alias[p] = l ELSE l

Kind(a) == IF a.elems[Len(a.elems)] \in {"Queues", "Pfcwd"} THEN "queue" ELSE "port"

\* populateDbtablePath and Get: counters shown under a port's name or alias
\* are that port's, of the kind asked for, although the OID comes from a map
\* that may be old, the namespace from another one, and OIDs repeat between
\* namespaces.  Holds while no OID is used again.
RightCounters ==
    \A r \in Requests : \A a \in ans[r] : a.label \in Oids \/
        a.of = [port |-> Labelled(a.label), kind |-> Kind(path[r])]

\* What a virtual path stands for.
Expected(a) ==
    LET S == IF a.elems[Len(a.elems)] = "Pfcwd" THEN pfc ELSE cfg
    IN  IF a.elems[2] = "Ethernet*" THEN {Alias[p] : p \in S}
        ELSE IF Labelled(a.elems[2]) \in S THEN {a.elems[2]} ELSE {}

\* getPfcwdMap finds a pfc_enable wherever it looks for one.
PfcReadable == \A ns \in RedisClients : Content(4, ns) # {} => qos[ns] # "unset"

Answered(r) == LET a == path[r] IN
    /\ pc[r] = "done" /\ calm[r] /\ PfcReadable
    /\ a.elems[1] = "COUNTERS" /\ a.ns = Default /\ IsPrefixed(a.elems[2])
    /\ Len(a.elems) < 4
    /\ a.elems[Len(a.elems)] = "Pfcwd" => pfc = {} \/ PfcEverywhere

\* initCountersPortNameMap and the other three: a request that begins alone,
\* or once the alias maps are complete and beside such requests only, is
\* answered with all that its path stands for, whether the OID maps are cold
\* or warm and whatever requests fill them meanwhile.  Holds while each first
\* PORT_QOS_MAP row has a pfc_enable: without one every request fails.
Resolves ==
    \A r \in Requests : Answered(r) /\ fit[r] =>
        IF Labelled(path[r].elems[2]) \in Ports \ cfg THEN res[r] # "OK" \/ ans[r] = {}
        ELSE res[r] = "OK" /\ {a.label : a \in ans[r]} = Expected(path[r])

\* As Resolves for every request.  Fails for one that joins another while the
\* maps are cold, and once a port comes up after the maps were filled.
ResolvesAlways ==
    \A r \in Requests : Answered(r) /\ Expected(path[r]) # {} =>
        res[r] = "OK" /\ {a.label : a \in ans[r]} = Expected(path[r])

\* As Resolves, whatever PORT_QOS_MAP holds.  Fails: initCountersPfcwdNameMap
\* runs for every path of COUNTERS_DB, and its error ends a request for
\* counters that have nothing to do with the watchdog.
ResolvesAnyQos ==
    \A r \in Requests : fit[r] /\ calm[r] /\ pc[r] = "done" /\ Key(r) = "Ethernet*"
                         /\ path[r].ns = Default /\ Len(path[r].elems) = 2 => res[r] = "OK"

\* Nothing dereferences a nil client, a missing configuration or the first of
\* no table paths.
NoPanic == ~panic
=============================================================================
