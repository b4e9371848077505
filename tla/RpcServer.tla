------------------------------ MODULE RpcServer ------------------------------
(***************************************************************************)
(* The unary RPCs of the gNMI server (gnmi_server/server.go), the gNOI and *)
(* JWT services (gnoi.go), authentication (jwtAuth.go, basicAuth.go,       *)
(* clientCertAuth.go, pamAuth.go, common_utils/context.go), the handlers   *)
(* that pass a request on to translib (transl_utils.go, Get, Set and       *)
(* Capabilities of transl_data_client.go), the start of the program        *)
(* (telemetry.go) and what gnoi_client asks of it.                         *)
(*                                                                         *)
(* A call is one RPC in its own goroutine; a slot of Calls serves one call *)
(* after the other.  Translib, sshd, the user data base and syslog are     *)
(* external.  A translib object is the set of calls whose fields it holds. *)
(* Time is counted in the seconds of a token's expiry.  Get of the DB and  *)
(* of the non-DB client is in PathResolution.                              *)
(***************************************************************************)
EXTENDS Naturals, SequencesExt

CONSTANTS Calls,          \* slots for RPCs in progress
          Users, NoUser,  \* user names; none given
          RoleSets,       \* sets of groups a user may be in, none of them empty
          Paths,          \* translib paths
          Absent,         \* an object that does not exist
          Loads,          \* what a behaviour may meet
          JwtValidInt, JwtRefreshInt,
          MaxCalls,       \* bound: calls
          DialFails       \* whether syslog may be out of reach

Modes == {"password", "jwt", "cert"}

\* What a client sends: an RPC, the name and whether the password is right
\* (metadata, or the body of Authenticate), whether it presents a token, the
\* name in its verified certificate, whether its bundle version, an extension
\* of gNMI messages, is malformed and, for Get and Set, the paths.  A Get that
\* is not valid has another type, an encoding other than JSON, or no target.
RequestType ==
    [rpc : {"Get", "Set", "Capabilities", "Subscribe", "System", "Time",
            "Action", "Authenticate", "Refresh"},
     user : Users \cup {NoUser}, good : BOOLEAN, token : BOOLEAN,
     cert : Users \cup {NoUser}, badver : BOOLEAN, valid : BOOLEAN,
     get : SUBSET Paths, delete : Seq(Paths), replace : Seq(Paths),
     update : Seq(Paths)]

\* How the server is started: by main or by a program that uses the package,
\* the modes of client_auth and whether it is given, TLS, ca_crt, and whether
\* the build has READ_WRITE_MODE.
LaunchType ==
    [by : {"main", "library"}, auth : Seq(Modes \cup {"none"}), given : BOOLEAN,
     tls : BOOLEAN, ca : BOOLEAN, rw : BOOLEAN]

\* What a behaviour may meet: slots for calls, requests of gNMI clients, users
\* that gnoi_client is run by, ways the server is started, and bounds on the
\* time, on starts of the process and on changes of the users' groups.
LoadType ==
    [slots : SUBSET Calls, requests : SUBSET RequestType, cli : SUBSET Users,
     launches : SUBSET LaunchType, time : Nat, starts : Nat, changes : Nat]

ASSUME RpcAssumption ==
    /\ NoUser \notin Users
    /\ \A S \in SUBSET Calls : Absent # S
    /\ {} \notin RoleSets /\ RoleSets # {}
    /\ \A l \in Loads :
          /\ l \in LoadType
          /\ \A r \in l.requests :
                r.badver => r.rpc \in {"Get", "Set", "Subscribe", "Capabilities"}
    /\ DialFails \in BOOLEAN
    /\ JwtValidInt \in Nat /\ JwtRefreshInt \in Nat
    /\ MaxCalls \in Nat

VARIABLES
    load,      \* what this behaviour meets
    up,        \* the process runs
    readWrite, \* READ_WRITE_MODE of the build
    wanted,    \* history: the modes that main worked out
    userAuth,  \* Server.config.UserAuth: the modes that are set
    key,       \* hmacSampleSecret: 0, or the number of the start that made it
    starts,    \* starts of the process
    now,       \* time
    roles,     \* groups of each user; {} if the host does not know the user
    config,    \* what translib has stored under each path
    tokens,    \* tokens that clients hold
    writer,    \* the audit log's connection to syslog: "nil" or "open"
    panic,     \* a nil Writer has been used
    ncalls,    \* calls made
    changes,   \* changes of roles
    pc,        \* control point of a call
    req, tok,  \* its request and the token it presents
    rc,        \* RequestContext: user, roles, enabled
    todo,      \* entries left for the audit log
    res,       \* status code the call returns
    born,      \* history: when the call began
    asked,     \* history: identities under which it called translib
    applied,   \* history: operations translib carried out for it
    passed,    \* history: users who passed Authenticate since the key was made
    audit      \* history: entries the call wrote to the audit log

srvVars  == <<up, readWrite, wanted, userAuth, key, starts>>
envVars  == <<load, now, roles, changes>>
dataVars == <<config, tokens, passed>>
logVars  == <<writer, panic, audit>>
idVars   == <<req, tok, born, ncalls>>
vars == <<load, up, readWrite, wanted, userAuth, key, starts, now, roles, changes, config,
          tokens, passed, writer, panic, audit, req, tok, born, ncalls, pc, rc, todo, res, asked,
          applied>>

NoToken == [user |-> NoUser, roles |-> {}, exp |-> 0, key |-> 0]

NoContext == [user |-> NoUser, roles |-> {}, enabled |-> FALSE]

NoRequest == [rpc |-> "Time", user |-> NoUser, good |-> FALSE, token |-> FALSE,
              cert |-> NoUser, badver |-> FALSE, valid |-> TRUE, get |-> {},
              delete |-> <<>>, replace |-> <<>>, update |-> <<>>]

-----------------------------------------------------------------------------
(* Faults, for mutation testing *)

PopulatedKeep(c, u, r) == IF rc[c].user = NoUser           \* the first name stays
                          THEN [rc[c] EXCEPT !.user = u, !.roles = r] ELSE rc[c]
NewKeySame(l) == IF l.tls THEN 1 ELSE 0                     \* a key fixed at build
EntriesOk(ops, out) == [i \in 1..Len(ops) |-> [op |-> ops[i], ok |-> TRUE]]
PathsLeftFirst(c) == IF applied[c] = <<>> THEN req[c].get ELSE {}  \* return in the loop

-----------------------------------------------------------------------------
(* The program *)

(***************************************************************************)
(* AuthTypes.Set: modes are set one after the other up to "none", which    *)
(* overrides all others.  AnyAuth and Enabled read the result.             *)
(***************************************************************************)
SetAuth(ms) == {ms[i] : i \in {j \in 1..Len(ms) : \A k \in 1..(j - 1) : ms[k] # "none"}}

AnyAuth(m) == "none" \notin m /\ m # {}

Enabled(m, x) == "none" \notin m /\ x \in m

(***************************************************************************)
(* main: the modes it works out (the default in read-write mode is         *)
(* password and jwt; cert needs ca_crt) and those that reach NewServer:    *)
(* they are put into a second cfg, local to the block, which is dropped.   *)
(* A program that uses the package hands over its own.                     *)
(***************************************************************************)
MainAuth(l) ==
    LET m == IF l.given THEN SetAuth(l.auth)
             ELSE IF l.rw THEN {"password", "jwt"} ELSE {}
    IN  IF l.tls /\ ~l.ca /\ Enabled(m, "cert") THEN m \ {"cert"} ELSE m

ServerAuth(l) == IF l.by = "main" THEN {} ELSE SetAuth(l.auth)

NewKey(l) == IF l.tls THEN starts + 1 ELSE 0

Start(l) ==
    /\ ~up
    /\ starts < load.starts
    /\ up' = TRUE
    /\ starts' = starts + 1
    /\ readWrite' = l.rw
    /\ wanted' = MainAuth(l)
    /\ userAuth' = ServerAuth(l)
    /\ key' = NewKey(l)
    /\ passed' = {}
    /\ UNCHANGED <<envVars, config, tokens, logVars, idVars, pc, rc, todo, res,
                   asked, applied>>

(***************************************************************************)
(* The process ends.  Its memory and the calls in progress are gone; the   *)
(* configuration and the clients' tokens stay.                             *)
(***************************************************************************)
Crash ==
    /\ up
    /\ up' = FALSE
    /\ pc' = [c \in Calls |-> "idle"]
    /\ res' = [c \in Calls |-> "none"]
    /\ asked' = [c \in Calls |-> {}]
    /\ applied' = [c \in Calls |-> <<>>]
    /\ audit' = [c \in Calls |-> <<>>]
    /\ todo' = [c \in Calls |-> <<>>]
    /\ writer' = "nil"
    /\ UNCHANGED <<readWrite, wanted, userAuth, key, starts, envVars, dataVars, panic,
                   idVars, rc>>

-----------------------------------------------------------------------------
(* Calls *)

(***************************************************************************)
(* What gnoi_client asks: one RPC of the System, Sonic or JWT service,     *)
(* with a token as its only metadata if one is given.                      *)
(***************************************************************************)
Creds(r) == {r, [r EXCEPT !.token = TRUE]}     \* setUserCreds

CliSystem == Creds([NoRequest EXCEPT !.rpc = "Time"])

CliSonic == Creds([NoRequest EXCEPT !.rpc = "Action"])

CliJwt == Creds([NoRequest EXCEPT !.rpc = "Refresh"])
          \cup UNION {{[NoRequest EXCEPT !.rpc = "Authenticate", !.user = u, !.good = g] :
                          g \in BOOLEAN} : u \in load.cli}

CliRequests == CliSystem \cup CliSonic \cup CliJwt

Registered(r) == readWrite \/ r.rpc \notin {"System", "Time", "Action"}

(***************************************************************************)
(* authenticate tries the modes in the order password, jwt, cert: the      *)
(* first enabled one from the i-th on, or none.                            *)
(***************************************************************************)
Methods == <<"password", "jwt", "cert">>

Method(i) ==
    LET left == {j \in i..3 : Enabled(userAuth, Methods[j])}
    IN  IF left = {} THEN "done"
        ELSE Methods[CHOOSE j \in left : \A k \in left : j <= k]

(***************************************************************************)
(* A call arrives.  It ends at once if its service is not registered, if   *)
(* the request does not decode or if Set meets read-only mode.             *)
(***************************************************************************)
Return(c, code) == pc' = [pc EXCEPT ![c] = "done"] /\ res' = [res EXCEPT ![c] = code]

\* The handlers of the generated code end a call whose request does not
\* decode.  The stream of Subscribe is decoded by recv.
DecodeFails(c, r) == r.rpc # "Subscribe" /\ Return(c, "Internal")

Invoke(c, r, t) ==
    /\ up
    /\ pc[c] \in {"idle", "done"}
    /\ ncalls < MaxCalls
    /\ ncalls' = ncalls + 1
    /\ req' = [req EXCEPT ![c] = r]
    /\ tok' = [tok EXCEPT ![c] = t]
    /\ born' = [born EXCEPT ![c] = now]
    /\ asked' = [asked EXCEPT ![c] = {}]
    /\ applied' = [applied EXCEPT ![c] = <<>>]
    /\ audit' = [audit EXCEPT ![c] = <<>>]
    /\ todo' = [todo EXCEPT ![c] = <<>>]
    /\ rc' = [rc EXCEPT ![c] = [NoContext EXCEPT !.enabled = AnyAuth(userAuth)]]
    /\ IF ~Registered(r) \/ (r.rpc = "Set" /\ ~readWrite)
       THEN Return(c, "Unimplemented")
       ELSE \/ DecodeFails(c, r)
            \/ /\ pc' = [pc EXCEPT ![c] = IF r.rpc = "Authenticate" \/ ~AnyAuth(userAuth)
                                          THEN "body" ELSE Method(1)]
               /\ res' = [res EXCEPT ![c] = "none"]
    /\ UNCHANGED <<srvVars, envVars, dataVars, writer, panic>>

\* user.Lookup and GetUserRoles.
Known(u) == roles[u] # {}

(***************************************************************************)
(* PopulateAuthStruct: name and groups go into the request's context.  The *)
(* user must be known to the host, unless the groups are given.            *)
(***************************************************************************)
Populated(c, u, r) == [rc[c] EXCEPT !.user = u, !.roles = r]

\* The i-th mode has failed: on to the next, or Unauthenticated.
NextMethod(c, i) ==
    /\ pc' = [pc EXCEPT ![c] = Method(i + 1)]
    /\ res' = [res EXCEPT ![c] = IF Method(i + 1) = "done" THEN "Unauthenticated" ELSE @]

Success(c) == pc' = [pc EXCEPT ![c] = "body"] /\ UNCHANGED res

BasicAuthenAndAuthor(c) ==
    LET u == req[c].user IN
    /\ pc[c] = "password"
    /\ IF u \in Users /\ Known(u)
       THEN /\ rc' = [rc EXCEPT ![c] = Populated(c, u, roles[u])]
            /\ pc' = [pc EXCEPT ![c] = "check"]
            /\ UNCHANGED res
       ELSE NextMethod(c, 1) /\ UNCHANGED rc
    /\ UNCHANGED <<srvVars, envVars, dataVars, logVars, idVars, todo, asked, applied>>

\* UserPwAuth: a login on the host's sshd.
UserPwAuth(c) ==
    /\ pc[c] = "check" /\ req[c].rpc # "Authenticate"
    /\ \/ req[c].good /\ Success(c)
       \/ NextMethod(c, 1)
    /\ UNCHANGED <<srvVars, envVars, dataVars, logVars, idVars, rc, todo, asked,
                   applied>>

(***************************************************************************)
(* jwt.ParseWithClaims: the signature and the expiry of a token.           *)
(***************************************************************************)
Verifies(t) == t.key = key /\ now <= t.exp

ClaimedRoles(t) == IF t.roles = {} THEN roles[t.user] ELSE t.roles

JwtOk(c) == tok[c] # NoToken /\ Verifies(tok[c]) /\ (tok[c].roles = {} => Known(tok[c].user))

JwtAuthenAndAuthor(c) ==
    /\ pc[c] = "jwt"
    /\ IF JwtOk(c)
       THEN /\ rc' = [rc EXCEPT ![c] = Populated(c, tok[c].user, ClaimedRoles(tok[c]))]
            /\ Success(c)
       ELSE NextMethod(c, 2) /\ UNCHANGED rc
    /\ UNCHANGED <<srvVars, envVars, dataVars, logVars, idVars, todo, asked, applied>>

ClientCertAuthenAndAuthor(c) ==
    LET u == req[c].cert IN
    /\ pc[c] = "cert"
    /\ IF u \in Users /\ Known(u)
       THEN /\ rc' = [rc EXCEPT ![c] = Populated(c, u, roles[u])]
            /\ Success(c)
       ELSE NextMethod(c, 3) /\ UNCHANGED rc
    /\ UNCHANGED <<srvVars, envVars, dataVars, logVars, idVars, todo, asked, applied>>

-----------------------------------------------------------------------------
(* The JWT service *)

(***************************************************************************)
(* tokenResp and generateJWT.                                              *)
(***************************************************************************)
Token(u, r) == [user |-> u, roles |-> r, exp |-> now + JwtValidInt, key |-> key]

Issue(c, u, r) == tokens' = tokens \cup {Token(u, r)} /\ Return(c, "OK")

(***************************************************************************)
(* Authenticate, which no mode guards: password, then the user's groups.   *)
(***************************************************************************)
AuthenticateCheck(c) ==
    /\ pc[c] = "body" /\ req[c].rpc = "Authenticate"
    /\ IF Enabled(userAuth, "jwt")
       THEN pc' = [pc EXCEPT ![c] = "check"] /\ UNCHANGED res
       ELSE Return(c, "Unimplemented")
    /\ UNCHANGED <<srvVars, envVars, dataVars, logVars, idVars, rc, todo, asked, applied>>

Authenticate(c) ==
    LET u == req[c].user IN
    /\ pc[c] = "check" /\ req[c].rpc = "Authenticate"
    /\ \/ /\ req[c].good /\ u \in Users /\ Known(u)
          /\ Issue(c, u, roles[u])
          /\ passed' = passed \cup {u}
       \/ Return(c, "PermissionDenied") /\ UNCHANGED <<tokens, passed>>
    /\ UNCHANGED <<srvVars, envVars, config, logVars, idVars, rc, todo, asked, applied>>

(***************************************************************************)
(* Refresh: the token must verify, whatever let the call in, and be about  *)
(* to expire.  The new one has the name and groups of the old.             *)
(***************************************************************************)
RefreshCheck(c) ==
    /\ pc[c] = "body" /\ req[c].rpc = "Refresh"
    /\ CASE ~Enabled(userAuth, "jwt") -> Return(c, "Unimplemented") /\ UNCHANGED rc
         [] Enabled(userAuth, "jwt") /\ ~JwtOk(c) ->
                Return(c, "Unauthenticated") /\ UNCHANGED rc
         [] OTHER -> /\ rc' = [rc EXCEPT ![c] =
                                  Populated(c, tok[c].user, ClaimedRoles(tok[c]))]
                     /\ pc' = [pc EXCEPT ![c] = "refresh"]
                     /\ UNCHANGED res
    /\ UNCHANGED <<srvVars, envVars, dataVars, logVars, idVars, todo, asked, applied>>

Refresh(c) ==
    /\ pc[c] = "refresh"
    /\ IF tok[c].exp > now + JwtRefreshInt
       THEN Return(c, "InvalidArgument") /\ UNCHANGED tokens
       ELSE Issue(c, tok[c].user, tok[c].roles)
    /\ UNCHANGED <<srvVars, envVars, config, passed, logVars, idVars, rc, todo, asked,
                   applied>>

-----------------------------------------------------------------------------
(* Handlers that read or write through translib *)

(***************************************************************************)
(* The identity a translib request carries.                                *)
(***************************************************************************)
Identity(c) == rc[c]

Ask(c) == asked' = [asked EXCEPT ![c] = @ \cup {Identity(c)}]

(***************************************************************************)
(* Get: the paths are read in any order until one fails.                   *)
(***************************************************************************)
PathsLeft(c) == {p \in req[c].get : [op |-> "get", path |-> p] \notin Range(applied[c])}

Get(c) ==
    /\ pc[c] = "body" /\ req[c].rpc = "Get"
    /\ CASE ~req[c].valid ->
              Return(c, "Unimplemented") /\ UNCHANGED <<asked, applied>>
         [] req[c].valid /\ PathsLeft(c) = {} ->
              Return(c, "OK") /\ UNCHANGED <<asked, applied>>
         [] req[c].valid /\ PathsLeft(c) # {} /\ req[c].badver ->
              Return(c, "NotFound") /\ UNCHANGED <<asked, applied>>
         [] OTHER ->
              /\ Ask(c)
              /\ \/ Return(c, "NotFound") /\ UNCHANGED applied
                 \/ /\ \E p \in PathsLeft(c) :
                          applied' = [applied EXCEPT
                              ![c] = Append(@, [op |-> "get", path |-> p])]
                    /\ UNCHANGED <<pc, res>>
    /\ UNCHANGED <<srvVars, envVars, dataVars, logVars, idVars, rc, todo>>

(***************************************************************************)
(* Subscribe goes on in SubscribeSession; Run takes the context of the     *)
(* stream, which authenticate has not filled, so translib is asked with a  *)
(* new one, unless the bundle version is malformed.                        *)
(***************************************************************************)
SubscribeRead(c) ==
    /\ pc[c] = "body" /\ req[c].rpc = "Subscribe"
    /\ asked' = [asked EXCEPT ![c] = IF req[c].badver THEN @ ELSE @ \cup {NoContext}]
    /\ Return(c, "OK")
    /\ UNCHANGED <<srvVars, envVars, dataVars, logVars, idVars, rc, todo, applied>>

\* The models and versions of translib, whatever version is asked for.
Capabilities(c) ==
    /\ pc[c] = "body" /\ req[c].rpc = "Capabilities"
    /\ Return(c, "OK")
    /\ UNCHANGED <<srvVars, envVars, dataVars, logVars, idVars, rc, todo, asked, applied>>

\* The gNOI System service: all but Time are not implemented.
SystemRpc(c) ==
    /\ pc[c] = "body"
    /\ \/ req[c].rpc = "Time" /\ Return(c, "OK")
       \/ req[c].rpc = "System" /\ Return(c, "Unimplemented")
    /\ UNCHANGED <<srvVars, envVars, dataVars, logVars, idVars, rc, todo, asked, applied>>

(***************************************************************************)
(* Set: deletes, replaces and updates, in this order.  More than one go to *)
(* translib.Bulk.                                                          *)
(***************************************************************************)
Ops(kind, ps) == [i \in 1..Len(ps) |-> [op |-> kind, path |-> ps[i]]]

SetOps(r) == Ops("delete", r.delete) \o Ops("replace", r.replace) \o Ops("update", r.update)

Stored(c, cfg, o) ==
    [cfg EXCEPT ![o.path] = CASE o.op = "delete" -> Absent
                              [] o.op = "replace" -> {c}
                              [] o.op = "update" -> IF @ = Absent THEN {c} ELSE @ \cup {c}]

Carry(c, ops) ==
    /\ config' = FoldLeft(LAMBDA cfg, o : Stored(c, cfg, o), config, ops)
    /\ applied' = [applied EXCEPT ![c] = @ \o ops]

SetNothing(c) ==
    /\ pc[c] = "body" /\ req[c].rpc = "Set"
    /\ IF req[c].badver /\ SetOps(req[c]) # <<>> THEN Return(c, "Unknown")
       ELSE SetOps(req[c]) = <<>> /\ Return(c, "OK")
    /\ UNCHANGED <<srvVars, envVars, dataVars, logVars, idVars, rc, todo, asked, applied>>

\* TranslProcessDelete, TranslProcessReplace and TranslProcessUpdate, which
\* replaces an object that translib.Update does not find.
SetOne(c) ==
    LET o == SetOps(req[c])[1] IN
    /\ pc[c] = "body" /\ req[c].rpc = "Set" /\ ~req[c].badver
    /\ Len(SetOps(req[c])) = 1
    /\ Ask(c)
    /\ \/ Return(c, "Unknown") /\ UNCHANGED <<config, applied>>
       \/ /\ o.op = "update" /\ config[o.path] = Absent
          /\ pc' = [pc EXCEPT ![c] = "fallback"]
          /\ UNCHANGED <<config, applied, res>>
       \/ /\ o.op # "update" \/ config[o.path] # Absent
          /\ Carry(c, <<o>>) /\ Return(c, "OK")
    /\ UNCHANGED <<srvVars, envVars, tokens, passed, logVars, idVars, rc, todo>>

SetFallback(c) ==
    LET o == SetOps(req[c])[1] IN
    /\ pc[c] = "fallback"
    /\ Ask(c)
    /\ \/ Return(c, "Unknown") /\ UNCHANGED <<config, applied>>
       \/ /\ config' = Stored(c, config, [o EXCEPT !.op = "replace"])
          /\ applied' = [applied EXCEPT ![c] = Append(@, o)]
          /\ Return(c, "OK")
    /\ UNCHANGED <<srvVars, envVars, tokens, passed, logVars, idVars, rc, todo>>

(***************************************************************************)
(* TranslProcessBulk and TranslProcessAction call translib and log every   *)
(* outcome.  out[i] is whether the i-th operation succeeded; a bulk that   *)
(* translib refuses as a whole has no outcomes.                            *)
(***************************************************************************)
Entries(ops, out) == [i \in 1..Len(ops) |-> [op |-> ops[i], ok |-> out[i]]]

Failed(out) == \E i \in DOMAIN out : ~out[i]

\* A set of numbers as an increasing list.
InOrder(S) == {f \in [1..Cardinality(S) -> S] : \A i, j \in DOMAIN f : i < j => f[i] < f[j]}

Logging(c) == pc' = [pc EXCEPT ![c] = "audit"]

SetBulk(c) ==
    LET ops == SetOps(req[c]) IN
    /\ pc[c] = "body" /\ req[c].rpc = "Set" /\ ~req[c].badver
    /\ Len(ops) > 1
    /\ Ask(c)
    /\ \/ Return(c, "Unknown") /\ UNCHANGED <<config, applied, todo>>
       \/ \E out \in [1..Len(ops) -> BOOLEAN] :
            /\ \E f \in InOrder({i \in 1..Len(ops) : out[i]}) :
                  Carry(c, [i \in DOMAIN f |-> ops[f[i]]])
            /\ todo' = [todo EXCEPT ![c] = Entries(ops, out)]
            /\ res' = [res EXCEPT ![c] = IF Failed(out) THEN "Unknown" ELSE "OK"]
            /\ Logging(c)
    /\ UNCHANGED <<srvVars, envVars, tokens, passed, logVars, idVars, rc>>

TheAction == [op |-> "action", path |-> "rpc"]

\* An action may be carried out and its answer not decode.
Action(c) ==
    /\ pc[c] = "body" /\ req[c].rpc = "Action"
    /\ Ask(c)
    /\ \E ok, readable \in BOOLEAN :
         /\ applied' = [applied EXCEPT ![c] = IF ok THEN <<TheAction>> ELSE <<>>]
         /\ todo' = [todo EXCEPT ![c] = Entries(<<TheAction>>, <<ok>>)]
         /\ res' = [res EXCEPT ![c] = IF ok /\ readable THEN "OK" ELSE "Unknown"]
    /\ Logging(c)
    /\ UNCHANGED <<srvVars, envVars, dataVars, logVars, idVars, rc>>

-----------------------------------------------------------------------------
(* __log_audit_msg, by calls that share Writer without a lock *)

WriterMissing == writer = "nil"

AuditNext(c) ==
    /\ pc[c] = "audit"
    /\ pc' = [pc EXCEPT ![c] = IF todo[c] = <<>> THEN "done"
                               ELSE IF WriterMissing THEN "dial" ELSE "write"]
    /\ UNCHANGED <<srvVars, envVars, dataVars, logVars, idVars, rc, todo, res, asked,
                   applied>>

\* syslog.Dial; its result is assigned to Writer, nil after an error.
AuditDial(c) ==
    /\ pc[c] = "dial"
    /\ \/ /\ writer' = "open"
          /\ pc' = [pc EXCEPT ![c] = "write"]
          /\ UNCHANGED todo
       \/ /\ DialFails
          /\ writer' = "nil"
          /\ pc' = [pc EXCEPT ![c] = "audit"]
          /\ todo' = [todo EXCEPT ![c] = Tail(@)]
    /\ UNCHANGED <<srvVars, envVars, dataVars, panic, audit, idVars, rc, res, asked,
                   applied>>

AuditWrite(c) ==
    /\ pc[c] = "write"
    /\ IF writer = "nil"
       THEN panic' = TRUE /\ UNCHANGED <<audit, todo>>
       ELSE /\ audit' = [audit EXCEPT ![c] = Append(@, [user |-> rc[c].user, entry |-> Head(todo[c])])]
            /\ todo' = [todo EXCEPT ![c] = Tail(@)]
            /\ UNCHANGED panic
    /\ pc' = [pc EXCEPT ![c] = "audit"]
    /\ UNCHANGED <<srvVars, envVars, dataVars, writer, idVars, rc, res, asked, applied>>

-----------------------------------------------------------------------------
(* The environment *)

Tick ==
    /\ now < load.time
    /\ now' = now + 1
    /\ UNCHANGED <<srvVars, load, roles, changes, dataVars, logVars, idVars, pc, rc, todo, res,
                   asked, applied>>

\* The host's administrator changes a user's groups or removes the user.
ChangeRoles ==
    /\ changes < load.changes
    /\ changes' = changes + 1
    /\ \E u \in Users, r \in RoleSets \cup {{}} : roles' = [roles EXCEPT ![u] = r]
    /\ UNCHANGED <<srvVars, load, now, dataVars, logVars, idVars, pc, rc, todo, res, asked,
                   applied>>

-----------------------------------------------------------------------------

Init ==
    /\ load \in Loads
    /\ up = FALSE /\ readWrite = FALSE /\ wanted = {} /\ userAuth = {} /\ key = 0 /\ starts = 0
    /\ now = 0 /\ roles \in [Users -> RoleSets] /\ changes = 0
    /\ config = [p \in Paths |-> Absent] /\ tokens = {} /\ passed = {}
    /\ writer = "nil" /\ panic = FALSE /\ audit = [c \in Calls |-> <<>>]
    /\ req = [c \in Calls |-> NoRequest] /\ tok = [c \in Calls |-> NoToken]
    /\ born = [c \in Calls |-> 0] /\ ncalls = 0
    /\ pc = [c \in Calls |-> "idle"] /\ rc = [c \in Calls |-> NoContext]
    /\ todo = [c \in Calls |-> <<>>] /\ res = [c \in Calls |-> "none"]
    /\ asked = [c \in Calls |-> {}] /\ applied = [c \in Calls |-> <<>>]

Call(c) ==
    \/ \E r \in load.requests \cup CliRequests :
         \E t \in (IF r.token THEN tokens ELSE {NoToken}) : Invoke(c, r, t)
    \/ BasicAuthenAndAuthor(c) \/ UserPwAuth(c)
    \/ JwtAuthenAndAuthor(c) \/ ClientCertAuthenAndAuthor(c)
    \/ AuthenticateCheck(c) \/ Authenticate(c) \/ RefreshCheck(c) \/ Refresh(c)
    \/ Get(c) \/ SubscribeRead(c) \/ Capabilities(c) \/ SystemRpc(c)
    \/ SetNothing(c) \/ SetOne(c) \/ SetFallback(c) \/ SetBulk(c) \/ Action(c)
    \/ AuditNext(c) \/ AuditDial(c) \/ AuditWrite(c)

Next ==
    \/ \E l \in load.launches : Start(l)
    \/ Crash
    \/ \E c \in load.slots : Call(c)
    \/ Tick
    \/ ChangeRoles

Spec == Init /\ [][Next]_vars

-----------------------------------------------------------------------------
(* Properties *)

\* Every variable has its type.
TypeOK ==
    /\ load \in Loads /\ up \in BOOLEAN /\ readWrite \in BOOLEAN
    /\ wanted \subseteq Modes \cup {"none"} /\ userAuth \subseteq Modes \cup {"none"}
    /\ starts \in 0..load.starts /\ key \in 0..starts
    /\ now \in 0..load.time /\ roles \in [Users -> RoleSets \cup {{}}] /\ changes \in Nat
    /\ \A p \in Paths : config[p] = Absent \/ config[p] \subseteq Calls
    /\ tokens \subseteq [user : Users, roles : RoleSets, exp : Nat, key : 0..starts]
    /\ passed \subseteq Users
    /\ writer \in {"nil", "open"} /\ panic \in BOOLEAN
    /\ req \in [Calls -> load.requests \cup CliRequests \cup {NoRequest}]
    /\ tok \in [Calls -> tokens \cup {NoToken}]
    /\ born \in [Calls -> 0..now] /\ ncalls \in 0..MaxCalls
    /\ rc \in [Calls -> [user : Users \cup {NoUser}, roles : RoleSets \cup {{}},
                         enabled : BOOLEAN]]
    /\ pc \in [Calls -> {"idle", "password", "check", "jwt", "cert", "body", "refresh",
                         "fallback", "audit", "dial", "write", "done"}]

\* The users that call c has shown itself to be: by the password or the
\* certificate it gives, or by a token that was good when it began and goes
\* back to a password that its user gave since the key was made.
Credentials(c) ==
    {u \in Users :
        \/ Enabled(userAuth, "password") /\ u = req[c].user /\ req[c].good
        \/ Enabled(userAuth, "cert") /\ u = req[c].cert
        \/ /\ Enabled(userAuth, "jwt") /\ u = tok[c].user /\ born[c] <= tok[c].exp
           /\ key # 0 => u \in passed}

\* authenticate and the handlers: when a mode is enabled, whatever a unary
\* RPC asks of translib is asked for a user the caller has shown itself to
\* be, with authorisation switched on, whichever modes failed before and
\* whatever other calls, refreshes and restarts went on.
Attributed ==
    \A c \in Calls : req[c].rpc # "Subscribe" =>
        \A a \in asked[c] :
            IF AnyAuth(userAuth) THEN a.enabled /\ a.user \in Credentials(c)
            ELSE ~a.enabled /\ a.user = NoUser

\* As Attributed, for Subscribe as well.  Run hands the stream's own context
\* to NewTranslClient (client_subscribe.go:76, 130), so this fails.
SubscribeAttributed ==
    \A c \in Calls : \A a \in asked[c] : AnyAuth(userAuth) => a.enabled

\* Authenticate, Refresh and GenerateJwtSecretKey: a token that this process
\* would accept goes back, through any number of refreshes, to a password
\* given to this process.
TokensRooted ==
    \A t \in tokens : key # 0 /\ t.key = key => t.user \in passed

\* The codes of a call that is turned away.
RefusedCodes == {"Unimplemented", "Internal", "Unauthenticated", "PermissionDenied",
                 "InvalidArgument"}

\* Get, Set and the actions: a call that is turned away, or whose bundle
\* version is malformed, has had no effect; one that reports success has read
\* every path, or had every operation carried out in the order delete,
\* replace, update.
Truthful ==
    \A c \in Calls : pc[c] = "done" =>
        /\ res[c] \in RefusedCodes \/ req[c].badver => asked[c] = {} /\ applied[c] = <<>>
        /\ res[c] = "OK" /\ req[c].rpc = "Set" => applied[c] = SetOps(req[c])
        /\ res[c] = "OK" /\ req[c].rpc = "Get" =>
              \A p \in req[c].get : [op |-> "get", path |-> p] \in Range(applied[c])
        /\ res[c] = "OK" /\ req[c].rpc = "Action" => applied[c] = <<TheAction>>

\* __log_audit_msg: no call uses a nil Writer, although all share it without
\* a lock.  Fails: a Dial that fails puts nil into a Writer that another call
\* has just opened.
AuditSafe == ~panic

\* The calls that log what they do: actions, and a Set of several operations.
LogsAll(c) ==
    \/ req[c].rpc = "Action"
    \/ req[c].rpc = "Set" /\ Len(SetOps(req[c])) > 1

\* TranslProcessBulk and TranslProcessAction: what translib carried out for a
\* call is in the audit log, in its order and under the call's user, once the
\* call returns; what failed is not logged as a success.
AuditComplete ==
    \A c \in Calls :
        pc[c] = "done" /\ LogsAll(c) =>
            /\ \E f \in InOrder({i \in DOMAIN audit[c] : audit[c][i].entry.ok}) :
                  applied[c] = [i \in DOMAIN f |-> audit[c][f[i]].entry.op]
            /\ \A i \in DOMAIN audit[c] : audit[c][i].user = rc[c].user

\* main: the server uses the modes that main worked out; in a read-write
\* build without client_auth these are password and jwt (telemetry.go:38).
\* They are put into a second cfg that NewServer never sees.
AuthAsWanted == up => userAuth = wanted

\* TranslProcessUpdate: the update of a call leaves in place what other calls
\* have stored.  Fails when the object is created between Update and Replace.
UpdateKeeps ==
    [][\A c \in Calls : pc[c] = "fallback" /\ pc'[c] = "done" =>
        \A p \in Paths : config[p] # Absent =>
            config'[p] # Absent /\ config[p] \subseteq config'[p]]_vars
=============================================================================
