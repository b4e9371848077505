--------------------------- MODULE RpcServerProofs ---------------------------
(***************************************************************************)
(* Proofs for RpcServer, for any number of calls, users, tokens, restarts  *)
(* and requests: what a unary RPC asks of translib it asks as a user it    *)
(* has shown itself to be, a token goes back to a password given to this   *)
(* process, a call's status tells what it did, and the shared Writer is    *)
(* not used while it is nil.                                               *)
(***************************************************************************)
EXTENDS RpcServer, FiniteSetTheorems, TLAPS

-----------------------------------------------------------------------------
(* The inductive invariant *)

\* The types of what the proofs speak of.
Codes == {"idle", "password", "check", "jwt", "cert", "body", "refresh", "fallback", "audit",
          "dial", "write", "done"}

Context == [user : Users \cup {NoUser}, roles : RoleSets \cup {{}}, enabled : BOOLEAN]

TokenType(n) == [user : Users, roles : RoleSets, exp : Nat, key : 0..n]

Types ==
    /\ load \in Loads
    /\ starts \in Nat /\ key \in 0..starts /\ now \in Nat
    /\ roles \in [Users -> RoleSets \cup {{}}]
    /\ tokens \subseteq TokenType(starts)
    /\ req \in [Calls -> RequestType]
    /\ tok \in [Calls -> tokens \cup {NoToken}]
    /\ born \in [Calls -> 0..now]
    /\ rc \in [Calls -> Context]
    /\ pc \in [Calls -> Codes]
    /\ DOMAIN res = Calls /\ DOMAIN asked = Calls /\ DOMAIN applied = Calls

\* No call is in progress while the process is down.
Quiet == ~up => \A c \in Calls : pc[c] = "idle" /\ asked[c] = {}

\* A call that authenticate has let in carries an identity it has shown, and
\* authorisation is on if there is anything to show.
Shown(c, a) ==
    IF AnyAuth(userAuth) THEN a.enabled /\ a.user \in Credentials(c)
    ELSE ~a.enabled /\ a.user = NoUser

\* How far authenticate has come with call c.
Admitted(c) ==
    /\ pc[c] \in {"password", "jwt", "cert"} => Enabled(userAuth, pc[c])
    /\ pc[c] = "check" /\ req[c].rpc # "Authenticate" =>
          Enabled(userAuth, "password") /\ rc[c].user = req[c].user /\ req[c].user \in Users
    /\ pc[c] \in {"password", "check", "jwt", "cert", "body", "refresh", "fallback"} =>
          (rc[c].enabled <=> AnyAuth(userAuth))
    /\ pc[c] \in {"body", "fallback"} /\ req[c].rpc # "Authenticate" => Shown(c, rc[c])
    /\ pc[c] = "fallback" => req[c].rpc = "Set"
    /\ pc[c] = "refresh" => tok[c] \in tokens /\ tok[c].key = key
    /\ req[c].rpc # "Subscribe" => \A a \in asked[c] : Shown(c, a)

\* Call c has asked translib for nothing.
Untouched(c) == asked[c] = {} /\ applied[c] = <<>>

\* A call that is to report success has had its operations carried out.
Carried(c) ==
    /\ res[c] = "OK" /\ req[c].rpc = "Set" => applied[c] = SetOps(req[c])
    /\ res[c] = "OK" /\ req[c].rpc = "Action" => applied[c] = <<TheAction>>

\* How far the handler of call c has come.
Handled(c) ==
    /\ req[c].badver => req[c].rpc \in {"Get", "Set", "Subscribe", "Capabilities"}
    /\ pc[c] \in {"password", "check", "jwt", "cert", "refresh"} => Untouched(c)
    /\ pc[c] = "refresh" => req[c].rpc = "Refresh"
    /\ pc[c] = "body" /\ (req[c].rpc # "Get" \/ ~req[c].valid \/ req[c].badver) => Untouched(c)
    /\ pc[c] = "fallback" =>
          /\ req[c].rpc = "Set" /\ ~req[c].badver /\ Len(SetOps(req[c])) = 1
          /\ applied[c] = <<>>
    /\ pc[c] \in {"audit", "dial", "write"} =>
          /\ req[c].rpc \in {"Set", "Action"} /\ ~req[c].badver
          /\ res[c] \in {"OK", "Unknown"} /\ Carried(c)
    /\ pc[c] = "done" =>
        /\ res[c] \in RefusedCodes \/ req[c].badver => Untouched(c)
        /\ Carried(c)
        /\ res[c] = "OK" /\ req[c].rpc = "Get" =>
              \A p \in req[c].get : [op |-> "get", path |-> p] \in Range(applied[c])

\* Writer is open where a call is about to use it.
WriterOpen ==
    /\ writer \in {"nil", "open"}
    /\ ~DialFails => ~panic /\ \A c \in Calls : pc[c] = "write" => writer = "open"

IInv ==
    /\ Types
    /\ Quiet
    /\ TokensRooted
    /\ \A c \in Calls : Admitted(c)
    /\ \A c \in Calls : Handled(c)
    /\ WriterOpen

\* The operations of a Set, and what the audit log holds of one or of an
\* action.
Operation == [op : {"delete", "replace", "update"}, path : Paths]

Entry == [op : Operation \cup {TheAction}, ok : BOOLEAN]

Line == [user : Users \cup {NoUser}, entry : Entry]

\* What call c has logged, and then what it has still to log.
Log(c) == [i \in 1..Len(audit[c]) |-> audit[c][i].entry] \o todo[c]

\* The log tells what translib carried out, in its order.
Records(ops, log) ==
    \E f \in InOrder({i \in DOMAIN log : log[i].ok}) : ops = [i \in DOMAIN f |-> log[f[i]].op]

\* How far call c has come with its entries for the audit log.
Logged(c) ==
    /\ audit[c] \in Seq(Line) /\ todo[c] \in Seq(Entry)
    /\ pc[c] \notin {"audit", "dial", "write", "done"} => audit[c] = <<>> /\ todo[c] = <<>>
    /\ pc[c] \in {"audit", "dial", "write"} => Records(applied[c], Log(c))
    /\ pc[c] \in {"dial", "write"} => todo[c] # <<>>
    /\ pc[c] = "done" /\ LogsAll(c) => todo[c] = <<>> /\ Records(applied[c], Log(c))
    /\ \A i \in DOMAIN audit[c] : audit[c][i].user = rc[c].user

AuditInv ==
    /\ DOMAIN audit = Calls /\ DOMAIN todo = Calls
    /\ \A c \in Calls : Logged(c)

\* A step of a call that is in progress.
Authenticates(c) ==
    \/ BasicAuthenAndAuthor(c) \/ UserPwAuth(c)
    \/ JwtAuthenAndAuthor(c) \/ ClientCertAuthenAndAuthor(c)
    \/ AuthenticateCheck(c) \/ RefreshCheck(c)

Issues(c) == Authenticate(c) \/ Refresh(c)

Handles(c) ==
    \/ Get(c) \/ SubscribeRead(c) \/ Capabilities(c) \/ SystemRpc(c)
    \/ SetNothing(c) \/ SetOne(c) \/ SetFallback(c) \/ SetBulk(c) \/ Action(c)

Audits(c) == AuditNext(c) \/ AuditDial(c) \/ AuditWrite(c)

Serves(c) == Authenticates(c) \/ Issues(c) \/ Handles(c) \/ Audits(c)

Arrives(c) == \E r \in load.requests \cup CliRequests :
                  \E t \in (IF r.token THEN tokens ELSE {NoToken}) : Invoke(c, r, t)

-----------------------------------------------------------------------------
(* Requests and methods *)

\* What clients and gnoi_client send are requests; only gNMI messages carry a
\* bundle version.
LEMMA RequestFacts ==
    ASSUME load \in Loads
    PROVE  /\ load.slots \subseteq Calls
           /\ \A r \in load.requests \cup CliRequests :
                 /\ r \in RequestType
                 /\ r.badver => r.rpc \in {"Get", "Set", "Subscribe", "Capabilities"}
<1>1. load \in LoadType /\ \A r \in load.requests :
          r.badver => r.rpc \in {"Get", "Set", "Subscribe", "Capabilities"}
  BY RpcAssumption
<1>2. load.slots \subseteq Calls /\ load.requests \subseteq RequestType /\ load.cli \subseteq Users
  BY <1>1 DEF LoadType
<1>3. NoRequest \in RequestType
  <2>1. <<>> \in Seq(Paths)
    OBVIOUS
  <2>. QED  BY <2>1 DEF NoRequest, RequestType
<1>4. ASSUME NEW r \in CliRequests
      PROVE  r \in RequestType /\ ~r.badver
  <2>1. CASE r \in CliSystem \cup CliSonic \cup Creds([NoRequest EXCEPT !.rpc = "Refresh"])
    <3>1. PICK x \in {"Time", "Action", "Refresh"} : r \in Creds([NoRequest EXCEPT !.rpc = x])
      BY <2>1 DEF CliSystem, CliSonic
    <3> DEFINE q == [NoRequest EXCEPT !.rpc = x]
    <3>2. q \in RequestType /\ ~q.badver
      BY <1>3 DEF RequestType, NoRequest
    <3>3. r = q \/ r = [q EXCEPT !.token = TRUE]
      BY <3>1 DEF Creds
    <3> HIDE DEF q
    <3>. QED  BY <3>2, <3>3 DEF RequestType
  <2>2. CASE r \notin CliSystem \cup CliSonic \cup Creds([NoRequest EXCEPT !.rpc = "Refresh"])
    <3>1. PICK u \in Users, g \in BOOLEAN :
              r = [NoRequest EXCEPT !.rpc = "Authenticate", !.user = u, !.good = g]
      BY <1>2, <2>2, ZenonT(40) DEF CliRequests, CliJwt
    <3>. QED  BY <1>3, <3>1 DEF RequestType, NoRequest
  <2>. QED  BY <2>1, <2>2
<1>. QED  BY <1>1, <1>2, <1>4

\* authenticate goes on to a mode that is enabled, or ends.
LEMMA MethodFacts ==
    ASSUME NEW i \in 1..4
    PROVE  \/ Method(i) = "done"
           \/ Method(i) \in {"password", "jwt", "cert"} /\ Enabled(userAuth, Method(i))
<1> DEFINE left == {j \in i..3 : Enabled(userAuth, Methods[j])}
           j0 == CHOOSE j \in left : \A k \in left : j <= k
<1>1. CASE left = {}
  BY <1>1 DEF Method
<1>2. CASE left # {}
  <2>1. left \subseteq {1, 2, 3}
    OBVIOUS
  <2>2. \E j \in left : \A k \in left : j <= k
    <3>1. CASE 1 \in left
      BY <2>1, <3>1
    <3>2. CASE 1 \notin left /\ 2 \in left
      BY <2>1, <3>2
    <3>3. CASE 1 \notin left /\ 2 \notin left
      BY <1>2, <2>1, <3>3
    <3>. QED  BY <3>1, <3>2, <3>3
  <2>3. j0 \in left
    <3> HIDE DEF left
    <3>. QED  BY <2>2
  <2>4. Method(i) = Methods[j0]
    BY <1>2 DEF Method
  <2>5. j0 \in {1, 2, 3} /\ Enabled(userAuth, Methods[j0])
    BY <2>1, <2>3
  <2>6. Methods[j0] \in {"password", "jwt", "cert"}
    <3> HIDE DEF j0
    <3>. QED  BY <2>5 DEF Methods
  <2>. QED  BY <2>4, <2>5, <2>6
<1>. QED  BY <1>1, <1>2

-----------------------------------------------------------------------------
(* What a step leaves alone *)

\* A step of call c leaves the other calls, the server and the environment
\* alone.
Alone(c) ==
    /\ UNCHANGED <<srvVars, envVars, idVars>>
    /\ \A d \in Calls \ {c} :
          /\ pc'[d] = pc[d] /\ rc'[d] = rc[d] /\ res'[d] = res[d]
          /\ asked'[d] = asked[d] /\ applied'[d] = applied[d]
    /\ DOMAIN res' = Calls /\ DOMAIN asked' = Calls /\ DOMAIN applied' = Calls

\* A step of a call changes nothing of another call, nor anything that is not
\* a call's own, the tokens apart.
LEMMA ServesAlone ==
    ASSUME Types, NEW c \in Calls, Serves(c)
    PROVE  Alone(c)
<1> USE DEF Types, Return, NextMethod, Success, Logging, Issue, Carry, Ask, Alone, dataVars, logVars
<1>1. CASE BasicAuthenAndAuthor(c) \/ UserPwAuth(c)
  BY <1>1 DEF BasicAuthenAndAuthor, UserPwAuth
<1>2. CASE JwtAuthenAndAuthor(c) \/ ClientCertAuthenAndAuthor(c)
  BY <1>2 DEF JwtAuthenAndAuthor, ClientCertAuthenAndAuthor
<1>3. CASE AuthenticateCheck(c)
  BY <1>3 DEF AuthenticateCheck
<1>4. CASE RefreshCheck(c)
  BY <1>4 DEF RefreshCheck
<1>5. CASE Issues(c)
  BY <1>5 DEF Issues, Authenticate, Refresh
<1>6. CASE Get(c)
  BY <1>6 DEF Get
<1>7. CASE SubscribeRead(c) \/ Capabilities(c) \/ SystemRpc(c) \/ SetNothing(c)
  BY <1>7 DEF SubscribeRead, Capabilities, SystemRpc, SetNothing
<1>8. CASE SetOne(c)
  BY <1>8 DEF SetOne
<1>9. CASE SetFallback(c)
  BY <1>9 DEF SetFallback
<1>10. CASE SetBulk(c)
  BY <1>10 DEF SetBulk
<1>11. CASE Action(c)
  BY <1>11 DEF Action
<1>12. CASE Audits(c)
  BY <1>12 DEF Audits, AuditNext, AuditDial, AuditWrite
<1>. QED  BY <1>1, <1>2, <1>3, <1>4, <1>5, <1>6, <1>7, <1>8, <1>9, <1>10, <1>11, <1>12
          DEF Serves, Authenticates, Handles

-----------------------------------------------------------------------------
(* Types *)

\* What Populated makes of a context is one, for a user the host knows or the
\* user of a token.
LEMMA PopulatedType ==
    ASSUME Types, NEW c \in Calls, NEW u \in Users, NEW r \in RoleSets \cup {{}}
    PROVE  Populated(c, u, r) \in Context /\ Populated(c, u, r).user = u
           /\ Populated(c, u, r).enabled = rc[c].enabled
<1>1. rc[c] \in Context
  BY DEF Types
<1>. QED  BY <1>1 DEF Populated, Context

\* The token of a call is one that was issued, or none.
LEMMA TokenFacts ==
    ASSUME Types, NEW c \in Calls, tok[c] # NoToken
    PROVE  /\ tok[c] \in tokens
           /\ tok[c].user \in Users /\ tok[c].roles \in RoleSets /\ tok[c].exp \in Nat
           /\ ClaimedRoles(tok[c]) \in RoleSets \cup {{}}
<1>1. tok[c] \in tokens /\ tok[c] \in TokenType(starts)
  BY DEF Types
<1>2. tok[c].user \in Users /\ tok[c].roles \in RoleSets /\ tok[c].exp \in Nat
  BY <1>1 DEF TokenType
<1>3. roles[tok[c].user] \in RoleSets \cup {{}}
  BY <1>2 DEF Types
<1>. QED  BY <1>1, <1>2, <1>3 DEF ClaimedRoles

\* A call's context stays one: its user is a user of the system or nobody.
LEMMA ServesContext ==
    ASSUME Types, NEW c \in Calls, Serves(c)
    PROVE  rc' \in [Calls -> Context]
<1>1. rc \in [Calls -> Context] /\ roles \in [Users -> RoleSets \cup {{}}]
  BY DEF Types
<1>2. CASE BasicAuthenAndAuthor(c)
  <2>1. CASE UNCHANGED rc
    BY <1>1, <2>1
  <2>2. CASE /\ req[c].user \in Users
             /\ rc' = [rc EXCEPT ![c] = Populated(c, req[c].user, roles[req[c].user])]
    BY <1>1, <2>2, PopulatedType
  <2>. QED  BY <1>2, <2>1, <2>2 DEF BasicAuthenAndAuthor
<1>3. CASE ClientCertAuthenAndAuthor(c)
  <2>1. CASE UNCHANGED rc
    BY <1>1, <2>1
  <2>2. CASE /\ req[c].cert \in Users
             /\ rc' = [rc EXCEPT ![c] = Populated(c, req[c].cert, roles[req[c].cert])]
    BY <1>1, <2>2, PopulatedType
  <2>. QED  BY <1>3, <2>1, <2>2 DEF ClientCertAuthenAndAuthor
<1>4. CASE JwtAuthenAndAuthor(c) \/ RefreshCheck(c)
  <2>1. CASE UNCHANGED rc
    BY <1>1, <2>1
  <2>2. CASE /\ tok[c] # NoToken
             /\ rc' = [rc EXCEPT ![c] = Populated(c, tok[c].user, ClaimedRoles(tok[c]))]
    BY <1>1, <2>2, TokenFacts, PopulatedType
  <2>3. \/ UNCHANGED rc
        \/ /\ tok[c] # NoToken
           /\ rc' = [rc EXCEPT ![c] = Populated(c, tok[c].user, ClaimedRoles(tok[c]))]
    BY <1>4 DEF JwtAuthenAndAuthor, RefreshCheck, JwtOk
  <2>. QED  BY <2>1, <2>2, <2>3
<1>5. CASE UserPwAuth(c) \/ AuthenticateCheck(c) \/ Issues(c) \/ Handles(c) \/ Audits(c)
  <2>1. UNCHANGED rc
    BY <1>5 DEF UserPwAuth, AuthenticateCheck, Issues, Authenticate, Refresh, Handles, Get,
                SubscribeRead, Capabilities, SystemRpc, SetNothing, SetOne, SetFallback, SetBulk,
                Action, Audits, AuditNext, AuditDial, AuditWrite
  <2>. QED  BY <1>1, <2>1
<1>. QED  BY <1>2, <1>3, <1>4, <1>5 DEF Serves, Authenticates

\* A call goes from one control point of its handler to another.
LEMMA ServesCodes ==
    ASSUME Types, NEW c \in Calls, Serves(c)
    PROVE  pc' \in [Calls -> Codes]
<1> USE DEF Return, Success, Logging, Issue, Codes
<1>1. pc \in [Calls -> Codes]
  BY DEF Types
<1>2. \A i \in 1..4 : Method(i) \in Codes
  BY MethodFacts
<1>3. CASE BasicAuthenAndAuthor(c) \/ UserPwAuth(c)
  BY <1>1, <1>2, <1>3 DEF BasicAuthenAndAuthor, UserPwAuth, NextMethod
<1>4. CASE JwtAuthenAndAuthor(c) \/ ClientCertAuthenAndAuthor(c)
  BY <1>1, <1>2, <1>4 DEF JwtAuthenAndAuthor, ClientCertAuthenAndAuthor, NextMethod
<1>5. CASE AuthenticateCheck(c) \/ RefreshCheck(c) \/ Issues(c)
  BY <1>1, <1>5 DEF AuthenticateCheck, RefreshCheck, Issues, Authenticate, Refresh
<1>6. CASE Handles(c)
  BY <1>1, <1>6 DEF Handles, Get, SubscribeRead, Capabilities, SystemRpc, SetNothing, SetOne,
                    SetFallback, SetBulk, Action
<1>7. CASE Audits(c)
  BY <1>1, <1>7 DEF Audits, AuditNext, AuditDial, AuditWrite
<1>. QED  BY <1>3, <1>4, <1>5, <1>6, <1>7 DEF Serves, Authenticates

\* The tokens that Authenticate and Refresh issue, signed with this process's
\* key; no other step makes one.
LEMMA ServesTokens ==
    ASSUME Types, NEW c \in Calls, Admitted(c), Serves(c)
    PROVE  /\ tokens \subseteq tokens' /\ tokens' \subseteq TokenType(starts)
           /\ passed \subseteq passed'
           /\ \A t \in tokens' \ tokens :
                 \/ t.user \in passed'
                 \/ pc[c] = "refresh" /\ t.user = tok[c].user
<1>1. tokens \subseteq TokenType(starts)
  BY DEF Types
<1>2. CASE UNCHANGED <<tokens, passed>>
  BY <1>1, <1>2
<1>3. CASE Authenticate(c)
  <2>1. CASE /\ req[c].user \in Users /\ Known(req[c].user)
             /\ Issue(c, req[c].user, roles[req[c].user])
             /\ passed' = passed \cup {req[c].user}
    <3>1. roles[req[c].user] \in RoleSets
      BY <2>1 DEF Known, Types
    <3>2. Token(req[c].user, roles[req[c].user]) \in TokenType(starts)
      BY <2>1, <3>1, RpcAssumption DEF Token, TokenType, Types
    <3>3. Token(req[c].user, roles[req[c].user]).user = req[c].user
      BY DEF Token
    <3>. QED  BY <1>1, <2>1, <3>2, <3>3 DEF Issue
  <2>. QED  BY <1>2, <1>3, <2>1 DEF Authenticate
<1>4. CASE Refresh(c)
  <2>1. UNCHANGED passed /\ pc[c] = "refresh"
    BY <1>4 DEF Refresh
  <2>2. CASE Issue(c, tok[c].user, tok[c].roles)
    <3>1. tok[c] # NoToken
      <4>1. tok[c] \in TokenType(starts)
        BY <1>1, <2>1 DEF Admitted
      <4>. QED  BY <4>1, RpcAssumption DEF TokenType, NoToken
    <3>2. Token(tok[c].user, tok[c].roles) \in TokenType(starts)
      BY <3>1, TokenFacts, RpcAssumption DEF Token, TokenType, Types
    <3>3. Token(tok[c].user, tok[c].roles).user = tok[c].user
      BY DEF Token
    <3>. QED  BY <1>1, <2>1, <2>2, <3>2, <3>3 DEF Issue
  <2>. QED  BY <1>2, <1>4, <2>1, <2>2 DEF Refresh
<1>5. CASE Authenticates(c) \/ Handles(c) \/ Audits(c)
  <2>1. UNCHANGED <<tokens, passed>>
    BY <1>5 DEF dataVars, Authenticates, BasicAuthenAndAuthor, UserPwAuth, JwtAuthenAndAuthor,
                ClientCertAuthenAndAuthor, AuthenticateCheck, RefreshCheck, Handles, Get,
                SubscribeRead, Capabilities, SystemRpc, SetNothing, SetOne, SetFallback, SetBulk,
                Action, Audits, AuditNext, AuditDial, AuditWrite
  <2>. QED  BY <1>2, <2>1
<1>. QED  BY <1>3, <1>4, <1>5 DEF Serves, Issues

-----------------------------------------------------------------------------
(* Authentication *)

\* A call keeps what it has shown: other calls only add tokens and users that
\* have passed, and its own handler asks as the user of its context.
LEMMA AdmittedKept ==
    ASSUME NEW d \in Calls, Admitted(d), UNCHANGED <<userAuth, key>>,
           req'[d] = req[d], tok'[d] = tok[d], born'[d] = born[d], rc'[d] = rc[d],
           passed \subseteq passed', tokens \subseteq tokens',
           \/ pc'[d] = pc[d] \/ pc'[d] \in {"done", "audit", "dial", "write"}
           \/ pc[d] = "body" /\ pc'[d] = "fallback" /\ req[d].rpc = "Set",
           \/ asked'[d] = asked[d] \/ req[d].rpc = "Subscribe"
           \/ /\ asked'[d] = asked[d] \cup {rc[d]}
              /\ pc[d] \in {"body", "fallback"} /\ req[d].rpc # "Authenticate"
    PROVE  Admitted(d)'
<1>1. Credentials(d) \subseteq Credentials(d)'
  BY DEF Credentials
<1>2. \A a : Shown(d, a) => Shown(d, a)'
  BY <1>1 DEF Shown
<1>3. Shown(d, rc[d]) => Shown(d, rc[d])'
  BY <1>1 DEF Shown
<1>4. (req[d].rpc # "Subscribe" => \A a \in asked[d] : Shown(d, a))'
  BY <1>2, <1>3 DEF Admitted
<1>5. (pc[d] \in {"body", "fallback"} /\ req[d].rpc # "Authenticate" => Shown(d, rc[d]))'
  BY <1>3 DEF Admitted
<1>6. (pc[d] = "fallback" => req[d].rpc = "Set")'
  BY DEF Admitted
<1>7. (pc[d] \in {"password", "check", "jwt", "cert", "body", "refresh", "fallback"} =>
          (rc[d].enabled <=> AnyAuth(userAuth)))'
  BY DEF Admitted
<1>. QED  BY <1>4, <1>5, <1>6, <1>7 DEF Admitted

\* A call that goes from one mode of authenticate to another, or is refused.
LEMMA NextMethodAdmitted ==
    ASSUME Types, NEW c \in Calls, Admitted(c), UNCHANGED <<userAuth, key, req, tok, born, passed>>,
           rc'[c] = rc[c], asked'[c] = asked[c], NEW i \in 1..3, NextMethod(c, i),
           pc[c] \in {"password", "check", "jwt", "cert"}
    PROVE  Admitted(c)'
<1>1. pc'[c] = Method(i + 1) /\ i + 1 \in 1..4
  BY DEF NextMethod, Types
<1>2. pc'[c] = "done" \/ (pc'[c] \in {"password", "jwt", "cert"} /\ Enabled(userAuth, pc'[c]))
  BY <1>1, MethodFacts
<1>3. rc[c].enabled <=> AnyAuth(userAuth)
  BY DEF Admitted
<1>4. \A a : Shown(c, a)' <=> Shown(c, a)
  BY DEF Shown, Credentials
<1>5. (req[c].rpc # "Subscribe" => \A a \in asked[c] : Shown(c, a))'
  BY <1>4 DEF Admitted
<1>. QED  BY <1>2, <1>3, <1>5 DEF Admitted

\* A call that authenticate lets in as user u.
LEMMA SuccessAdmitted ==
    ASSUME Types, NEW c \in Calls, Admitted(c), UNCHANGED <<userAuth, key, req, tok, born, passed>>,
           pc[c] \in {"password", "check", "jwt", "cert"}, Success(c), asked'[c] = asked[c],
           AnyAuth(userAuth), rc'[c].enabled = rc[c].enabled, rc'[c].user \in Credentials(c)
    PROVE  Admitted(c)'
<1>1. pc'[c] = "body"
  BY DEF Success, Types
<1>2. rc'[c].enabled <=> AnyAuth(userAuth)
  BY DEF Admitted
<1>3. \A a : Shown(c, a)' <=> Shown(c, a)
  BY DEF Shown, Credentials
<1>4. (req[c].rpc # "Subscribe" => \A a \in asked[c] : Shown(c, a))'
  BY <1>3 DEF Admitted
<1>5. Shown(c, rc[c])'
  BY <1>2 DEF Shown, Credentials
<1>. QED  BY <1>1, <1>2, <1>4, <1>5 DEF Admitted

\* If one mode is enabled, some mode is.
LEMMA EnabledIsAuth ==
    ASSUME NEW x \in Modes, Enabled(userAuth, x)
    PROVE  AnyAuth(userAuth)
BY DEF Enabled, AnyAuth

\* authenticate lets a call go on only with an identity it has shown.
LEMMA AuthenticatesAdmitted ==
    ASSUME Types, TokensRooted, NEW c \in Calls, Admitted(c), Authenticates(c)
    PROVE  Admitted(c)'
<1>1. Alone(c)
  BY ServesAlone DEF Serves
<1>2. UNCHANGED <<userAuth, key, req, tok, born>>
  BY <1>1 DEF Alone, srvVars, idVars
<1>3. UNCHANGED <<passed, asked, tokens>>
  BY DEF Authenticates, BasicAuthenAndAuthor, UserPwAuth, JwtAuthenAndAuthor,
         ClientCertAuthenAndAuthor, AuthenticateCheck, RefreshCheck, dataVars
<1>4. CASE BasicAuthenAndAuthor(c)
  <2> DEFINE u == req[c].user
  <2>1. CASE u \in Users /\ Known(u)
    <3>1. rc'[c] = Populated(c, u, roles[u]) /\ pc'[c] = "check"
      BY <1>4, <2>1 DEF BasicAuthenAndAuthor, Types
    <3>2. rc'[c].user = u /\ rc'[c].enabled = rc[c].enabled
      <4>1. roles[u] \in RoleSets \cup {{}}
        BY <2>1 DEF Types
      <4>. QED  BY <2>1, <3>1, <4>1, PopulatedType
    <3>3. Enabled(userAuth, "password") /\ (rc[c].enabled <=> AnyAuth(userAuth))
      BY <1>4 DEF BasicAuthenAndAuthor, Admitted
    <3>4. \A a : Shown(c, a)' <=> Shown(c, a)
      BY <1>2, <1>3 DEF Shown, Credentials
    <3>5. (req[c].rpc # "Subscribe" => \A a \in asked[c] : Shown(c, a))'
      BY <1>2, <1>3, <3>4 DEF Admitted
    <3>. QED  BY <1>2, <2>1, <3>1, <3>2, <3>3, <3>5 DEF Admitted
  <2>2. CASE ~(u \in Users /\ Known(u))
    BY <1>2, <1>3, <1>4, <2>2, NextMethodAdmitted DEF BasicAuthenAndAuthor
  <2>. QED  BY <2>1, <2>2
<1>5. CASE UserPwAuth(c)
  <2>1. CASE req[c].good /\ Success(c)
    <3>1. rc[c].user \in Credentials(c) /\ AnyAuth(userAuth) /\ UNCHANGED rc
      BY <1>5, <2>1, EnabledIsAuth DEF UserPwAuth, Admitted, Credentials, Modes
    <3>. QED  BY <1>2, <1>3, <1>5, <2>1, <3>1, SuccessAdmitted DEF UserPwAuth
  <2>2. CASE NextMethod(c, 1)
    BY <1>2, <1>3, <1>5, <2>2, NextMethodAdmitted DEF UserPwAuth
  <2>. QED  BY <1>5, <2>1, <2>2 DEF UserPwAuth
<1>6. CASE JwtAuthenAndAuthor(c)
  <2>1. CASE JwtOk(c)
    <3>1. tok[c] # NoToken /\ tok[c].key = key /\ now <= tok[c].exp
      BY <2>1 DEF JwtOk, Verifies
    <3>2. tok[c] \in tokens /\ tok[c].user \in Users /\ tok[c].exp \in Nat
      BY <3>1, TokenFacts
    <3>3. born[c] <= tok[c].exp
      <4>1. born[c] \in 0..now /\ now \in Nat
        BY DEF Types
      <4>. QED  BY <3>1, <3>2, <4>1
    <3>4. key # 0 => tok[c].user \in passed
      BY <3>1, <3>2 DEF TokensRooted
    <3>5. Enabled(userAuth, "jwt") /\ AnyAuth(userAuth)
      BY <1>6, EnabledIsAuth DEF JwtAuthenAndAuthor, Admitted, Modes
    <3>6. tok[c].user \in Credentials(c)
      BY <3>2, <3>3, <3>4, <3>5 DEF Credentials
    <3>7. rc'[c] = Populated(c, tok[c].user, ClaimedRoles(tok[c])) /\ Success(c)
      BY <1>6, <2>1 DEF JwtAuthenAndAuthor, Types
    <3>8. rc'[c].user = tok[c].user /\ rc'[c].enabled = rc[c].enabled
      BY <3>1, <3>7, TokenFacts, PopulatedType
    <3>. QED  BY <1>2, <1>3, <1>6, <3>5, <3>6, <3>7, <3>8, SuccessAdmitted DEF JwtAuthenAndAuthor
  <2>2. CASE ~JwtOk(c)
    BY <1>2, <1>3, <1>6, <2>2, NextMethodAdmitted DEF JwtAuthenAndAuthor
  <2>. QED  BY <2>1, <2>2
<1>7. CASE ClientCertAuthenAndAuthor(c)
  <2> DEFINE u == req[c].cert
  <2>1. CASE u \in Users /\ Known(u)
    <3>1. rc'[c] = Populated(c, u, roles[u]) /\ Success(c)
      BY <1>7, <2>1 DEF ClientCertAuthenAndAuthor, Types
    <3>2. rc'[c].user = u /\ rc'[c].enabled = rc[c].enabled
      <4>1. roles[u] \in RoleSets \cup {{}}
        BY <2>1 DEF Types
      <4>. QED  BY <2>1, <3>1, <4>1, PopulatedType
    <3>3. Enabled(userAuth, "cert") /\ AnyAuth(userAuth)
      BY <1>7, EnabledIsAuth DEF ClientCertAuthenAndAuthor, Admitted, Modes
    <3>4. u \in Credentials(c)
      BY <2>1, <3>3 DEF Credentials
    <3>. QED  BY <1>2, <1>3, <1>7, <3>1, <3>2, <3>3, <3>4, SuccessAdmitted
              DEF ClientCertAuthenAndAuthor
  <2>2. CASE ~(u \in Users /\ Known(u))
    BY <1>2, <1>3, <1>7, <2>2, NextMethodAdmitted DEF ClientCertAuthenAndAuthor
  <2>. QED  BY <2>1, <2>2
<1>8. CASE AuthenticateCheck(c)
  <2>1. /\ UNCHANGED rc /\ req[c].rpc = "Authenticate"
        /\ pc[c] = "body" /\ pc'[c] \in {"check", "done"}
    BY <1>8 DEF AuthenticateCheck, Return, Types
  <2>2. \A a : Shown(c, a)' <=> Shown(c, a)
    BY <1>2, <1>3 DEF Shown, Credentials
  <2>3. (req[c].rpc # "Subscribe" => \A a \in asked[c] : Shown(c, a))'
    BY <1>2, <1>3, <2>2 DEF Admitted
  <2>. QED  BY <1>2, <1>3, <2>1, <2>3 DEF Admitted
<1>9. CASE RefreshCheck(c)
  <2>1. \A a : Shown(c, a)' <=> Shown(c, a)
    BY <1>2, <1>3 DEF Shown, Credentials
  <2>2. (req[c].rpc # "Subscribe" => \A a \in asked[c] : Shown(c, a))'
    BY <1>2, <1>3, <2>1 DEF Admitted
  <2>3. pc[c] = "body" /\ (rc[c].enabled <=> AnyAuth(userAuth))
    BY <1>9 DEF RefreshCheck, Admitted
  <2>4. CASE pc'[c] = "done"
    BY <2>2, <2>4 DEF Admitted
  <2>5. CASE JwtOk(c) /\ pc'[c] = "refresh"
             /\ rc'[c] = Populated(c, tok[c].user, ClaimedRoles(tok[c]))
    <3>1. tok[c] # NoToken /\ tok[c].key = key
      BY <2>5 DEF JwtOk, Verifies
    <3>2. tok[c] \in tokens /\ rc'[c].enabled = rc[c].enabled
      BY <2>5, <3>1, TokenFacts, PopulatedType
    <3>. QED  BY <1>2, <1>3, <2>2, <2>3, <2>5, <3>1, <3>2 DEF Admitted
  <2>6. pc'[c] = "done" \/ (JwtOk(c) /\ pc'[c] = "refresh"
             /\ rc'[c] = Populated(c, tok[c].user, ClaimedRoles(tok[c])))
    BY <1>9 DEF RefreshCheck, Return, Types
  <2>. QED  BY <2>4, <2>5, <2>6
<1>. QED  BY <1>4, <1>5, <1>6, <1>7, <1>8, <1>9 DEF Authenticates

\* The handlers and the audit log leave a call admitted.
LEMMA ServesAdmitted ==
    ASSUME Types, TokensRooted, NEW c \in Calls, Admitted(c), Serves(c)
    PROVE  Admitted(c)'
<1>1. Alone(c)
  BY ServesAlone
<1>2. UNCHANGED <<userAuth, key, req, tok, born>>
  BY <1>1 DEF Alone, srvVars, idVars
<1>3. passed \subseteq passed' /\ tokens \subseteq tokens'
  BY ServesTokens
<1>4. CASE Authenticates(c)
  BY <1>4, AuthenticatesAdmitted
<1>5. ASSUME UNCHANGED rc,
             \/ pc'[c] = pc[c] \/ pc'[c] \in {"done", "audit", "dial", "write"}
             \/ pc[c] = "body" /\ pc'[c] = "fallback" /\ req[c].rpc = "Set",
             \/ asked'[c] = asked[c] \/ req[c].rpc = "Subscribe"
             \/ /\ asked'[c] = asked[c] \cup {rc[c]}
                /\ pc[c] \in {"body", "fallback"} /\ req[c].rpc # "Authenticate"
      PROVE  Admitted(c)'
  BY <1>2, <1>3, <1>5, AdmittedKept
<1> USE DEF Types, Return, Logging, Ask, Identity
<1>6. CASE Issues(c)
  BY <1>5, <1>6 DEF Issues, Issue, Authenticate, Refresh
<1>7. CASE Get(c)
  BY <1>5, <1>7 DEF Get
<1>8. CASE SubscribeRead(c) \/ Capabilities(c) \/ SystemRpc(c) \/ SetNothing(c)
  BY <1>5, <1>8 DEF SubscribeRead, Capabilities, SystemRpc, SetNothing
<1>9. CASE SetOne(c)
  BY <1>5, <1>9 DEF SetOne
<1>10. CASE SetFallback(c)
  <2>1. req[c].rpc = "Set"
    BY <1>10 DEF SetFallback, Admitted
  <2>. QED  BY <1>5, <1>10, <2>1 DEF SetFallback
<1>11. CASE SetBulk(c)
  BY <1>5, <1>11 DEF SetBulk
<1>12. CASE Action(c)
  BY <1>5, <1>12 DEF Action
<1>13. CASE Audits(c)
  BY <1>5, <1>13 DEF Audits, AuditNext, AuditDial, AuditWrite
<1>. QED  BY <1>4, <1>6, <1>7, <1>8, <1>9, <1>10, <1>11, <1>12, <1>13 DEF Serves, Handles

-----------------------------------------------------------------------------
(* Handlers *)

\* The operations of a Set are a list.
LEMMA SetOpsType ==
    ASSUME NEW r \in RequestType
    PROVE  /\ SetOps(r) \in Seq(Operation)
           /\ Len(SetOps(r)) \in Nat
<1>1. r.delete \in Seq(Paths) /\ r.replace \in Seq(Paths) /\ r.update \in Seq(Paths)
  BY DEF RequestType
<1>2. \A k \in {"delete", "replace", "update"}, ps \in Seq(Paths) : Ops(k, ps) \in Seq(Operation)
  BY DEF Ops, Operation
<1>3. SetOps(r) \in Seq(Operation)
  <2> DEFINE a == Ops("delete", r.delete)
             b == Ops("replace", r.replace)
             e == Ops("update", r.update)
             S == Seq(Operation)
  <2>1. a \in S /\ b \in S /\ e \in S
    BY <1>1, <1>2
  <2>2. SetOps(r) = a \o b \o e
    BY DEF SetOps
  <2> HIDE DEF a, b, e
  <2>. QED  BY <2>1, <2>2
<1>. QED  BY <1>3

\* The increasing list of the numbers up to n is 1, 2, ..., n: the numbers
\* before the i-th are as many as the places before it.
LEMMA InOrderAll ==
    ASSUME NEW n \in Nat, NEW f \in InOrder(1..n)
    PROVE  DOMAIN f = 1..n /\ \A i \in 1..n : f[i] = i
<1>1. IsFiniteSet(1..n) /\ Cardinality(1..n) = n
  BY FS_Interval
<1>2. f \in [1..n -> 1..n] /\ \A i, j \in 1..n : i < j => f[i] < f[j]
  BY <1>1 DEF InOrder
<1>3. f \in Injection(1..n, 1..n)
  BY <1>2 DEF Injection, IsInjective
<1>4. f \in Surjection(1..n, 1..n)
  BY <1>1, <1>3, FS_Injection
<1>5. ASSUME NEW i \in 1..n
      PROVE  f[i] = i
  <2> DEFINE A == 1..(i - 1)
             B == 1..(f[i] - 1)
             g == [j \in A |-> f[j]]
  <2>1. g \in [A -> B]
    <3>1. ASSUME NEW j \in A
          PROVE  f[j] \in B
      <4>1. j \in 1..n /\ j < i
        OBVIOUS
      <4>2. f[j] \in 1..n /\ f[i] \in 1..n /\ f[j] < f[i]
        BY <1>2, <4>1
      <4>. QED  BY <4>2
    <3>. QED  BY <3>1
  <2>2. \A j, k \in A : g[j] = g[k] => j = k
    BY <1>2
  <2>3. \A k \in B : \E j \in A : g[j] = k
    <3>1. SUFFICES ASSUME NEW k \in B
                   PROVE  \E j \in A : g[j] = k
      OBVIOUS
    <3>2. f[i] \in 1..n /\ k \in 1..n /\ k < f[i]
      BY <1>2
    <3>3. PICK j \in 1..n : f[j] = k
      BY <1>4, <3>2 DEF Surjection
    <3>4. j < i
      <4>1. i < j => f[i] < f[j]
        BY <1>2
      <4>. QED  BY <3>2, <3>3, <4>1
    <3>. QED  BY <3>3, <3>4
  <2>4. g \in Bijection(A, B)
    BY <2>1, <2>2, <2>3 DEF Bijection, Injection, IsInjective, Surjection
  <2>5. IsFiniteSet(A) /\ Cardinality(A) = i - 1
    BY FS_Interval
  <2>6. Cardinality(B) = f[i] - 1
    BY <1>2, FS_Interval
  <2>7. Cardinality(A) = Cardinality(B)
    BY <2>4, <2>5, FS_Bijection DEF ExistsBijection
  <2>. QED  BY <1>2, <2>5, <2>6, <2>7
<1>. QED  BY <1>2, <1>5

\* A call that has asked for nothing and does not claim that it has.
LEMMA UntouchedHandled ==
    ASSUME NEW c \in Calls, Handled(c), req'[c] = req[c], Untouched(c)',
           pc'[c] \in {"password", "check", "jwt", "cert", "body", "refresh", "done"},
           pc'[c] = "refresh" => req[c].rpc = "Refresh",
           pc'[c] = "done" => res'[c] # "OK" \/ req[c].rpc \notin {"Get", "Set", "Action"}
    PROVE  Handled(c)'
BY DEF Handled, Carried

\* authenticate asks translib for nothing.
LEMMA AuthenticatesHandled ==
    ASSUME Types, NEW c \in Calls, Handled(c), Authenticates(c) \/ Issues(c)
    PROVE  Handled(c)'
<1> USE DEF Types, Return, Success, NextMethod, Issue
<1>1. UNCHANGED <<asked, applied, req>>
  BY DEF Authenticates, BasicAuthenAndAuthor, UserPwAuth, JwtAuthenAndAuthor,
         ClientCertAuthenAndAuthor, AuthenticateCheck, RefreshCheck, Issues, Authenticate,
         Refresh, idVars
<1>2. Untouched(c)'
  BY <1>1 DEF Authenticates, BasicAuthenAndAuthor, UserPwAuth, JwtAuthenAndAuthor,
         ClientCertAuthenAndAuthor, AuthenticateCheck, RefreshCheck, Issues, Authenticate,
         Refresh, Handled, Untouched
<1>3. \A i \in 1..4 : Method(i) \in {"password", "jwt", "cert", "done"}
  BY MethodFacts
<1>4. ASSUME pc'[c] \in {"password", "check", "jwt", "cert", "body", "refresh", "done"},
             pc'[c] = "refresh" => req[c].rpc = "Refresh",
             pc'[c] = "done" => res'[c] # "OK" \/ req[c].rpc \notin {"Get", "Set", "Action"}
      PROVE  Handled(c)'
  BY <1>1, <1>2, <1>4, UntouchedHandled
<1>5. CASE BasicAuthenAndAuthor(c) \/ UserPwAuth(c)
  BY <1>3, <1>4, <1>5 DEF BasicAuthenAndAuthor, UserPwAuth
<1>6. CASE JwtAuthenAndAuthor(c) \/ ClientCertAuthenAndAuthor(c)
  BY <1>3, <1>4, <1>6 DEF JwtAuthenAndAuthor, ClientCertAuthenAndAuthor
<1>7. CASE AuthenticateCheck(c) \/ RefreshCheck(c)
  BY <1>4, <1>7 DEF AuthenticateCheck, RefreshCheck
<1>8. CASE Issues(c)
  BY <1>4, <1>8 DEF Issues, Authenticate, Refresh, Handled
<1>. QED  BY <1>5, <1>6, <1>7, <1>8 DEF Authenticates

\* Get asks for its paths one by one and succeeds after the last.
LEMMA GetHandled ==
    ASSUME Types, NEW c \in Calls, Handled(c), Get(c)
    PROVE  Handled(c)'
<1> USE DEF Types, Return
<1>1. UNCHANGED req /\ pc[c] = "body" /\ req[c].rpc = "Get"
  BY DEF Get, idVars
<1>2. CASE /\ pc'[c] = "done" /\ res'[c] = "Unimplemented"
           /\ ~req[c].valid /\ UNCHANGED <<asked, applied>>
  BY <1>1, <1>2 DEF Handled, Carried, Untouched
<1>3. CASE pc'[c] = "done" /\ res'[c] = "OK" /\ PathsLeft(c) = {} /\ UNCHANGED <<asked, applied>>
  <2>1. req[c].badver => Untouched(c)'
    BY <1>1, <1>3 DEF Handled, Untouched
  <2>2. \A p \in req[c].get : [op |-> "get", path |-> p] \in Range(applied[c])
    BY <1>3 DEF PathsLeft
  <2>. QED  BY <1>1, <1>3, <2>1, <2>2 DEF Handled, Carried, RefusedCodes
<1>4. CASE pc'[c] = "done" /\ res'[c] = "NotFound" /\ req[c].badver /\ UNCHANGED <<asked, applied>>
  BY <1>1, <1>4 DEF Handled, Carried, Untouched
<1>5. CASE pc'[c] = "done" /\ res'[c] = "NotFound" /\ ~req[c].badver
  BY <1>1, <1>5 DEF Handled, Carried, RefusedCodes
<1>6. CASE pc'[c] = "body" /\ req[c].valid /\ ~req[c].badver
  BY <1>1, <1>6 DEF Handled
<1>. QED  BY <1>2, <1>3, <1>4, <1>5, <1>6 DEF Get

\* Set succeeds when translib has carried out every operation.
LEMMA SetHandled ==
    ASSUME Types, NEW c \in Calls, Handled(c),
           SetNothing(c) \/ SetOne(c) \/ SetFallback(c) \/ SetBulk(c)
    PROVE  Handled(c)'
<1> DEFINE ops == SetOps(req[c])
<1>1. UNCHANGED req /\ req[c].rpc = "Set" /\ DOMAIN applied = Calls /\ DOMAIN res = Calls
      /\ pc \in [Calls -> Codes]
  BY DEF SetNothing, SetOne, SetFallback, SetBulk, Handled, idVars, Types
<1>2. ops \in Seq(Operation) /\ Len(ops) \in Nat
  BY SetOpsType DEF Types
<1>3. CASE SetNothing(c)
  <2>1. UNCHANGED <<asked, applied>> /\ Untouched(c) /\ pc'[c] = "done"
    BY <1>1, <1>3 DEF SetNothing, Handled, Return
  <2>2. res'[c] = "Unknown" \/ (res'[c] = "OK" /\ ops = <<>>)
    BY <1>1, <1>3 DEF SetNothing, Return
  <2>. QED  BY <1>1, <2>1, <2>2 DEF Handled, Carried, Untouched
<1>4. CASE SetOne(c)
  <2>1. ~req[c].badver /\ Len(ops) = 1 /\ applied[c] = <<>>
    BY <1>1, <1>4 DEF SetOne, Handled, Untouched
  <2>2. CASE pc'[c] = "done" /\ res'[c] = "Unknown"
    BY <1>1, <2>1, <2>2 DEF Handled, Carried, RefusedCodes
  <2>3. CASE pc'[c] = "fallback" /\ UNCHANGED applied
    BY <1>1, <2>1, <2>3 DEF Handled
  <2>4. CASE Carry(c, <<ops[1]>>) /\ pc'[c] = "done" /\ res'[c] = "OK"
    <3>1. applied'[c] = applied[c] \o <<ops[1]>>
      BY <1>1, <2>4 DEF Carry
    <3>2. applied'[c] = ops
      BY <1>2, <2>1, <3>1
    <3>. QED  BY <1>1, <2>1, <2>4, <3>2 DEF Handled, Carried, RefusedCodes
  <2>. QED  BY <1>1, <1>4, <2>2, <2>3, <2>4 DEF SetOne, Return
<1>5. CASE SetFallback(c)
  <2>1. ~req[c].badver /\ Len(ops) = 1 /\ applied[c] = <<>>
    BY <1>1, <1>5 DEF SetFallback, Handled
  <2>2. CASE pc'[c] = "done" /\ res'[c] = "Unknown"
    BY <1>1, <2>1, <2>2 DEF Handled, Carried, RefusedCodes
  <2>3. CASE applied'[c] = Append(applied[c], ops[1]) /\ pc'[c] = "done" /\ res'[c] = "OK"
    <3>1. applied'[c] = ops
      BY <1>2, <2>1, <2>3
    <3>. QED  BY <1>1, <2>1, <2>3, <3>1 DEF Handled, Carried, RefusedCodes
  <2>. QED  BY <1>1, <1>5, <2>2, <2>3 DEF SetFallback, Return
<1>6. CASE SetBulk(c)
  <2>1. ~req[c].badver /\ applied[c] = <<>>
    BY <1>1, <1>6 DEF SetBulk, Handled, Untouched
  <2>2. CASE pc'[c] = "done" /\ res'[c] = "Unknown"
    BY <1>1, <2>1, <2>2 DEF Handled, Carried, RefusedCodes
  <2>3. ASSUME NEW out \in [1..Len(ops) -> BOOLEAN],
               NEW f \in InOrder({i \in 1..Len(ops) : out[i]}),
               Carry(c, [i \in DOMAIN f |-> ops[f[i]]]),
               res'[c] = IF Failed(out) THEN "Unknown" ELSE "OK", pc'[c] = "audit"
        PROVE  Handled(c)'
    <3>1. CASE Failed(out)
      BY <1>1, <2>1, <2>3, <3>1 DEF Handled, Carried
    <3>2. CASE ~Failed(out)
      <4>1. {i \in 1..Len(ops) : out[i]} = 1..Len(ops)
        BY <3>2 DEF Failed
      <4>2. DOMAIN f = 1..Len(ops) /\ \A i \in 1..Len(ops) : f[i] = i
        BY <1>2, <2>3, <4>1, InOrderAll
      <4>3. [i \in DOMAIN f |-> ops[f[i]]] = ops
        BY <1>2, <4>2
      <4>4. applied'[c] = applied[c] \o ops
        BY <1>1, <2>3, <4>3 DEF Carry
      <4>5. applied'[c] = ops
        BY <1>2, <2>1, <4>4
      <4>. QED  BY <1>1, <2>1, <2>3, <4>5 DEF Handled, Carried
    <3>. QED  BY <3>1, <3>2
  <2>. QED  BY <1>1, <1>6, <2>2, <2>3 DEF SetBulk, Return, Logging
<1>. QED  BY <1>3, <1>4, <1>5, <1>6

\* Every step of a call keeps track of what its handler has done.
LEMMA ServesHandled ==
    ASSUME Types, NEW c \in Calls, Handled(c), Serves(c)
    PROVE  Handled(c)'
<1> USE DEF Types, Return
<1>1. CASE Authenticates(c) \/ Issues(c)
  BY <1>1, AuthenticatesHandled
<1>2. CASE Get(c)
  BY <1>2, GetHandled
<1>3. CASE SetNothing(c) \/ SetOne(c) \/ SetFallback(c) \/ SetBulk(c)
  BY <1>3, SetHandled
<1>4. CASE SubscribeRead(c)
  BY <1>4 DEF SubscribeRead, idVars, Handled, Carried, Untouched, RefusedCodes
<1>5. CASE Capabilities(c) \/ SystemRpc(c)
  <2>1. UNCHANGED <<req, asked, applied>> /\ Untouched(c) /\ pc'[c] = "done"
    BY <1>5 DEF Capabilities, SystemRpc, idVars, Handled
  <2>2. res'[c] # "OK" \/ req[c].rpc \notin {"Get", "Set", "Action"}
    BY <1>5 DEF Capabilities, SystemRpc
  <2>. QED  BY <2>1, <2>2, UntouchedHandled DEF Untouched
<1>6. CASE Action(c)
  <2>1. UNCHANGED req /\ req[c].rpc = "Action" /\ ~req[c].badver /\ pc'[c] = "audit"
    BY <1>6 DEF Action, Logging, idVars, Handled
  <2>2. PICK ok \in BOOLEAN, readable \in BOOLEAN :
            /\ applied'[c] = IF ok THEN <<TheAction>> ELSE <<>>
            /\ res'[c] = IF ok /\ readable THEN "OK" ELSE "Unknown"
    BY <1>6 DEF Action
  <2>. QED  BY <2>1, <2>2 DEF Handled, Carried
<1>7. CASE Audits(c)
  <2>1. UNCHANGED <<req, res, asked, applied>> /\ pc[c] \in {"audit", "dial", "write"}
        /\ pc'[c] \in {"audit", "dial", "write", "done"}
    BY <1>7 DEF Audits, AuditNext, AuditDial, AuditWrite, idVars
  <2>2. /\ Carried(c)' /\ req[c].rpc \in {"Set", "Action"}
        /\ ~req[c].badver /\ res[c] \in {"OK", "Unknown"}
    BY <2>1 DEF Handled, Carried
  <2>. QED  BY <2>1, <2>2 DEF Handled, RefusedCodes
<1>. QED  BY <1>1, <1>2, <1>3, <1>4, <1>5, <1>6, <1>7 DEF Serves, Handles

-----------------------------------------------------------------------------
(* Steps *)

\* A step of a call keeps the invariant.
LEMMA ServesInv ==
    ASSUME IInv, NEW c \in Calls, Serves(c)
    PROVE  IInv'
<1>1. Types /\ TokensRooted /\ Admitted(c) /\ Handled(c)
  BY DEF IInv
<1>2. Alone(c)
  BY <1>1, ServesAlone
<1>3. UNCHANGED <<up, userAuth, key, starts, load, now, roles, req, tok, born>>
  BY <1>2 DEF Alone, srvVars, envVars, idVars
<1>4. tokens \subseteq tokens' /\ tokens' \subseteq TokenType(starts) /\ passed \subseteq passed'
  BY <1>1, ServesTokens
<1>5. Types'
  <2>1. rc' \in [Calls -> Context] /\ pc' \in [Calls -> Codes]
    BY <1>1, ServesContext, ServesCodes
  <2>2. DOMAIN res' = Calls /\ DOMAIN asked' = Calls /\ DOMAIN applied' = Calls
    BY <1>2 DEF Alone
  <2>3. tok' \in [Calls -> tokens' \cup {NoToken}]
    BY <1>1, <1>3, <1>4 DEF Types
  <2>. QED  BY <1>1, <1>3, <1>4, <2>1, <2>2, <2>3 DEF Types
<1>6. up
  <2>1. pc[c] # "idle"
    BY DEF Serves, Authenticates, BasicAuthenAndAuthor, UserPwAuth, JwtAuthenAndAuthor,
           ClientCertAuthenAndAuthor, AuthenticateCheck, RefreshCheck, Issues, Authenticate,
           Refresh, Handles, Get, SubscribeRead, Capabilities, SystemRpc, SetNothing, SetOne,
           SetFallback, SetBulk, Action, Audits, AuditNext, AuditDial, AuditWrite
  <2>. QED  BY <2>1 DEF IInv, Quiet
<1>7. Quiet'
  BY <1>3, <1>6 DEF Quiet
<1>8. TokensRooted'
  <2>1. \A t \in tokens' \ tokens :
            t.user \in passed' \/ (pc[c] = "refresh" /\ t.user = tok[c].user)
    BY <1>1, ServesTokens
  <2>2. pc[c] = "refresh" /\ key # 0 => tok[c].user \in passed
    BY <1>1 DEF Admitted, TokensRooted
  <2>. QED  BY <1>1, <1>3, <1>4, <2>1, <2>2 DEF TokensRooted
<1>9. ASSUME NEW d \in Calls
      PROVE  Admitted(d)' /\ Handled(d)'
  <2>1. CASE d = c
    BY <1>1, <2>1, ServesAdmitted, ServesHandled
  <2>2. CASE d # c
    <3>1. /\ pc'[d] = pc[d] /\ rc'[d] = rc[d] /\ res'[d] = res[d]
          /\ asked'[d] = asked[d] /\ applied'[d] = applied[d]
      BY <1>2, <2>2 DEF Alone
    <3>2. Admitted(d) /\ Handled(d)
      BY DEF IInv
    <3>3. Admitted(d)'
      BY <1>3, <1>4, <3>1, <3>2, AdmittedKept
    <3>4. Handled(d)'
      BY <1>3, <3>1, <3>2 DEF Handled, Carried, Untouched
    <3>. QED  BY <3>3, <3>4
  <2>. QED  BY <2>1, <2>2
<1>10. WriterOpen'
  <2>1. WriterOpen /\ pc \in [Calls -> Codes]
    BY DEF IInv, Types
  <2>2. CASE Audits(c)
    BY <2>1, <2>2 DEF Audits, AuditNext, AuditDial, AuditWrite, WriterMissing, WriterOpen, logVars
  <2>3. CASE ~Audits(c)
    <3>1. UNCHANGED <<writer, panic>> /\ pc'[c] # "write"
      <4>1. \A i \in 1..4 : Method(i) # "write"
        BY MethodFacts
      <4>. QED  BY <2>1, <2>3, <4>1
                DEF Serves, Authenticates, BasicAuthenAndAuthor, UserPwAuth, JwtAuthenAndAuthor,
                    ClientCertAuthenAndAuthor, AuthenticateCheck, RefreshCheck, Issues,
                    Authenticate, Refresh, Issue, Handles, Get, SubscribeRead, Capabilities,
                    SystemRpc, SetNothing, SetOne, SetFallback, SetBulk, Action, logVars, Return,
                    NextMethod, Success, Logging
    <3>. QED  BY <1>2, <2>1, <3>1 DEF WriterOpen, Alone
  <2>. QED  BY <2>2, <2>3
<1>. QED  BY <1>5, <1>7, <1>8, <1>9, <1>10 DEF IInv

\* A new call starts with nothing shown and nothing done.
LEMMA ArrivesInv ==
    ASSUME IInv, NEW c \in Calls, Arrives(c)
    PROVE  IInv'
<1>1. PICK r \in load.requests \cup CliRequests :
          \E t \in (IF r.token THEN tokens ELSE {NoToken}) : Invoke(c, r, t)
  BY DEF Arrives
<1>2. PICK t \in tokens \cup {NoToken} : Invoke(c, r, t)
  BY <1>1
<1>3. Types /\ TokensRooted /\ Quiet /\ WriterOpen
  BY DEF IInv
<1>4. r \in RequestType /\ (r.badver => r.rpc \in {"Get", "Set", "Subscribe", "Capabilities"})
  BY <1>3, RequestFacts DEF Types
<1>5. UNCHANGED <<up, userAuth, key, starts, load, now, roles, tokens, passed, writer, panic>> /\ up
  BY <1>2 DEF Invoke, srvVars, envVars, dataVars
<1>6. \/ Method(1) = "done"
      \/ Method(1) \in {"password", "jwt", "cert"} /\ Enabled(userAuth, Method(1))
  BY MethodFacts
<1>7. /\ \A d \in Calls \ {c} :
            /\ pc'[d] = pc[d] /\ rc'[d] = rc[d] /\ res'[d] = res[d] /\ req'[d] = req[d]
            /\ tok'[d] = tok[d] /\ born'[d] = born[d]
            /\ asked'[d] = asked[d] /\ applied'[d] = applied[d]
      /\ DOMAIN res' = Calls /\ DOMAIN asked' = Calls /\ DOMAIN applied' = Calls
  BY <1>2, <1>3 DEF Invoke, Return, DecodeFails, Types
<1>8. /\ req'[c] = r /\ tok'[c] = t /\ born'[c] = now /\ asked'[c] = {} /\ applied'[c] = <<>>
      /\ rc'[c] = [NoContext EXCEPT !.enabled = AnyAuth(userAuth)]
  BY <1>2, <1>3 DEF Invoke, Types
<1>9. \/ pc'[c] = "done" /\ res'[c] \in {"Unimplemented", "Internal", "none"}
      \/ pc'[c] = "body" /\ (r.rpc = "Authenticate" \/ ~AnyAuth(userAuth))
      \/ pc'[c] \in {"password", "jwt", "cert"} /\ Enabled(userAuth, pc'[c])
  BY <1>2, <1>3, <1>6 DEF Invoke, Return, DecodeFails, Types
<1>10. rc'[c] \in Context /\ rc'[c].user = NoUser /\ (rc'[c].enabled <=> AnyAuth(userAuth))
  BY <1>8 DEF NoContext, Context, AnyAuth
<1>11. Types'
  <2>1. req' \in [Calls -> RequestType] /\ tok' \in [Calls -> tokens \cup {NoToken}]
    BY <1>2, <1>3, <1>4 DEF Invoke, Types
  <2>2. born' \in [Calls -> 0..now]
    BY <1>2, <1>3 DEF Invoke, Types
  <2>3. rc' \in [Calls -> Context]
    <3>1. rc' = [rc EXCEPT ![c] = rc'[c]]
      BY <1>2, <1>3 DEF Invoke, Types
    <3>. QED  BY <1>3, <1>10, <3>1 DEF Types
  <2>4. pc' \in [Calls -> Codes]
    <3>1. pc' = [pc EXCEPT ![c] = pc'[c]] /\ pc'[c] \in Codes
      BY <1>2, <1>3, <1>6 DEF Invoke, Return, DecodeFails, Types, Codes
    <3>. QED  BY <1>3, <3>1 DEF Types
  <2>. QED  BY <1>3, <1>5, <1>7, <2>1, <2>2, <2>3, <2>4 DEF Types
<1>12. Quiet' /\ TokensRooted'
  BY <1>3, <1>5 DEF Quiet, TokensRooted
<1>13. Admitted(c)'
  <2>1. (pc[c] \in {"body", "fallback"} /\ req[c].rpc # "Authenticate" => Shown(c, rc[c]))'
    BY <1>5, <1>8, <1>9, <1>10 DEF Shown
  <2>. QED  BY <1>5, <1>8, <1>9, <1>10, <2>1 DEF Admitted
<1>14. Handled(c)'
  BY <1>4, <1>8, <1>9 DEF Handled, Carried, Untouched
<1>15. ASSUME NEW d \in Calls \ {c}
       PROVE  Admitted(d)' /\ Handled(d)'
  <2>1. Admitted(d) /\ Handled(d)
    BY DEF IInv
  <2>2. Admitted(d)'
    BY <1>5, <1>7, <2>1, AdmittedKept
  <2>3. Handled(d)'
    BY <1>7, <2>1 DEF Handled, Carried, Untouched
  <2>. QED  BY <2>2, <2>3
<1>16. WriterOpen'
  BY <1>3, <1>5, <1>7, <1>9 DEF WriterOpen
<1>. QED  BY <1>11, <1>12, <1>13, <1>14, <1>15, <1>16 DEF IInv

\* The process starts, with a key that no token is signed with, if it has one.
LEMMA StartInv ==
    ASSUME IInv, NEW l \in load.launches, Start(l)
    PROVE  IInv'
<1>1. Types /\ Quiet /\ WriterOpen
  BY DEF IInv
<1>2. UNCHANGED <<load, now, roles, tokens, req, tok, born, rc, pc, res, asked, applied,
                  writer, panic>>
  BY DEF Start, envVars, idVars, logVars
<1>3. \A c \in Calls : pc[c] = "idle" /\ asked[c] = {}
  BY <1>1 DEF Start, Quiet
<1>4. starts' = starts + 1 /\ key' \in 0..starts' /\ (key' # 0 => key' = starts + 1)
  BY <1>1 DEF Start, NewKey, Types
<1>5. \A t \in tokens : t \in TokenType(starts) /\ t.key \in 0..starts
  BY <1>1 DEF Types, TokenType
<1>6. Types'
  <2>1. tokens \subseteq TokenType(starts + 1)
    BY <1>1, <1>5 DEF TokenType, Types
  <2>. QED  BY <1>1, <1>2, <1>4, <2>1 DEF Types
<1>7. TokensRooted'
  BY <1>1, <1>2, <1>4, <1>5 DEF TokensRooted, Types
<1>8. \A c \in Calls : Admitted(c)'
  BY <1>2, <1>3 DEF Admitted
<1>9. \A c \in Calls : Handled(c)'
  BY <1>2, <1>3 DEF IInv, Handled
<1>10. Quiet' /\ WriterOpen'
  BY <1>1, <1>2 DEF Start, Quiet, WriterOpen
<1>. QED  BY <1>6, <1>7, <1>8, <1>9, <1>10 DEF IInv

\* When the process dies its calls die with it.
LEMMA CrashInv ==
    ASSUME IInv, Crash
    PROVE  IInv'
<1>1. Types /\ TokensRooted /\ WriterOpen
  BY DEF IInv
<1>2. UNCHANGED <<key, starts, load, now, roles, tokens, passed, req, tok, born, rc, panic>>
  BY DEF Crash, envVars, idVars, dataVars
<1>3. /\ \A c \in Calls : pc'[c] = "idle" /\ asked'[c] = {}
      /\ pc' = [c \in Calls |-> "idle"] /\ writer' = "nil"
      /\ DOMAIN res' = Calls /\ DOMAIN asked' = Calls /\ DOMAIN applied' = Calls
  BY DEF Crash
<1>4. Types'
  BY <1>1, <1>2, <1>3 DEF Types, Codes
<1>5. TokensRooted' /\ Quiet' /\ WriterOpen'
  BY <1>1, <1>2, <1>3 DEF TokensRooted, Quiet, WriterOpen
<1>6. \A c \in Calls : Admitted(c)'
  BY <1>3 DEF Admitted
<1>7. \A c \in Calls : Handled(c)'
  BY <1>2, <1>3 DEF IInv, Handled
<1>. QED  BY <1>4, <1>5, <1>6, <1>7 DEF IInv

\* The passing of time and a change of a user's roles touch no call.
LEMMA EnvironmentInv ==
    ASSUME IInv, Tick \/ ChangeRoles \/ UNCHANGED vars
    PROVE  IInv'
<1>1. Types /\ TokensRooted /\ WriterOpen /\ Quiet
  BY DEF IInv
<1>2. UNCHANGED <<up, userAuth, key, starts, load, tokens, passed, req, tok, born, rc, pc, res,
                  asked, applied, writer, panic>>
  BY DEF Tick, ChangeRoles, vars, srvVars, dataVars, logVars, idVars
<1>3. now' \in Nat /\ now <= now'
  BY <1>1 DEF Tick, ChangeRoles, vars, Types
<1>4. roles' \in [Users -> RoleSets \cup {{}}]
  BY <1>1 DEF Tick, ChangeRoles, vars, Types
<1>5. Types'
  <2>1. born' \in [Calls -> 0..now']
    BY <1>1, <1>2, <1>3 DEF Types
  <2>. QED  BY <1>1, <1>2, <1>3, <1>4, <2>1 DEF Types
<1>6. TokensRooted' /\ Quiet' /\ WriterOpen'
  BY <1>1, <1>2 DEF TokensRooted, Quiet, WriterOpen
<1>7. ASSUME NEW d \in Calls
      PROVE  Admitted(d)' /\ Handled(d)'
  <2>1. Admitted(d) /\ Handled(d)
    BY DEF IInv
  <2>2. Admitted(d)'
    BY <1>2, <2>1, AdmittedKept
  <2>3. Handled(d)'
    BY <1>2, <2>1 DEF Handled, Carried, Untouched
  <2>. QED  BY <2>2, <2>3
<1>. QED  BY <1>5, <1>6, <1>7 DEF IInv

-----------------------------------------------------------------------------
(* Theorems *)

\* The invariant holds when the system starts.
LEMMA InvInit == Init => IInv
<1> SUFFICES ASSUME Init PROVE IInv
  OBVIOUS
<1>1. NoRequest \in RequestType
  <2>1. <<>> \in Seq(Paths)
    OBVIOUS
  <2>. QED  BY <2>1 DEF NoRequest, RequestType
<1>2. NoContext \in Context
  BY DEF NoContext, Context
<1>3. Types
  BY <1>1, <1>2 DEF Init, Types, Codes
<1>4. Quiet /\ TokensRooted /\ WriterOpen
  BY DEF Init, Quiet, TokensRooted, WriterOpen
<1>5. \A c \in Calls : Admitted(c)
  BY DEF Init, Admitted
<1>6. \A c \in Calls : Handled(c)
  <2>1. \A c \in Calls : pc[c] = "idle" /\ ~req[c].badver
    BY DEF Init, NoRequest
  <2>. QED  BY <2>1 DEF Handled
<1>. QED  BY <1>3, <1>4, <1>5, <1>6 DEF IInv

\* Every step keeps the invariant.
LEMMA InvNext == IInv /\ [Next]_vars => IInv'
<1> SUFFICES ASSUME IInv, [Next]_vars PROVE IInv'
  OBVIOUS
<1>1. load.slots \subseteq Calls
  BY RequestFacts DEF IInv, Types
<1>2. ASSUME NEW c \in load.slots, Call(c)
      PROVE  IInv'
  <2>1. Arrives(c) \/ Serves(c)
    BY <1>2 DEF Call, Arrives, Serves, Authenticates, Issues, Handles, Audits
  <2>. QED  BY <1>1, <2>1, ArrivesInv, ServesInv
<1>. QED  BY <1>2, StartInv, CrashInv, EnvironmentInv DEF Next

\* The invariant of RpcServer holds in every reachable state.
THEOREM Invariance == Spec => []IInv
BY InvInit, InvNext, PTL DEF Spec

(***************************************************************************)
(* Authenticate, Refresh and GenerateJwtSecretKey: a token that this       *)
(* process accepts goes back, through any number of refreshes and of       *)
(* restarts, to a password given to this process.                          *)
(***************************************************************************)
THEOREM TokensAreRooted == Spec => []TokensRooted
<1>1. IInv => TokensRooted
  BY DEF IInv
<1>. QED  BY <1>1, Invariance, PTL

(***************************************************************************)
(* authenticate and the handlers: for any number of calls in progress, in  *)
(* every mode, what a unary RPC asks of translib is asked for a user the   *)
(* caller has shown itself to be.                                          *)
(***************************************************************************)
THEOREM CallsAreAttributed == Spec => []Attributed
<1>1. IInv => Attributed
  BY DEF IInv, Admitted, Shown, Attributed
<1>. QED  BY <1>1, Invariance, PTL

(***************************************************************************)
(* Get, Set and the actions: the status of a call tells what it did.       *)
(***************************************************************************)
THEOREM StatusIsTruthful == Spec => []Truthful
<1>1. IInv => Truthful
  BY DEF IInv, Handled, Carried, Untouched, Truthful
<1>. QED  BY <1>1, Invariance, PTL

-----------------------------------------------------------------------------
(* The audit log *)

\* A step leaves the log of the other calls alone.
LEMMA ServesLogAlone ==
    ASSUME AuditInv, NEW c \in Calls, Serves(c)
    PROVE  /\ \A d \in Calls \ {c} : audit'[d] = audit[d] /\ todo'[d] = todo[d]
           /\ DOMAIN audit' = Calls /\ DOMAIN todo' = Calls
<1> USE DEF AuditInv, logVars
<1>1. CASE Authenticates(c) \/ Issues(c)
  BY <1>1 DEF Authenticates, BasicAuthenAndAuthor, UserPwAuth, JwtAuthenAndAuthor,
              ClientCertAuthenAndAuthor, AuthenticateCheck, RefreshCheck, Issues, Authenticate,
              Refresh
<1>2. CASE Get(c) \/ SubscribeRead(c) \/ Capabilities(c) \/ SystemRpc(c) \/ SetNothing(c)
  BY <1>2 DEF Get, SubscribeRead, Capabilities, SystemRpc, SetNothing
<1>3. CASE SetOne(c) \/ SetFallback(c) \/ SetBulk(c) \/ Action(c)
  BY <1>3 DEF SetOne, SetFallback, SetBulk, Action
<1>4. CASE Audits(c)
  BY <1>4 DEF Audits, AuditNext, AuditDial, AuditWrite
<1>. QED  BY <1>1, <1>2, <1>3, <1>4 DEF Serves, Handles

\* A call that has done nothing has nothing to log.
LEMMA EmptyRecords == Records(<<>>, <<>>)
<1> DEFINE f == [i \in 1..0 |-> i]
           log == <<>>
<1>1. {i \in DOMAIN log : log[i].ok} = {} /\ Cardinality({}) = 0
  BY FS_EmptySet
<1>2. f \in InOrder({})
  BY <1>1 DEF InOrder
<1>3. <<>> = [i \in DOMAIN f |-> log[f[i]].op]
  OBVIOUS
<1>. QED  BY <1>1, <1>2, <1>3 DEF Records

\* A step before the first entry: the call has done nothing that is logged.
LEMMA EarlyLogged ==
    ASSUME NEW c \in Calls, Logged(c), pc[c] \notin {"audit", "dial", "write", "done"},
           audit'[c] = audit[c], todo'[c] = todo[c], req'[c] = req[c],
           pc'[c] \notin {"audit", "dial", "write"},
           pc'[c] = "done" /\ LogsAll(c) => applied'[c] = <<>>
    PROVE  Logged(c)'
<1>1. audit'[c] = <<>> /\ todo'[c] = <<>>
  BY DEF Logged
<1>2. LogsAll(c)' <=> LogsAll(c)
  BY DEF LogsAll
<1>3. applied'[c] = <<>> => Records(applied[c], Log(c))'
  <2>1. Log(c)' = <<>>
    BY <1>1 DEF Log
  <2>. QED  BY <2>1, EmptyRecords
<1>4. (audit[c] \in Seq(Line) /\ todo[c] \in Seq(Entry))'
  BY DEF Logged
<1>. QED  BY <1>1, <1>2, <1>3, <1>4 DEF Logged

\* The steps of a call before its first entry, and of calls that log nothing.
LEMMA EarlyServesLogged ==
    ASSUME IInv, NEW c \in Calls, Logged(c), Serves(c), ~Audits(c), ~Action(c),
           SetBulk(c) => pc'[c] = "done" /\ UNCHANGED <<applied, todo>>
    PROVE  Logged(c)'
<1> USE DEF logVars, idVars, Return, Issue
<1>1. Handled(c) /\ pc \in [Calls -> Codes]
  BY DEF IInv, Types
<1>2. UNCHANGED <<audit, todo, req>>
  BY DEF Serves, Authenticates, BasicAuthenAndAuthor, UserPwAuth, JwtAuthenAndAuthor,
         ClientCertAuthenAndAuthor, AuthenticateCheck, RefreshCheck, Issues, Authenticate,
         Refresh, Handles, Get, SubscribeRead, Capabilities, SystemRpc, SetNothing, SetOne,
         SetFallback, SetBulk
<1>3. pc[c] \notin {"audit", "dial", "write", "done"}
  BY DEF Serves, Authenticates, BasicAuthenAndAuthor, UserPwAuth, JwtAuthenAndAuthor,
         ClientCertAuthenAndAuthor, AuthenticateCheck, RefreshCheck, Issues, Authenticate,
         Refresh, Handles, Get, SubscribeRead, Capabilities, SystemRpc, SetNothing, SetOne,
         SetFallback, SetBulk
<1>4. \A i \in 1..4 : Method(i) \notin {"audit", "dial", "write"}
  BY MethodFacts
<1>5. pc'[c] \notin {"audit", "dial", "write"}
  <2>1. CASE Authenticates(c) \/ Issues(c)
    BY <1>1, <1>4, <2>1 DEF Authenticates, BasicAuthenAndAuthor, UserPwAuth, JwtAuthenAndAuthor,
           ClientCertAuthenAndAuthor, AuthenticateCheck, RefreshCheck, Issues, Authenticate,
           Refresh, NextMethod, Success
  <2>2. CASE Handles(c)
    BY <1>1, <1>3, <2>2 DEF Handles, Get, SubscribeRead, Capabilities, SystemRpc, SetNothing,
           SetOne, SetFallback
  <2>. QED  BY <2>1, <2>2 DEF Serves
<1>6. ASSUME LogsAll(c)
      PROVE  applied'[c] = <<>>
  <2>1. CASE Authenticates(c) \/ Issues(c)
    BY <1>1, <2>1 DEF Authenticates, BasicAuthenAndAuthor, UserPwAuth, JwtAuthenAndAuthor,
           ClientCertAuthenAndAuthor, AuthenticateCheck, RefreshCheck, Issues, Authenticate,
           Refresh, Handled, Untouched
  <2>2. CASE Handles(c)
    <3>1. req[c].rpc \in {"Set", "Action"} /\ (req[c].rpc = "Set" => Len(SetOps(req[c])) > 1)
      BY <1>6 DEF LogsAll
    <3>2. ~SetOne(c) /\ ~SetFallback(c)
      <4>1. SetOne(c) => req[c].rpc = "Set" /\ Len(SetOps(req[c])) = 1
        BY DEF SetOne
      <4>2. SetFallback(c) => req[c].rpc = "Set" /\ Len(SetOps(req[c])) = 1
        BY <1>1 DEF SetFallback, Handled
      <4>3. Len(SetOps(req[c])) \in Nat
        BY SetOpsType DEF IInv, Types
      <4>4. ~(req[c].rpc = "Set" /\ Len(SetOps(req[c])) = 1)
        <5> DEFINE n == Len(SetOps(req[c]))
        <5>1. n \in Nat /\ (req[c].rpc = "Set" => n > 1)
          BY <3>1, <4>3
        <5> HIDE DEF n
        <5>2. ~(req[c].rpc = "Set" /\ n = 1)
          BY <5>1
        <5>. QED  BY <5>2 DEF n
      <4>. QED  BY <4>1, <4>2, <4>4
    <3>3. ~Get(c) /\ ~SubscribeRead(c) /\ ~Capabilities(c) /\ ~SystemRpc(c)
      BY <3>1 DEF Get, SubscribeRead, Capabilities, SystemRpc
    <3>4. SetNothing(c) \/ SetBulk(c)
      BY <2>2, <3>2, <3>3 DEF Handles
    <3>. QED  BY <1>1, <3>4 DEF SetNothing, SetBulk, Handled, Untouched
  <2>. QED  BY <2>1, <2>2 DEF Serves
<1>. QED  BY <1>2, <1>3, <1>5, <1>6, EarlyLogged

\* TranslProcessBulk and TranslProcessAction make the entries of what they did.
LEMMA HandlesLogged ==
    ASSUME IInv, AuditInv, NEW c \in Calls, Handles(c)
    PROVE  Logged(c)'
<1>1. Handled(c) /\ Logged(c) /\ Types /\ DOMAIN todo = Calls
  BY DEF IInv, AuditInv
<1>2. CASE SetBulk(c)
  <2> DEFINE ops == SetOps(req[c])
  <2>1. UNCHANGED <<audit, req>> /\ pc[c] = "body" /\ req[c].rpc = "Set"
    BY <1>2 DEF SetBulk, logVars, idVars
  <2>2. audit'[c] = <<>> /\ applied[c] = <<>>
    BY <1>1, <2>1 DEF Logged, Handled, Untouched
  <2>3. ops \in Seq(Operation) /\ Len(ops) \in Nat
    BY <1>1, SetOpsType DEF Types
  <2>4. CASE pc'[c] = "done" /\ UNCHANGED <<applied, todo>>
    BY <1>1, <1>2, <2>1, <2>4, EarlyServesLogged DEF Serves, Handles, Audits, AuditNext,
       AuditDial, AuditWrite, Action
  <2>5. ASSUME NEW out \in [1..Len(ops) -> BOOLEAN],
               NEW f \in InOrder({i \in 1..Len(ops) : out[i]}),
               applied'[c] = applied[c] \o [i \in DOMAIN f |-> ops[f[i]]],
               todo'[c] = Entries(ops, out), pc'[c] = "audit"
        PROVE  Logged(c)'
    <3> DEFINE S == {i \in 1..Len(ops) : out[i]}
               done == [i \in DOMAIN f |-> ops[f[i]]]
               log == Entries(ops, out)
    <3>1. log \in Seq(Entry) /\ DOMAIN log = 1..Len(ops)
      BY <2>3 DEF Entries, Entry
    <3>2. \A i \in 1..Len(ops) : log[i].ok = out[i] /\ log[i].op = ops[i]
      BY DEF Entries
    <3>3. Log(c)' = log
      BY <2>2, <2>5, <3>1 DEF Log
    <3>4. done \in Seq(Operation)
      <4>1. IsFiniteSet(S) /\ Cardinality(S) \in Nat
        <5>1. IsFiniteSet(1..Len(ops)) /\ S \in SUBSET (1..Len(ops))
          BY <2>3, FS_Interval
        <5>. QED  BY <5>1, FS_Subset, FS_CardinalityType
      <4>2. f \in [1..Cardinality(S) -> S]
        BY <2>5 DEF InOrder
      <4>3. done \in [1..Cardinality(S) -> Operation]
        BY <2>3, <4>2
      <4> HIDE DEF done, S
      <4>. QED  BY <4>1, <4>3
    <3>5. applied'[c] = done
      BY <2>2, <2>5, <3>4
    <3>6. Records(done, log)
      <4>1. f \in InOrder({i \in DOMAIN log : log[i].ok})
        <5>1. {i \in DOMAIN log : log[i].ok} = S
          BY <3>1, <3>2
        <5>. QED  BY <2>5, <5>1
      <4>2. DOMAIN f = 1..Cardinality(S) /\ \A i \in DOMAIN f : f[i] \in 1..Len(ops)
        BY <2>5 DEF InOrder
      <4>3. done = [i \in DOMAIN f |-> log[f[i]].op]
        BY <3>2, <4>2
      <4>. QED  BY <4>1, <4>3 DEF Records
    <3> HIDE DEF done, log
    <3>7. Records(applied[c], Log(c))'
      BY <3>3, <3>5, <3>6
    <3>8. (audit[c] \in Seq(Line) /\ todo[c] \in Seq(Entry))'
      BY <1>1, <2>1, <2>5, <3>1 DEF Logged, log
    <3>. QED  BY <2>2, <2>5, <3>7, <3>8 DEF Logged
  <2>6. \/ Return(c, "Unknown") /\ UNCHANGED <<config, applied, todo>>
        \/ \E out \in [1..Len(ops) -> BOOLEAN] :
              /\ \E f \in InOrder({i \in 1..Len(ops) : out[i]}) :
                    Carry(c, [i \in DOMAIN f |-> ops[f[i]]])
              /\ todo' = [todo EXCEPT ![c] = Entries(ops, out)]
              /\ Logging(c)
    BY <1>2 DEF SetBulk
  <2>7. DOMAIN pc = Calls /\ DOMAIN applied = Calls /\ DOMAIN todo = Calls
    BY <1>1 DEF Types
  <2>8. CASE Return(c, "Unknown") /\ UNCHANGED <<config, applied, todo>>
    BY <2>4, <2>7, <2>8 DEF Return
  <2>9. ASSUME NEW out \in [1..Len(ops) -> BOOLEAN],
               NEW f \in InOrder({i \in 1..Len(ops) : out[i]}),
               Carry(c, [i \in DOMAIN f |-> ops[f[i]]]),
               todo' = [todo EXCEPT ![c] = Entries(ops, out)], Logging(c)
        PROVE  Logged(c)'
    <3>1. applied'[c] = applied[c] \o [i \in DOMAIN f |-> ops[f[i]]]
      BY <2>7, <2>9 DEF Carry
    <3>2. todo'[c] = Entries(ops, out) /\ pc'[c] = "audit"
      BY <2>7, <2>9 DEF Logging
    <3>. QED  BY <2>5, <3>1, <3>2
  <2>. QED  BY <2>6, <2>8, <2>9
<1>3. CASE Action(c)
  <2>1. UNCHANGED audit /\ pc[c] = "body" /\ pc'[c] = "audit"
    BY <1>1, <1>3 DEF Action, logVars, Logging, Types
  <2>2. audit'[c] = <<>>
    BY <1>1, <2>1 DEF Logged
  <2>3. PICK ok \in BOOLEAN :
            /\ applied'[c] = IF ok THEN <<TheAction>> ELSE <<>>
            /\ todo'[c] = Entries(<<TheAction>>, <<ok>>)
    BY <1>1, <1>3 DEF Action, Types
  <2> DEFINE e == [op |-> TheAction, ok |-> ok]
  <2>4. todo'[c] = <<e>> /\ e \in Entry
    BY <2>3 DEF Entries, Entry
  <2>5. todo'[c] \in Seq(Entry) /\ Log(c)' = <<e>>
    BY <2>2, <2>4 DEF Log
  <2>6. Records(applied'[c], <<e>>)
    <3>1. CASE ok
      <4> DEFINE g == [i \in 1..1 |-> i]
      <4>1. {i \in DOMAIN <<e>> : <<e>>[i].ok} = {1}
        BY <3>1
      <4>2. Cardinality({1}) = 1
        BY FS_Singleton
      <4>3. g \in InOrder({1})
        BY <4>2 DEF InOrder
      <4>4. applied'[c] = [i \in DOMAIN g |-> <<e>>[g[i]].op]
        BY <2>3, <3>1
      <4> HIDE DEF g, e
      <4>. QED  BY <4>1, <4>3, <4>4 DEF Records
    <3>2. CASE ~ok
      <4> DEFINE g == [i \in 1..0 |-> i]
      <4>1. {i \in DOMAIN <<e>> : <<e>>[i].ok} = {} /\ Cardinality({}) = 0
        BY <3>2, FS_EmptySet
      <4>2. g \in InOrder({})
        BY <4>1 DEF InOrder
      <4>3. applied'[c] = [i \in DOMAIN g |-> <<e>>[g[i]].op]
        BY <2>3, <3>2
      <4> HIDE DEF g, e
      <4>. QED  BY <4>1, <4>2, <4>3 DEF Records
    <3>. QED  BY <3>1, <3>2
  <2>. QED  BY <1>1, <2>1, <2>2, <2>5, <2>6 DEF Logged
<1>4. CASE ~SetBulk(c) /\ ~Action(c)
  <2>1. ~Audits(c)
    BY DEF Handles, Get, SubscribeRead, Capabilities, SystemRpc, SetNothing, SetOne, SetFallback,
           SetBulk, Action, Audits, AuditNext, AuditDial, AuditWrite
  <2>. QED  BY <1>1, <1>4, <2>1, EarlyServesLogged DEF Serves
<1>. QED  BY <1>2, <1>3, <1>4

\* The entries of a log are a list of entries.
LEMMA EntriesOf ==
    ASSUME NEW s \in Seq(Line)
    PROVE  /\ [i \in 1..Len(s) |-> s[i].entry] \in Seq(Entry)
           /\ DOMAIN [i \in 1..Len(s) |-> s[i].entry] = DOMAIN s
<1>1. \A i \in 1..Len(s) : s[i] \in Line
  OBVIOUS
<1>2. \A i \in 1..Len(s) : s[i].entry \in Entry
  BY <1>1 DEF Line
<1>3. Len(s) \in Nat /\ DOMAIN s = 1..Len(s)
  OBVIOUS
<1>. QED  BY <1>2, <1>3

\* The first of the entries to come becomes the last of those written.
LEMMA PassOn ==
    ASSUME NEW S, NEW s \in Seq(S), NEW t \in Seq(S), t # <<>>
    PROVE  Append(s, Head(t)) \o Tail(t) = s \o t
<1>1. Head(t) \in S /\ Tail(t) \in Seq(S) /\ Len(Tail(t)) = Len(t) - 1 /\ Len(t) \in Nat \ {0}
  OBVIOUS
<1>2. Append(s, Head(t)) \in Seq(S) /\ Len(Append(s, Head(t))) = Len(s) + 1 /\ Len(s) \in Nat
  BY <1>1
<1> DEFINE a == Append(s, Head(t)) \o Tail(t)
           b == s \o t
<1>3. a \in Seq(S) /\ b \in Seq(S) /\ Len(a) = Len(s) + Len(t) /\ Len(b) = Len(s) + Len(t)
  BY <1>1, <1>2
<1>4. ASSUME NEW i \in 1..(Len(s) + Len(t))
      PROVE  a[i] = b[i]
  <2>1. CASE i <= Len(s)
    BY <1>1, <1>2, <2>1
  <2>2. CASE i = Len(s) + 1
    BY <1>1, <1>2, <2>2
  <2>3. CASE i > Len(s) + 1
    <3>1. a[i] = Tail(t)[i - (Len(s) + 1)]
      BY <1>1, <1>2, <2>3
    <3>2. Tail(t)[i - (Len(s) + 1)] = t[i - Len(s)]
      BY <1>1, <1>2, <2>3
    <3>3. b[i] = t[i - Len(s)]
      BY <1>1, <1>2, <2>3
    <3>. QED  BY <3>1, <3>2, <3>3
  <2>. QED  BY <1>1, <1>2, <2>1, <2>2, <2>3
<1> HIDE DEF a, b
<1>5. a = b
  BY <1>1, <1>2, <1>3, <1>4
<1>. QED  BY <1>5 DEF a, b

\* __log_audit_msg passes the entries on one by one, and Writer is open.
LEMMA AuditsLogged ==
    ASSUME ~DialFails, IInv, AuditInv, NEW c \in Calls, Audits(c)
    PROVE  Logged(c)'
<1>1. /\ Logged(c) /\ Types /\ DOMAIN todo = Calls /\ DOMAIN audit = Calls /\ DOMAIN pc = Calls
      /\ WriterOpen
  BY DEF IInv, AuditInv, Types
<1>2. UNCHANGED <<applied, rc, req>> /\ (LogsAll(c)' <=> LogsAll(c))
  BY DEF Audits, AuditNext, AuditDial, AuditWrite, idVars, LogsAll
<1>3. audit[c] \in Seq(Line) /\ todo[c] \in Seq(Entry) /\ Records(applied[c], Log(c))
  BY <1>1 DEF Audits, AuditNext, AuditDial, AuditWrite, Logged
<1>4. CASE UNCHANGED <<audit, todo>> /\ pc'[c] \in {"done", "audit", "dial", "write"}
           /\ (pc'[c] = "done" => todo[c] = <<>>)
           /\ (pc'[c] \in {"dial", "write"} => todo[c] # <<>>)
  <2>1. Log(c)' = Log(c)
    BY <1>4 DEF Log
  <2>2. Records(applied[c], Log(c))'
    BY <1>2, <1>3, <2>1
  <2>. QED  BY <1>1, <1>2, <1>3, <1>4, <2>2 DEF Logged
<1>5. CASE AuditNext(c)
  <2>1. UNCHANGED <<audit, todo>>
    BY <1>5 DEF AuditNext, logVars
  <2>2. /\ pc'[c] \in {"done", "audit", "dial", "write"}
        /\ pc'[c] = "done" => todo[c] = <<>>
        /\ pc'[c] \in {"dial", "write"} => todo[c] # <<>>
    BY <1>1, <1>5 DEF AuditNext
  <2>. QED  BY <1>4, <2>1, <2>2
<1>6. CASE AuditDial(c)
  <2>1. UNCHANGED <<audit, todo>> /\ pc'[c] = "write" /\ pc[c] = "dial"
    BY <1>1, <1>6 DEF AuditDial
  <2>2. todo[c] # <<>>
    BY <1>1, <2>1 DEF Logged
  <2>. QED  BY <1>4, <2>1, <2>2
<1>7. CASE AuditWrite(c)
  <2> DEFINE e == Head(todo[c])
             x == [user |-> rc[c].user, entry |-> e]
  <2>1. pc[c] = "write" /\ pc'[c] = "audit" /\ writer # "nil" /\ todo[c] # <<>>
    BY <1>1, <1>7 DEF AuditWrite, WriterOpen, Logged
  <2>2. audit'[c] = Append(audit[c], x) /\ todo'[c] = Tail(todo[c])
    BY <1>1, <1>7, <2>1 DEF AuditWrite
  <2>3. e \in Entry /\ x \in Line
    <3>1. e \in Entry
      BY <1>3, <2>1
    <3>2. rc[c].user \in Users \cup {NoUser}
      BY <1>1 DEF Types, Context
    <3>. QED  BY <3>1, <3>2 DEF Line
  <2>4. audit'[c] \in Seq(Line) /\ todo'[c] \in Seq(Entry)
    BY <1>3, <2>1, <2>2, <2>3
  <2>5. Log(c)' = Log(c)
    <3> DEFINE n == Len(audit[c])
               E == [i \in 1..n |-> audit[c][i].entry]
    <3>1. n \in Nat /\ E \in Seq(Entry) /\ Len(E) = n
      <4>1. E \in Seq(Entry) /\ DOMAIN E = DOMAIN audit[c]
        BY <1>3, EntriesOf
      <4>. QED  BY <1>3, <4>1
    <3>2. [i \in 1..Len(audit'[c]) |-> audit'[c][i].entry] = Append(E, e)
      BY <1>3, <2>2, <3>1
    <3>3. Append(E, e) \o Tail(todo[c]) = E \o todo[c]
      BY <1>3, <2>1, <3>1, PassOn
    <3>. QED  BY <2>2, <3>2, <3>3 DEF Log
  <2>6. Records(applied[c], Log(c))'
    BY <1>2, <1>3, <2>5
  <2>7. \A i \in DOMAIN audit'[c] : audit'[c][i].user = rc[c].user
    <3>1. \A i \in DOMAIN audit[c] : audit[c][i].user = rc[c].user
      BY <1>1 DEF Logged
    <3>. QED  BY <1>3, <2>2, <3>1
  <2>. QED  BY <1>2, <2>1, <2>4, <2>6, <2>7 DEF Logged
<1>. QED  BY <1>5, <1>6, <1>7 DEF Audits

\* Every step keeps the audit log and what is left to log in step with what
\* translib carried out.
LEMMA AuditInvNext ==
    ASSUME ~DialFails, IInv, AuditInv, [Next]_vars
    PROVE  AuditInv'
<1>1. load.slots \subseteq Calls /\ Types
  BY RequestFacts DEF IInv, Types
<1>2. ASSUME NEW d \in Calls, pc'[d] = pc[d], audit'[d] = audit[d], todo'[d] = todo[d],
             applied'[d] = applied[d], rc'[d] = rc[d], req'[d] = req[d]
      PROVE  Logged(d)'
  <2>1. Logged(d) /\ (LogsAll(d)' <=> LogsAll(d)) /\ Log(d)' = Log(d)
    BY <1>2 DEF AuditInv, LogsAll, Log
  <2>2. Records(applied[d], Log(d))' <=> Records(applied[d], Log(d))
    BY <1>2, <2>1
  <2>. QED  BY <1>2, <2>1, <2>2 DEF Logged
<1>3. ASSUME NEW c \in Calls, Serves(c)
      PROVE  AuditInv'
  <2>1. /\ \A d \in Calls \ {c} : audit'[d] = audit[d] /\ todo'[d] = todo[d]
        /\ DOMAIN audit' = Calls /\ DOMAIN todo' = Calls
    BY <1>3, ServesLogAlone
  <2>2. Alone(c)
    BY <1>1, <1>3, ServesAlone
  <2>3. \A d \in Calls \ {c} : Logged(d)'
    BY <1>2, <2>1, <2>2 DEF Alone, idVars
  <2>4. CASE Audits(c)
    BY <2>1, <2>3, <2>4, AuditsLogged DEF AuditInv
  <2>5. CASE Handles(c)
    BY <2>1, <2>3, <2>5, HandlesLogged DEF AuditInv
  <2>6. CASE Authenticates(c) \/ Issues(c)
    <3>1. ~Audits(c) /\ ~Action(c) /\ ~SetBulk(c)
      BY <2>6 DEF Audits, AuditNext, AuditDial, AuditWrite, Action, SetBulk, Authenticates,
             BasicAuthenAndAuthor, UserPwAuth, JwtAuthenAndAuthor, ClientCertAuthenAndAuthor,
             AuthenticateCheck, RefreshCheck, Issues, Authenticate, Refresh
    <3>2. Logged(c)'
      BY <1>3, <3>1, EarlyServesLogged DEF AuditInv
    <3>. QED  BY <2>1, <2>3, <3>2 DEF AuditInv
  <2>. QED  BY <1>3, <2>4, <2>5, <2>6 DEF Serves
<1>4. ASSUME NEW d \in Calls, audit'[d] = <<>>, todo'[d] = <<>>, applied'[d] = <<>>,
             pc'[d] \notin {"audit", "dial", "write"}
      PROVE  Logged(d)'
  <2>1. Log(d)' = <<>>
    BY <1>4 DEF Log
  <2>2. Records(applied[d], Log(d))'
    BY <1>4, <2>1, EmptyRecords
  <2>3. <<>> \in Seq(Line) /\ <<>> \in Seq(Entry)
    OBVIOUS
  <2>. QED  BY <1>4, <2>2, <2>3 DEF Logged
<1>5. ASSUME NEW c \in Calls, Arrives(c)
      PROVE  AuditInv'
  <2>1. PICK r, t : Invoke(c, r, t)
    BY <1>5 DEF Arrives
  <2>2. /\ \A d \in Calls \ {c} :
              /\ pc'[d] = pc[d] /\ audit'[d] = audit[d] /\ todo'[d] = todo[d]
              /\ applied'[d] = applied[d] /\ rc'[d] = rc[d] /\ req'[d] = req[d]
        /\ DOMAIN audit' = Calls /\ DOMAIN todo' = Calls
        /\ audit'[c] = <<>> /\ todo'[c] = <<>> /\ applied'[c] = <<>>
    BY <1>1, <2>1 DEF Invoke, Return, DecodeFails, Types, AuditInv
  <2>3. pc'[c] \notin {"audit", "dial", "write"}
    BY <1>1, <2>1, MethodFacts DEF Invoke, Return, DecodeFails, Types
  <2>. QED  BY <1>2, <1>4, <2>2, <2>3 DEF AuditInv
<1>6. CASE Crash
  <2>1. \A d \in Calls : /\ audit'[d] = <<>> /\ todo'[d] = <<>>
                         /\ applied'[d] = <<>> /\ pc'[d] = "idle"
    BY <1>6 DEF Crash
  <2>2. DOMAIN audit' = Calls /\ DOMAIN todo' = Calls
    BY <1>6 DEF Crash
  <2>. QED  BY <1>4, <2>1, <2>2 DEF AuditInv
<1>7. CASE (\E l \in load.launches : Start(l)) \/ Tick \/ ChangeRoles \/ UNCHANGED vars
  <2>1. UNCHANGED <<pc, audit, todo, applied, rc, req>>
    BY <1>7 DEF Start, Tick, ChangeRoles, vars, logVars, idVars
  <2>. QED  BY <1>2, <2>1 DEF AuditInv
<1>8. ASSUME NEW c \in load.slots, Call(c)
      PROVE  AuditInv'
  <2>1. Arrives(c) \/ Serves(c)
    BY <1>8 DEF Call, Arrives, Serves, Authenticates, Issues, Handles, Audits
  <2>. QED  BY <1>1, <1>3, <1>5, <2>1
<1>. QED  BY <1>6, <1>7, <1>8 DEF Next

\* Nothing is logged when the system starts.
LEMMA AuditInvInit == Init => AuditInv
<1> SUFFICES ASSUME Init PROVE AuditInv
  OBVIOUS
<1>1. DOMAIN audit = Calls /\ DOMAIN todo = Calls
  BY DEF Init
<1>2. \A c \in Calls : audit[c] = <<>> /\ todo[c] = <<>> /\ pc[c] = "idle"
  BY DEF Init
<1>3. <<>> \in Seq(Line) /\ <<>> \in Seq(Entry)
  OBVIOUS
<1>4. \A c \in Calls : Logged(c)
  <2> SUFFICES ASSUME NEW c \in Calls PROVE Logged(c)
    OBVIOUS
  <2>1. audit[c] = <<>> /\ todo[c] = <<>> /\ pc[c] = "idle"
    BY <1>2
  <2>. QED  BY <1>3, <2>1 DEF Logged
<1>. QED  BY <1>1, <1>4 DEF AuditInv

(***************************************************************************)
(* TranslProcessBulk and TranslProcessAction: while syslog can be reached, *)
(* what translib carried out for a call is in the audit log when the call  *)
(* returns, in its order and under the call's user, whatever other calls   *)
(* log.                                                                    *)
(***************************************************************************)
THEOREM AuditIsComplete ==
    ASSUME ~DialFails
    PROVE  Spec => []AuditComplete
<1>1. AuditInv => AuditComplete
  <2>1. SUFFICES ASSUME AuditInv, NEW c \in Calls, pc[c] = "done", LogsAll(c)
                 PROVE  /\ \E f \in InOrder({i \in DOMAIN audit[c] : audit[c][i].entry.ok}) :
                              applied[c] = [i \in DOMAIN f |-> audit[c][f[i]].entry.op]
                        /\ \A i \in DOMAIN audit[c] : audit[c][i].user = rc[c].user
    BY DEF AuditComplete
  <2>2. /\ audit[c] \in Seq(Line) /\ todo[c] = <<>>
        /\ Records(applied[c], Log(c))
        /\ \A i \in DOMAIN audit[c] : audit[c][i].user = rc[c].user
    BY <2>1 DEF AuditInv, Logged
  <2> DEFINE log == [i \in 1..Len(audit[c]) |-> audit[c][i].entry]
             S == {i \in DOMAIN audit[c] : audit[c][i].entry.ok}
  <2>3. log \in Seq(Entry) /\ DOMAIN log = DOMAIN audit[c]
    BY <2>2, EntriesOf
  <2>4. Log(c) = log
    BY <2>2, <2>3 DEF Log
  <2>5. {i \in DOMAIN log : log[i].ok} = S /\ \A i \in S : log[i] = audit[c][i].entry
    BY <2>2, <2>3
  <2>6. PICK f \in InOrder(S) : applied[c] = [i \in DOMAIN f |-> log[f[i]].op]
    BY <2>2, <2>4, <2>5, ZenonT(40) DEF Records
  <2>7. \A i \in DOMAIN f : f[i] \in S
    BY DEF InOrder
  <2>8. applied[c] = [i \in DOMAIN f |-> audit[c][f[i]].entry.op]
    BY <2>5, <2>6, <2>7
  <2>. QED  BY <2>2, <2>8
<1>2. IInv /\ AuditInv /\ [Next]_vars => AuditInv'
  BY AuditInvNext
<1>. QED  BY <1>1, <1>2, AuditInvInit, Invariance, PTL DEF Spec
=============================================================================
