---------------------------- MODULE MCRpcServer ----------------------------
EXTENDS RpcServer
CONSTANTS c1, c2, u1, u2, p1, p2

R(rpc) == [NoRequest EXCEPT !.rpc = rpc]

\* Passwords, tokens and certificates of different users in one request, and
\* requests of every kind.
AuthRequests ==
    {[R("Get") EXCEPT !.user = u1, !.good = g, !.token = t, !.cert = u2, !.get = {p1, p2}] :
        g, t \in BOOLEAN}
    \cup {[R("Get") EXCEPT !.valid = FALSE, !.cert = u2],
          [R("Get") EXCEPT !.badver = TRUE, !.cert = u1, !.get = {p1}],
          [R("Subscribe") EXCEPT !.cert = u1], R("Capabilities"), R("System")}

SetRequests ==
    LET S == [R("Set") EXCEPT !.cert = u1] IN
    {[S EXCEPT !.delete = <<p1>>], [S EXCEPT !.update = <<p1>>],
     [S EXCEPT !.replace = <<p1>>, !.badver = TRUE], S,
     [S EXCEPT !.delete = <<p1>>, !.replace = <<p1>>, !.cert = u2],
     [S EXCEPT !.delete = <<p1>>, !.replace = <<p2>>, !.update = <<p1, p2>>]}

Secure(ms) == [by |-> "library", auth |-> ms, given |-> TRUE, tls |-> TRUE, ca |-> TRUE,
               rw |-> TRUE]

AuthLaunches == {Secure(<<"password", "jwt">>), Secure(<<"jwt", "cert">>),
                 Secure(<<"password", "cert">>), [Secure(<<"cert", "none">>) EXCEPT !.tls = FALSE, !.rw = FALSE]}

SetLaunches == {Secure(<<"cert">>), [Secure(<<"cert">>) EXCEPT !.rw = FALSE]}

MainLaunches == {[by |-> "main", auth |-> <<>>, given |-> FALSE, tls |-> TRUE, ca |-> FALSE,
                  rw |-> TRUE]}

\* One call at a time, with time, restarts and changes of groups
AuthLoad == [slots |-> {c1}, requests |-> AuthRequests, cli |-> {u1},
             launches |-> AuthLaunches, time |-> 2, starts |-> 2, changes |-> 1]

\* Two calls at a time
SetLoad == [slots |-> {c1, c2}, requests |-> SetRequests, cli |-> {},
            launches |-> SetLaunches, time |-> 0, starts |-> 1, changes |-> 0]

Both == {AuthLoad, SetLoad}
Auths == {AuthLoad}
Sets == {SetLoad}
Mains == {[AuthLoad EXCEPT !.launches = MainLaunches]}

Admins == {{"admin"}}
=============================================================================
