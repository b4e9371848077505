---------------------------- MODULE ResponseStore ----------------------------
(***************************************************************************)
(* What a collector promises about the responses published to it: they are *)
(* kept in one list, those of one call in the order they were sent in,     *)
(* none twice and none left out between two that are kept.                 *)
(***************************************************************************)
EXTENDS Naturals, Sequences

CONSTANTS Calls, MaxSent   \* Publish calls; bound: responses of one call

VARIABLES sent,   \* number of responses a call has sent: 1, 2, ...
          kept,   \* number of them that have been kept
          list    \* the responses kept: call and number

vars == <<sent, kept, list>>

Init ==
    /\ sent = [c \in Calls |-> 0]
    /\ kept = [c \in Calls |-> 0]
    /\ list = <<>>

Send(c) ==
    /\ sent[c] < MaxSent
    /\ sent' = [sent EXCEPT ![c] = @ + 1]
    /\ UNCHANGED <<kept, list>>

Keep(c) ==
    /\ kept[c] < sent[c]
    /\ kept' = [kept EXCEPT ![c] = @ + 1]
    /\ list' = Append(list, <<c, kept'[c]>>)
    /\ UNCHANGED sent

Next == \E c \in Calls : Send(c) \/ Keep(c)

Spec == Init /\ [][Next]_vars
=============================================================================
