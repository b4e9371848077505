--------------------------- MODULE ResponseRounds ---------------------------
(***************************************************************************)
(* What the client of a Subscribe call may rely on: the responses of a     *)
(* call come in rounds, each closed by a sync_response that follows a      *)
(* value of every path.  STREAM and ONCE have one round, after which a     *)
(* STREAM goes on with updates; POLL has one round at first and one for    *)
(* each poll, and a round begins when the one before is closed.  Only the  *)
(* first round of an updates_only query may be closed without values.      *)
(* Nothing follows the end of a call.                                      *)
(***************************************************************************)
EXTENDS Naturals

CONSTANTS Streams, Paths

VARIABLES phase,   \* "new", "open" or "over"
          mode,    \* subscription mode
          exempt,  \* updates_only
          got,     \* round of the last value of each path
          syncs    \* rounds closed by a sync_response

vars == <<phase, mode, exempt, got, syncs>>

Modes == {"STREAM", "POLL", "ONCE"}

Init ==
    /\ phase = [s \in Streams |-> "new"]
    /\ mode \in [Streams -> Modes] /\ exempt \in [Streams -> BOOLEAN]
    /\ got = [s \in Streams |-> [p \in Paths |-> 0]]
    /\ syncs = [s \in Streams |-> 0]

Begin(s) ==
    /\ phase[s] = "new"
    /\ phase' = [phase EXCEPT ![s] = "open"]
    /\ \E m \in Modes : mode' = [mode EXCEPT ![s] = m]
    /\ \E e \in BOOLEAN : exempt' = [exempt EXCEPT ![s] = e]
    /\ UNCHANGED <<got, syncs>>

\* The first round of a STREAM is never left.
Round(s) == IF mode[s] = "STREAM" THEN 1 ELSE syncs[s] + 1

Value(s, p) ==
    /\ phase[s] = "open"
    /\ mode[s] = "ONCE" => syncs[s] = 0
    /\ got' = [got EXCEPT ![s][p] = Round(s)]
    /\ UNCHANGED <<phase, mode, exempt, syncs>>

Sync(s) ==
    /\ phase[s] = "open"
    /\ mode[s] # "POLL" => syncs[s] = 0
    /\ (exempt[s] /\ syncs[s] = 0) \/ \A p \in Paths : got[s][p] = Round(s)
    /\ syncs' = [syncs EXCEPT ![s] = @ + 1]
    /\ UNCHANGED <<phase, mode, exempt, got>>

End(s) ==
    /\ phase[s] # "over"
    /\ phase' = [phase EXCEPT ![s] = "over"]
    /\ UNCHANGED <<mode, exempt, got, syncs>>

Next == \E s \in Streams : Begin(s) \/ (\E p \in Paths : Value(s, p)) \/ Sync(s) \/ End(s)

Spec == Init /\ [][Next]_vars
=============================================================================
