---------------------------- MODULE MCFieldStream ----------------------------
(***************************************************************************)
(* FieldStream for TLC: two fields of a virtual path, on change and        *)
(* updates-only sampled, and one field that is not virtual, on change and  *)
(* sampled.                                                                *)
(***************************************************************************)
EXTENDS FieldStream

CONSTANTS c1, c2

FieldSub(cs, virtual, onChange, updateOnly) ==
    [cells |-> cs, virtual |-> virtual, onChange |-> onChange,
     updateOnly |-> updateOnly]

FieldSubs == {FieldSub({c1, c2}, TRUE, TRUE, FALSE),
              FieldSub({c1, c2}, TRUE, FALSE, TRUE),
              FieldSub({c1}, FALSE, TRUE, FALSE),
              FieldSub({c1}, FALSE, FALSE, FALSE)}
=============================================================================
