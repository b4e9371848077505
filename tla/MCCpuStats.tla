----------------------------- MODULE MCCpuStats -----------------------------
(***************************************************************************)
(* CpuStats with the constants of the code.                                *)
(***************************************************************************)
EXTENDS CpuStats

CodeOffsets == <<2, 10, 50, 600, 30000>>

\* 100 ms, 10*100ms, 50*100ms, 600*100ms, 5*600*100ms
CodeComments == <<1, 10, 50, 600, 3000>>
=============================================================================
