------------------------------ MODULE CpuStats ------------------------------
(***************************************************************************)
(* The ring of CPU statistics of the non-DB data client                    *)
(* (sonic_data_client/non_db_client.go): pollStats writes a sample into it *)
(* every 100 ms, getCpuUtilStat compares the newest sample with the ones   *)
(* some steps back, for utilization rates over 100 ms, 1 s, 5 s, 1 min and *)
(* 5 min.  Indices are of type uint64.                                     *)
(*                                                                         *)
(* A sample is its number; what it says about the CPUs is left out, so a   *)
(* rate is the number of the sample it is taken from.                      *)
(***************************************************************************)
EXTENDS Integers, Sequences

CONSTANTS Cap,         \* statsRingCap
          Offsets,     \* the steps back, one for each rate, in the code's order
          Said,        \* the intervals of 100 ms the code's comments give for them
          Starts,      \* numbers of samples taken when a behaviour begins
          MaxSamples   \* bound: samples taken

ASSUME CpuStatsAssumption ==
    /\ Cap \in 2..32767
    /\ Offsets \in Seq(Nat \ {0}) /\ Said \in Seq(Nat) /\ Len(Said) = Len(Offsets)
    /\ Starts \subseteq 0..Cap
    /\ MaxSamples \in Nat

VARIABLES writeIdx,  \* statsR.writeIdx
          buff,      \* statsR.buff: the number of the sample in a slot, 0 for nil
          taken,     \* samples taken
          rates      \* the last answer: for each rate the sample it goes back to

statsVars == <<writeIdx, buff, taken, rates>>

Slots == 0 .. Cap - 1

NoRates == [x \in DOMAIN Offsets |-> 0]

SquareMod(x) == (x * x) % Cap

\* the remainder of 2^64 by the capacity, by squaring 2^16 twice
WordMod == SquareMod(SquareMod(65536 % Cap))

-----------------------------------------------------------------------------
(* Faulty variants of definitions below, for mutation testing. *)

SlotNoCap(k) ==             \* (writeIdx - k) % statsRingCap
    IF writeIdx >= k THEN (writeIdx - k) % Cap
    ELSE (WordMod + (writeIdx - k)) % Cap

-----------------------------------------------------------------------------
(***************************************************************************)
(* (writeIdx + statsRingCap - k) % statsRingCap in 64-bit arithmetic: a    *)
(* negative difference has 2^64 added to it.                               *)
(***************************************************************************)
Slot(k) ==
    IF writeIdx + Cap >= k THEN (writeIdx + Cap - k) % Cap
    ELSE (WordMod + (writeIdx + Cap - k)) % Cap

NextIdx == (writeIdx + 1) % Cap

(***************************************************************************)
(* One round of pollStats.                                                 *)
(***************************************************************************)
PollStats ==
    /\ taken < MaxSamples
    /\ taken' = taken + 1
    /\ buff' = [buff EXCEPT ![writeIdx] = taken + 1]
    /\ writeIdx' = NextIdx
    /\ rates' = NoRates

(***************************************************************************)
(* getCpuUtilStat fills in the rates one after the other and returns at    *)
(* the first whose slot has no sample yet.                                 *)
(***************************************************************************)
HasRate(x) == \A y \in 1..x : buff[Slot(Offsets[y])] # 0

GetCpuUtilStat ==
    /\ rates' = [x \in DOMAIN Offsets |->
                    IF HasRate(x) THEN buff[Slot(Offsets[x])] ELSE 0]
    /\ UNCHANGED <<writeIdx, buff, taken>>

(***************************************************************************)
(* The empty ring, or the ring after the first samples of its first round. *)
(***************************************************************************)
StatsInit ==
    /\ taken \in Starts
    /\ writeIdx = taken % Cap
    /\ buff = [i \in Slots |-> IF i < taken THEN i + 1 ELSE 0]
    /\ rates = NoRates

StatsNext == PollStats \/ GetCpuUtilStat

StatsSpec == StatsInit /\ [][StatsNext]_statsVars

-----------------------------------------------------------------------------
(* Properties *)

(***************************************************************************)
(* Every rate compares the newest sample, which is in the slot before      *)
(* writeIdx by then, with one of the last statsRingCap samples, as soon as *)
(* there is one and across every wrap-around of the ring and of uint64;    *)
(* and a rate with offset k that fits in the ring goes back k - 1          *)
(* intervals, from the newest of k samples to the oldest.                  *)
(***************************************************************************)
WindowSpans ==
    \A x \in DOMAIN Offsets :
        rates[x] # 0 =>
            /\ buff[Slot(1)] = taken
            /\ rates[x] \in (taken - Cap + 1)..taken
            /\ Offsets[x] <= Cap => taken - rates[x] = Offsets[x] - 1

(***************************************************************************)
(* "Get cpu utilization rate within last 100ms", "1s (10*100ms)", "5s      *)
(* (50*100ms)", "1m (600*100ms)", "5m (5*600*100ms)": a rate goes back as  *)
(* many intervals of 100 ms.                                               *)
(***************************************************************************)
WindowsAsSaid ==
    \A x \in DOMAIN Offsets : rates[x] # 0 => taken - rates[x] = Said[x]
=============================================================================
