---------------------------- MODULE MCAccounting ----------------------------
(***************************************************************************)
(* Accounting on a small instance: the volumes of DailyCredit are a few    *)
(* units, a unit is what a device can send between two steps.              *)
(***************************************************************************)
EXTENDS Accounting

\* A key was added after the start, or may be.
Grows == known < NKeys \/ rows[NKeys][1].day # 0

\* Bounds: when all keys are there at the start, one unit of traffic each.
\* Nothing is claimed of what comes after an overlap of two passes.
Bounds == ~overlapped /\ (Grows \/ \A k \in Keys : sent[k] <= 1)

\* What the passes bring about, for a start with devices of one key.
LiveInit == Init /\ Cardinality(paired) = 1

LiveSpec == LiveInit /\ [][Next]_vars /\ Fairness
=============================================================================
