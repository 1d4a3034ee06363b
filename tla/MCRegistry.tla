----------------------------- MODULE MCRegistry -----------------------------
(***************************************************************************)
(* Registry on a small instance.                                           *)
(***************************************************************************)
EXTENDS Registry, TLC

\* Keys, addresses and hardware addresses are interchangeable.
Symmetry == Permutations(Keys) \cup Permutations(Ips) \cup Permutations(Macs)

Used == {k \in Keys : keyState[k] # "none"}

\* Bounds for two keys: handlers at work at the same time, copies of a key's
\* rules, and no stop of the process.
TwoKeys ==
    Cardinality(Used) = 2 =>
       /\ stops = 0
       /\ Cardinality({t \in Threads : ~IsIdle(t)}) <= 2
       /\ \A k \in Keys : nft.rules[k] <= 1
=============================================================================
