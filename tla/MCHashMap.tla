----------------------------- MODULE MCHashMap ------------------------------
(* A small instance of HashMap: both keys hash to the last slot. *)
EXTENDS HashMap, TLC

MCHash == [k \in Keys |-> Capacity - 1]
Symmetry == Permutations(Threads) \cup Permutations(Keys)
=============================================================================
