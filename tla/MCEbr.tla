------------------------------- MODULE MCEbr --------------------------------
(* Small instances of Ebr. *)
EXTENDS Ebr, TLC

Symmetry == Permutations(Threads \ Retirers) \cup Permutations(Retirers)
=============================================================================
