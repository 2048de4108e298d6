---------------------------- MODULE MCMPMCQueue -----------------------------
(* A small instance of MPMCQueue. *)
EXTENDS MPMCQueue

=============================================================================
