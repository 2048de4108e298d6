----------------------------- MODULE MCSkipList -----------------------------
(* Small instances of SkipList. *)
EXTENDS SkipList
=============================================================================
