------------------------------- MODULE MCWal --------------------------------
(* Small instances of Wal. *)
EXTENDS Wal
=============================================================================
