---------------------------- MODULE MCCompaction ----------------------------
(* A small instance of Compaction. *)
EXTENDS Compaction

\* A key is absent, written, deleted, or written after a deletion.
MCHistories == {<< >>, <<"put">>, <<"del">>, <<"put", "del">>}

\* Memtables of one key, or of two keys of which the first is written, or is
\* deleted and next to one that is written.  Only the last key has two versions,
\* which end up in two blocks if there is another key.
MCMemtables ==
  {h \in [1 .. 3 -> MCHistories] :
     LET used == {k \in 1 .. 3 : h[k] # << >>}
     IN  /\ \A k \in used : Len(h[k]) = 2 => k = 3
         /\ \/ Cardinality(used) = 1
            \/ /\ Cardinality(used) = 2
               /\ h[Min(used)] = <<"put">> \/ (h[1] = <<"del">> /\ h[2] = <<"put">>)}

\* Two words of four bits to a block, so that three keys need two blocks; keys
\* 1 and 2 go to different ones.  The words of keys 1 and 3 are the same: the
\* filter takes one for the other.
MCHash64 == <<[high |-> 0, low |-> 3], [high |-> 1, low |-> 6], [high |-> 2, low |-> 3]>>
MCSalts == <<3, 5>>
=============================================================================
