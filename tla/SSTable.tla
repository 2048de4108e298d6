------------------------------ MODULE SSTable -------------------------------
(***************************************************************************)
(* The table files of tier3_storage/src/sstable: how the writer cuts the   *)
(* entries into blocks, how the reader finds a key, how the streaming      *)
(* iterator reads everything back.                                         *)
(*                                                                         *)
(* A file is the sequence of its blocks and the filter over its keys; the  *)
(* index holds the last key of each block.                                 *)
(***************************************************************************)
EXTENDS BloomFilter, SequencesExt

CONSTANT
  TARGET_BLOCK_SIZE  \* size at which a block is closed

ASSUME BlockSizeAssumption == TARGET_BLOCK_SIZE \in Nat \ {0}

\* Keys are numbered from 1 in their order: the first is the empty byte string,
\* a key like any other.  NoKey stands for None.
EmptyKey == 1
NoKey == 0

Entry(k, s, d) == [key |-> k, seq |-> s, del |-> d]

\* estimated_size: one for each entry and one for each value; a tombstone has
\* none.
BlockSize(b) == Len(b) + Cardinality({i \in DOMAIN b : ~b[i].del})

-----------------------------------------------------------------------------
(* The writer *)

\* append: the entry goes to the open block, the last of bs, which is closed,
\* and a new one opened, when it has reached the target size.
AppendEntry(bs, e) ==
  LET b == Append(Last(bs), e)
  IN  IF BlockSize(b) >= TARGET_BLOCK_SIZE THEN Append(Front(bs), b) \o <<<< >>>>
      ELSE Append(Front(bs), b)

\* The blocks after create and n appends.
Written(es) ==
  LET written[n \in 0 .. Len(es)] ==
        IF n = 0 THEN <<<< >>>> ELSE AppendEntry(written[n - 1], es[n])
  IN  written

\* finish leaves an empty open block out.
WriteTable(es) ==
  LET bs == Written(es)[Len(es)]
  IN  IF Last(bs) = << >> THEN Front(bs) ELSE bs

\* finish builds the filter of all the entries' keys, repeated ones included.
WriteFilter(es) == Build([i \in DOMAIN es |-> es[i].key])

-----------------------------------------------------------------------------
(* The readers *)

LastKey(b) == Last(b).key

\* get_first_key and get_last_key, or the empty key for a table without blocks.
Smallest(bs) == IF bs = << >> THEN EmptyKey ELSE Head(Head(bs)).key
Largest(bs) == IF bs = << >> THEN EmptyKey ELSE LastKey(Last(bs))

\* What binary_search_by may answer: any block whose last key is k or, if there
\* is none, the first whose last key is larger.
BlocksFor(bs, k) ==
  LET equal == {i \in DOMAIN bs : LastKey(bs[i]) = k}
      larger == {i \in DOMAIN bs : LastKey(bs[i]) > k}
  IN  IF equal # {} THEN equal ELSE IF larger = {} THEN {} ELSE {Min(larger)}

\* BlockIter::search: the first entry of the key.
BlockSearch(b, k) ==
  LET hits == {i \in DOMAIN b : b[i].key = k}
  IN  IF hits = {} THEN {} ELSE {b[Min(hits)]}

\* The answers of SSTableReader::get, {} if there is none.  A table without
\* keys has no filter to ask.
TableGet(bs, filter, k) ==
  IF DOMAIN filter # {} /\ ~MayContain(filter, k) THEN {}
  ELSE UNION {BlockSearch(bs[i], k) : i \in BlocksFor(bs, k)}

\* What StreamingSSTableIterator yields: block after block.
Stream(bs) == FlattenSeq(bs)
=============================================================================
