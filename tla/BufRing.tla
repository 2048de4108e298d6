------------------------------ MODULE BufRing -------------------------------
(***************************************************************************)
(* The ring of receive buffers of uring-engine/src/buf_ring.rs, which the  *)
(* worker fills and the kernel empties.  Positions are counted modulo      *)
(* TailMod, 2^16 in the code.  The published tail shares its place in      *)
(* memory with the reserved field of the ring's first entry.               *)
(***************************************************************************)
EXTENDS Integers

CONSTANTS
  BufEntries,  \* number of buffers, and of entries of the ring
  TailMod      \* range of the positions

ASSUME BufEntriesAssumption ==
  BufEntries \in Nat \ {0} /\ \E n \in 0 .. BufEntries : BufEntries = 2 ^ n
ASSUME TailModAssumption ==
  TailMod \in Nat /\ TailMod > BufEntries /\ TailMod % BufEntries = 0

Bufs == 0 .. BufEntries - 1
Idx(p) == p % BufEntries

VARIABLES
  ring,      \* ring[i]: the buffer named by entry i
  tail,      \* where the worker adds next
  tail_word, \* the tail the kernel sees
  head       \* the kernel's: where it takes next

bufring == <<ring, tail, tail_word, head>>

\* A faulty variant of Add: the entry after the next one is filled.
Add_OneAhead(bid) ==
  /\ ring' = [ring EXCEPT ![Idx(tail + 1)] = bid]
  /\ tail_word' = IF Idx(tail) = 0 THEN 0 ELSE tail_word
  /\ tail' = (tail + 1) % TailMod
  /\ UNCHANGED head

\* new: every buffer is added once and the tail is published.
BufRingInit ==
  /\ ring = [i \in Bufs |-> i]
  /\ tail = BufEntries /\ tail_word = BufEntries
  /\ head = 0

\* add, called by recycle: the reserved field is set to zero, which in the
\* first entry is the published tail.
Add(bid) ==
  /\ ring' = [ring EXCEPT ![Idx(tail)] = bid]
  /\ tail_word' = IF Idx(tail) = 0 THEN 0 ELSE tail_word
  /\ tail' = (tail + 1) % TailMod
  /\ UNCHANGED head

PublishTail ==
  /\ tail_word' = tail
  /\ UNCHANGED <<ring, tail, head>>

\* The kernel takes a buffer for a receive, or finds none.
Dry == head = tail_word
Select(bid) ==
  /\ ~Dry
  /\ bid = ring[Idx(head)]
  /\ head' = (head + 1) % TailMod
  /\ UNCHANGED <<ring, tail, tail_word>>
=============================================================================
