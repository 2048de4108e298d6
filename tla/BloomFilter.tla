---------------------------- MODULE BloomFilter -----------------------------
(***************************************************************************)
(* The blocked filter of tier3_storage/src/bloom/filter.rs.  A filter is a *)
(* function from block numbers to the set of bits set in the block, a bit  *)
(* being a word of the block and a place in it.  hash64 is a constant; its *)
(* lower half is LowWidth bits wide and a word has 2^RotWidth bits, where  *)
(* the code has 32 and 2^5.                                                *)
(***************************************************************************)
EXTENDS Integers, Sequences, FiniteSetsExt

CONSTANTS
  hash64,        \* hash64[k]: its two halves, [high |-> ..., low |-> ...]
  SALTS,         \* the multiplier of every word of a block
  LowWidth, RotWidth,
  BITS_PER_KEY

ASSUME SaltsAssumption == SALTS \in Seq(Nat) /\ SALTS # << >>
ASSUME WidthAssumption == LowWidth \in Nat /\ RotWidth \in 0 .. LowWidth
ASSUME BitsPerKeyAssumption == BITS_PER_KEY \in Nat \ {0}
ASSUME Hash64Assumption ==
  \A k \in DOMAIN hash64 : hash64[k] \in [high : Nat, low : 0 .. 2 ^ LowWidth - 1]

BlockBits == Len(SALTS) * 2 ^ RotWidth

-----------------------------------------------------------------------------
(* A faulty variant of a definition below, a plausible slip *)

\* The block is chosen by the lower half of the hash.
MayContain_ByLow(filter, k) ==
  LET h == hash64[k]
      mask == {<<i, ((h.low * SALTS[i]) % 2 ^ LowWidth) \div 2 ^ (LowWidth - RotWidth)>> : i \in DOMAIN SALTS}
  IN  mask \subseteq filter[h.low % Cardinality(DOMAIN filter)]

-----------------------------------------------------------------------------
\* Number of blocks for n added keys.
NumBlocks(n) == Max({(n * BITS_PER_KEY + BlockBits - 1) \div BlockBits, 1})

BlockIdx(h, num_blocks) == h.high % num_blocks

\* The bits of a hash, one in each word: the upper bits of the wrapped product.
Mask(h) ==
  {<<i, ((h.low * SALTS[i]) % 2 ^ LowWidth) \div 2 ^ (LowWidth - RotWidth)>> : i \in DOMAIN SALTS}

\* build, after keys were added one by one: no block if there are none.
Build(keys) ==
  LET n == NumBlocks(Len(keys))
      hashes == {hash64[keys[i]] : i \in DOMAIN keys}
  IN  [b \in IF keys = << >> THEN {} ELSE 0 .. n - 1 |->
         UNION {Mask(h) : h \in {g \in hashes : BlockIdx(g, n) = b}}]

\* contains; both implementations test the same bits.
MayContain(filter, k) ==
  Mask(hash64[k]) \subseteq filter[BlockIdx(hash64[k], Cardinality(DOMAIN filter))]
=============================================================================
