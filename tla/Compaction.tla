----------------------------- MODULE Compaction -----------------------------
(***************************************************************************)
(* The two levels of tables of tier3_storage/src/compaction: the compactor *)
(* (manager.rs), the k-way merge (merge.rs) and the part of                *)
(* EngineNode::get that looks a key up in the levels.                      *)
(*                                                                         *)
(* A memtable is flushed in key order, newest first among the entries of   *)
(* one key: the order in which it is iterated.  A value is named by the    *)
(* sequence number of its write.  Everything the compactor does, it does   *)
(* under its write lock.                                                   *)
(***************************************************************************)
EXTENDS SSTable

CONSTANTS
  MaxKey,            \* keys are 1 .. MaxKey, in order; 1 is the empty one
  L0_TRIGGER_COUNT,  \* L0 tables that make a compaction start
  Memtables,         \* the memtables that are flushed: for every key, what was
                     \* written to it, newest first
  MaxVersions,       \* bound: number of writes to one key in a memtable
  MaxTables          \* bound: number of memtables that are flushed

ASSUME KeysAssumption == MaxKey \in Nat \ {0}
ASSUME TriggerAssumption == L0_TRIGGER_COUNT \in Nat \ {0}
ASSUME TablesAssumption == MaxTables \in Nat
ASSUME VersionsAssumption == MaxVersions \in Nat \ {0}
ASSUME HashedAssumption == 1 .. MaxKey \subseteq DOMAIN hash64
ASSUME MemtablesAssumption ==
  \A h \in Memtables : /\ h \in [1 .. MaxKey -> Seq({"put", "del"})]
                       /\ \A k \in 1 .. MaxKey : Len(h[k]) <= MaxVersions
                       /\ \E k \in 1 .. MaxKey : h[k] # << >>

Keys == 1 .. MaxKey
Nothing == 0        \* no visible value

VARIABLES
  l0,       \* the L0 tables, oldest first
  l1,       \* the L1 tables, by smallest key
  files,    \* the tables whose files exist
  next_id,  \* next_sst_id
  poisoned, \* a panic has poisoned the lock
  flushed,  \* number of memtables flushed so far
  latest    \* history: latest[k], the value a reader should see

vars == <<l0, l1, files, next_id, poisoned, flushed, latest>>

\* A TableMetadata and the blocks of the file its path names.
Table(id, es) ==
  LET bs == WriteTable(es)
  IN  [id |-> id, blocks |-> bs, filter |-> WriteFilter(es), smallest |-> Smallest(bs), largest |-> Largest(bs)]

-----------------------------------------------------------------------------
(* Faulty variants of definitions below, each a plausible slip *)

\* The heap returns the oldest version of a key first.
Before_OldestFirst(a, b) == a.key < b.key \/ (a.key = b.key /\ a.seq <= b.seq)

\* Only L1 tables inside the key range of L0 take part.
Overlaps_Inside(m, min_k, max_k) == min_k <= m.smallest /\ m.largest <= max_k

\* The id of a table is the counter before it was created.
NewTable_OldId(m) == Table(next_id - 1, m)

\* The inputs are removed before the merge is known to have succeeded.
FlushPanics_AfterRemoval(t) ==
  /\ Len(l0) + 1 >= L0_TRIGGER_COUNT
  /\ l0' = Append(l0, t)
  /\ l1' = << >>
  /\ files' = files \ (ToSet(l0) \cup ToSet(l1))
  /\ next_id' = next_id + 2
  /\ poisoned' = TRUE

-----------------------------------------------------------------------------
(* The k-way merge *)

\* The order of the heap: smaller key first, then larger sequence number.
Before(a, b) == a.key < b.key \/ (a.key = b.key /\ a.seq >= b.seq)

\* The inputs whose next entry is in the heap: at[i] is its place in input i.
Heap(ins, at) == {i \in DOMAIN ins : at[i] <= Len(ins[i])}

\* The input whose entry the heap returns.
Source(ins, at) ==
  CHOOSE i \in Heap(ins, at) :
    \A j \in Heap(ins, at) : Before(ins[i][at[i]], ins[j][at[j]])

\* One turn of the loop; the turns after it append rest.  x is the places in
\* the inputs and the key handled last.
MergeTurn(ins, is_bottom_level, rest, x) ==
  LET src == Source(ins, x[1])
      top == ins[src][x[1][src]]
      others == rest[<<[x[1] EXCEPT ![src] = @ + 1], top.key>>]
  IN  IF Heap(ins, x[1]) = {} THEN << >>
      ELSE IF top.key = x[2] \/ (is_bottom_level /\ top.del) THEN others
      ELSE <<top>> \o others

MergeFrom(ins, is_bottom_level) ==
  LET merge[x \in [DOMAIN ins -> Nat \ {0}] \X Nat] == MergeTurn(ins, is_bottom_level, merge, x)
  IN  merge

\* What the merge of ins, the entries of each input, appends to its output.
KWayMerge(ins, is_bottom_level) ==
  MergeFrom(ins, is_bottom_level)[<<[i \in DOMAIN ins |-> 1], NoKey>>]

-----------------------------------------------------------------------------
(* The levels *)

Init ==
  /\ l0 = << >> /\ l1 = << >>
  /\ files = {} /\ next_id = 1
  /\ poisoned = FALSE
  /\ flushed = 0
  /\ latest = [k \in Keys |-> Nothing]

\* The entries of a memtable with the histories h, which is the n-th to be
\* frozen: its sequence numbers are larger than those of the ones before.
MemtableEntries(h, n) ==
  FlattenSeq([k \in Keys |->
    [i \in 1 .. Len(h[k]) |-> Entry(k, MaxVersions * n + 1 - i, h[k][i] = "del")]])

Overlaps(m, min_k, max_k) == ~(m.largest < min_k \/ m.smallest > max_k)

BySmallest(a, b) ==
  a.smallest < b.smallest \/ (a.smallest = b.smallest /\ a.id <= b.id)

\* sort_by keeps the order of tables with the same smallest key, in which the
\* new one, with the largest id, comes last.  A table without keys has the empty
\* key for its smallest, and so may one with keys.
InOrder(tables) ==
  CHOOSE s \in [1 .. Cardinality(tables) -> tables] :
    ToSet(s) = tables /\ \A i, j \in DOMAIN s : i < j => BySmallest(s[i], s[j])

\* add_l0_table
NewTable(m) == Table(next_id, m)

\* maybe_schedule_compaction, called under the same lock, finds too few L0
\* tables.
Flush(t) ==
  /\ Len(l0) + 1 < L0_TRIGGER_COUNT
  /\ l0' = Append(l0, t)
  /\ files' = files \cup {t}
  /\ next_id' = next_id + 1
  /\ UNCHANGED <<l1, poisoned>>

\* maybe_schedule_compaction makes one L1 table of L0 and of the L1 tables that
\* overlap its key range.  Files whose removal fails stay behind (kept).
FlushCompacts(t) ==
  LET tables == ToSet(l0) \cup {t}
      min_k == Min({m.smallest : m \in tables})
      max_k == Max({m.largest : m \in tables})
      remaining_l1 == {m \in ToSet(l1) : ~Overlaps(m, min_k, max_k)}
      merge_inputs == tables \cup (ToSet(l1) \ remaining_l1)
      out == Table(next_id + 1, KWayMerge([m \in merge_inputs |-> Stream(m.blocks)], TRUE))
  IN  /\ Len(l0) + 1 >= L0_TRIGGER_COUNT
      /\ l1' = InOrder(remaining_l1 \cup {out})
      /\ l0' = << >>
      /\ \E kept \in SUBSET merge_inputs :
           files' = (files \ merge_inputs) \cup kept \cup {out}
      /\ next_id' = next_id + 2
      /\ UNCHANGED poisoned

\* The merge fails or its output cannot be opened, and `expect' panics: L1 was
\* drained before, and the panic poisons the lock.
FlushPanics(t) ==
  /\ Len(l0) + 1 >= L0_TRIGGER_COUNT
  /\ l0' = Append(l0, t)
  /\ l1' = << >>
  /\ files' = files \cup {t}
  /\ next_id' = next_id + 2
  /\ poisoned' = TRUE

\* What a reader should see of key k after the n-th memtable.
Latest(h, n, k) ==
  IF h[k] = << >> THEN latest[k]
  ELSE IF h[k][1] = "del" THEN Nothing
  ELSE MaxVersions * n

Next ==
  /\ ~poisoned
  /\ flushed < MaxTables
  /\ flushed' = flushed + 1
  /\ \E h \in Memtables :
       LET n == flushed + 1
           t == NewTable(MemtableEntries(h, n))
       IN  /\ latest' = [k \in Keys |-> Latest(h, n, k)]
           /\ Flush(t) \/ FlushCompacts(t) \/ FlushPanics(t)

Spec == Init /\ [][Next]_vars

-----------------------------------------------------------------------------
(* Lookups: EngineNode::get below the memtables *)

InRange(t, k) == t.smallest <= k /\ k <= t.largest

\* The answers of a table; a file that does not open is skipped.
Answers(t, k) ==
  IF t \in files /\ InRange(t, k) THEN TableGet(t.blocks, t.filter, k) ELSE {}

\* What binary_search_by leads to in L1: any table whose smallest key is k or, if
\* there is none, the last whose smallest key is before k.
Targets(k) ==
  LET equal == {i \in DOMAIN l1 : l1[i].smallest = k}
      below == {i \in DOMAIN l1 : l1[i].smallest < k}
  IN  IF equal # {} THEN equal ELSE IF below = {} THEN {} ELSE {Max(below)}

\* What the reader sees of a table's answers.
Values(found) ==
  IF found = {} THEN {Nothing} ELSE {IF e.del THEN Nothing ELSE e.seq : e \in found}

\* The values a lookup may return: the L0 tables are asked from the newest to
\* the oldest, then one L1 table.
Visible(k) ==
  LET hits0 == {i \in DOMAIN l0 : Answers(l0[i], k) # {}}
  IN  IF hits0 # {} THEN Values(Answers(l0[Max(hits0)], k))
      ELSE IF Targets(k) = {} THEN {Nothing}
      ELSE UNION {Values(Answers(l1[i], k)) : i \in Targets(k)}

-----------------------------------------------------------------------------
(* Properties *)

TypeOK ==
  /\ \A t \in ToSet(l0) \cup ToSet(l1) \cup files :
       /\ t.id \in 1 .. next_id - 1
       /\ t.smallest \in Keys /\ t.largest \in Keys
       /\ t.blocks \in Seq(Seq([key : Keys, seq : 1 .. MaxVersions * MaxTables, del : BOOLEAN]))
  /\ poisoned \in BOOLEAN
  /\ flushed \in 0 .. MaxTables
  /\ latest \in [Keys -> 0 .. MaxVersions * MaxTables]

\* Versions of k end more than one block of the newest L0 table that has k.
SplitVersions(k) ==
  \E i \in DOMAIN l0 :
    /\ Cardinality({b \in DOMAIN l0[i].blocks : LastKey(l0[i].blocks[b]) = k}) > 1
    /\ \A j \in i + 1 .. Len(l0) : Answers(l0[j], k) = {}

\* An L1 table without keys stands in the way of one that has k, and no L0 table
\* has it.
Hidden(k) ==
  /\ \A t \in ToSet(l0) : Answers(t, k) = {}
  /\ \E i, j \in DOMAIN l1 :
       /\ Answers(l1[i], k) # {}
       /\ l1[j].blocks = << >> /\ l1[j].smallest = l1[i].smallest
       /\ i < j \/ k = l1[i].smallest

\* Reads through the levels return the newest write, across any sequence of
\* flushes and compactions: a compaction neither loses a value nor brings back
\* an overwritten or deleted one (manager.rs lines 52-113), the filter turns no
\* stored key away (reader.rs lines 106-112), and the index leads to the right
\* block.  The exceptions are the code's.  Among several blocks that end with
\* versions of the key, the binary search of reader.rs line 118 may choose any.
\* And a compaction that leaves nothing makes a table with the smallest key ""
\* (manager.rs lines 94-95), which the search of engine.rs line 172 may choose
\* instead of the table that begins with the key "".
LookupIsLatest ==
  ~poisoned => \A k \in Keys :
    \/ Visible(k) = {latest[k]}
    \/ latest[k] \in Visible(k) /\ SplitVersions(k)
    \/ Hidden(k)

\* engine.rs line 172 searches L1 by smallest key alone, which needs its tables
\* in order and those with keys apart; inside a table every key occurs once,
\* without tombstones.
L1IsPartitioned ==
  /\ \A i, j \in DOMAIN l1 :
       i < j => /\ l1[i].smallest <= l1[j].smallest
                /\ \/ l1[i].largest < l1[j].smallest
                   \/ l1[i].blocks = << >> \/ l1[j].blocks = << >>
  /\ \A t \in ToSet(l1) :
       LET es == Stream(t.blocks)
       IN  \A i, j \in DOMAIN es : ~es[i].del /\ (i < j => es[i].key < es[j].key)

\* Whatever happens to the levels in memory, a failed compaction included, some
\* file holds the newest value of every key.
FilesHoldLatest ==
  \A k \in Keys : latest[k] # Nothing =>
    \E t \in files : Entry(k, latest[k], FALSE) \in ToSet(Stream(t.blocks))
=============================================================================
