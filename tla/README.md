# Verification of lsm-engine

TLA+ models of the lock-free layer, the storage layer and the network server of
lsm-engine, TLC runs that check them on small instances, and TLAPS proofs of their safety for
any size.
`PROJECT.json` lists the components, the runs, the source lines every
definition models, the hazards and what covers them, and the theorems.

To check a run: `tlc -workers 2 -config MCWal.cfg MCWal`. To check the proofs of a
component: `tlapm WalProofs.tla`; the other proof modules are `MPMCQueueProofs`,
`EbrProofs`, `HashMapProofs`, `SkipListProofs`, `EngineProofs`, `ServerProofs` and
`CompactionProofs`.

## 1. The system

| Component | State | Operations | Hard part |
|---|---|---|---|
| MPMC queue, `queue.rs` | two ticket counters, a sequence word and a cell per slot | `new`, `push`, `pop`, `Drop` | any interleaving of atomic accesses; plain cells between them |
| EBR, `ebr.rs` | global epoch, registry of pinned epochs, three bags per thread | `register`, `pin`, guard drop, `defer`, `flush`, `destroy` | an epoch loaded earlier than it is stored; full bags |
| hash map, `map.rs` | table of pointers, tombstones | `get`, `insert`, `remove`, `Drop` | one key in two slots, reading while removing, who drops a value |
| skip list, `skiplist.rs` | towers of atomic pointers | `insert`, `get`, `iter` | racing links in several levels, several versions of a key |
| WAL, `wal/*` | sector and tail offsets, staging buffer, file | `open`, `append`, `sync`, `truncate_to_logical_end`, replay | power failure, short writes, reopening, sector boundaries |
| SSTable, `sstable/*` | immutable file of blocks with an index | write, point lookup, streaming | a key's versions across blocks |
| compaction, `compaction/*` | L0 and L1 lists, files | `add_l0_table`, `maybe_schedule_compaction` | key ranges, tombstones, a merge that fails half-way |
| engine, `engine.rs` | memtables, log, flush queue, two workers, levels | `open`, `put`, `delete`, `get`, freeze, `Drop` | workers beside the caller, panics, shutdown, restart |
| memtable manager, `memtable/manager.rs` | as the engine, one thread | `write`, `get`, `clear_immutable` | order of freeze and clear |
| bloom filter, `bloom/filter.rs` | none | build, `contains` | no false negatives |
| server, `uring-engine/src` | submission, completion and buffer ring, an engine and a queue per core | accept, receive, send, close, replicate | buffers recycled too early, descriptors reused, full rings and queues |

They interact by calls and shared memory. `EngineNode` appends to the
`WalWriter`, inserts in a `ConcurrentSkipList`, hands full memtables to its
workers through an `MPMCQueue`; a worker writes an SSTable and gives it to the
`LeveledCompactor` under a lock that `get` takes too. `ConcurrentHashMap` uses
the collector for what it unlinks. The server owns one engine per core and
replicates writes to the next core through one queue per core.

What makes each correct: the queue is a FIFO that loses and duplicates
nothing; the collector frees a node only when no guard can reach it, and does
free it; the log gives back a prefix with everything synced; the levels show
the newest write of a key; the engine keeps an acknowledged write in some file
and finds it at every moment of its way down; the map gives each value away
once and finds what is there; the server answers from intact buffers, acts on
the connection it means, forgets none, and replicates its writes in order.

## 2. Modules

| Module | Models | One action is |
|---|---|---|
| `BoundedQueue` | the promise of the queue | an element enters, leaves, is delivered |
| `MPMCQueue` | `queue.rs` | one access to shared memory |
| `GracePeriod` | the promise of the collector | a guard comes or goes, a node is retired, freed |
| `Ebr` | `ebr.rs` with a client that swaps a pointer; implements `GracePeriod` | one access to shared memory |
| `HashMap` | `map.rs` on top of `GracePeriod` | one access to the table |
| `Wal` | `wal/*` and the disk | one call, with its outcome |
| `BloomFilter` | `bloom/filter.rs` as operators | |
| `SSTable` | `sstable/*` as operators; extends `BloomFilter` | |
| `Compaction` | `compaction/*`, the levels part of `EngineNode::get`; extends `SSTable` | one flush under the compactor's lock |
| `Engine` | `engine.rs` | one effect on files or on what others see |
| `SkipList` | `memtable/skiplist.rs` | one search in a level, one compare-exchange, one load of `get` |
| `BufRing` | `buf_ring.rs` and the kernel's side of it | one entry added or taken |
| `Server` | `run_worker` of `main.rs`, `uring.rs`, `op.rs`; extends `BufRing` | one completion handled, one entry taken by the kernel |
| `XProofs`, for `X` one of `MPMCQueue`, `Ebr`, `HashMap`, `Wal`, `Engine`, `SkipList`, `Server`, `Compaction` | theorems about `X`; extends `X` | |

The `MC*` modules add what only TLC needs: symmetry sets, the memtables of
`Compaction` with a small hash for its filters, and a hash for `HashMap` under
which all keys collide. Each module starts with the code's names for its state. Section
"Faulty variants" of a module holds the mutants named in `PROJECT.json`: the
specification uses none of them.

**MPMCQueue.** `pc[t]` is the next access of thread `t`, `pos[t]` its copy of
`tail` or `head`. The three-way branch on `diff` is in `PushLoadSeq` and
`PushFull` (`PopLoadSeq`, `PopEmpty`). `compare_exchange_weak` may fail
spuriously, so `PushCasFail` has no guard on `tail`. `Drop` needs exclusive
access, as `&mut self` gives it, and pops until `Empty`. `enq` is a history
variable: the element of each ticket.

**Ebr.** A thread registers and pins (load, then store), also when its slot has
guards already; `held[i]` counts the guards of slot `i`, and dropping any of them
unpins the slot, whoever has it registered by then. A retiring thread also replaces
the node and calls `defer` and `flush`, whose `try_advance` is a load, a scan slot
by slot and a plain store. `destroy` and the drop of the local part reclaim every
bag at any time, whoever is pinned. `waits[n]` is a history: the slots that were
pinned when `n` was unlinked and have been neither unpinned nor pinned again since,
the only ones the code protects `n` for. `freed` collects the nodes whose destructor
ran; `early` those of them that were waited for and went to a `defer` that found no
room, to `destroy` or to a drop.

**GracePeriod** states the same in five variables: who is pinned, retired nodes,
whom each has to outlive, freed nodes, and the early ones. `Ebr` maps its bags and
its pinned slots to them; `HashMap` uses the actions `Pin`, `Retire`, `Free` and
`FreeEarly` directly, so what is shown of the map rests on the promise with all its
exceptions, and not on epochs. `FreeEarly` is the part of the code that looks at
nobody: full bags and departing owners.

**HashMap.** `table[i]` is a word: null, tombstone or an entry. `turns[t]` counts
the turns left of the `for _ in 0..self.capacity` loop; a failed compare-exchange
uses one up without moving on. A value is named by its entry and `left_map[e]`
counts how often it was dropped or handed out, which `ManuallyDrop` leaves to the
code; `shell` holds the entries whose destructor is `free_entry_shell`. A turn of the loop
is a load of the slot (`Load`) and then a look at the entry (`Look`), between which
the entry may be freed. The collector may free a retired entry at any time: by an
overflow, a departing owner, the two retirers of finding 2, or the nested guard of a
`get` inside the callback of a `get`. A thread that goes on with a pointer to a freed
entry makes everything undefined (`Dangling`), and the behaviour ends there.
`steady`, `beaten` and `tombed` are histories for the properties.

**Wal.** The unit is a cell; a record is a run of cells that name it, so that
the checksum holds exactly if the cells are one record's, in order. `vers[k]` is
the set of images of sector `k` written since the last sync: a power failure
keeps one of them per sector, independently. The writer's arithmetic
(`Staged`, `Shifted`, `NextTail`, `NextSector`) is the code's. An I/O error may
leave any subset of the sectors.

**SSTable, Compaction.** Keys are numbered in their order, and the first is the
empty byte string, which is a key like any other and also the range of a table
without keys. `Targets` are the L1 tables the binary search may choose. A table is
its sequence of blocks. `BlocksFor` is a
set because a binary search over equal keys may end at any of them. `Written`
appends entry by entry, as the writer does. The merge is a function of the places
in the inputs and the key handled last, and `MergeTurn` is one turn of the code's
loop: `Heap` is what is in the heap, `Source` the input it returns an entry of. The
tables a compaction works on are sets, and `InOrder` sorts them again. A flush adds a table and
calls `maybe_schedule_compaction` under one write lock, so both are one action;
it ends without compaction, with one, or in a panic that poisons the lock. Each
flushed table has a file of its own here. `BloomFilter` keeps the arithmetic of
the filter (block from the upper half of the hash, one bit per word from the
upper bits of a wrapped product) with narrower words; a lookup asks the filter
first, as `SSTableReader::get` does.

**Engine.** A write goes through append, insert and perhaps freeze and push,
with the workers' steps in between. A worker checks `is_running`, pops,
creates the table file (which truncates it), completes it, adds it to L0 and
removes the log; any of its `unwrap`s may panic. `Crash` ends the process at any
step; it also stands for the panic of a failed log rotation. `wals[p]` is the set of
writes replay finds in log `p`. Of the log being written the model also keeps what
its last sector decides: the writes with bytes in it (`tail`), whether the last ends
with it (`full`) and the first begins before it (`split`). An append after a record
that ended with its sector overwrites that sector, the truncation in `Freeze` cuts
it off, and if a record lost its end replay stops there (`torn`): finding 1 as the
engine meets it. `cut` is the history of the writes so lost. `AppendFails` is an
append that returns an error, with or without having overwritten the sector.
`EngineNode::sync` does nothing a process crash can see.

**SkipList.** `Find` gives the pair of neighbours around the key in the level
being linked. The code's search takes many loads; the last one reads
`pred.next`, and the pair it yields is the pair around the key at that moment,
because keys do not change and nodes are never unlinked.

**BufRing, Server.** Positions in the buffer ring count modulo `TailMod` (2^16 in
the code). `tail_word` is the tail the kernel reads: it lies in the reserved
field of entry 0, which `add` sets to zero, so `Add` at index 0 clears it until
`PublishTail`. In `Server` the submission ring is the sequence of the entries
prepared and not taken; `get_sqe` fails when it is full, and every caller's way
out is modelled. The kernel takes entries inside `io_uring_enter` (perhaps not
all of them) and looks up the descriptor then; it posts completions at any
time. Each entry carries, as a history, the connection the worker meant by the
descriptor, and each reply the position its buffer was given back at. An entry
may find another connection under its descriptor (`Hit`): `stray` is the set of
connections whose entries did, `loose` those for which the code gives no better
promise, and those hit by them. `receiving` tells the connection a receive was
armed on from the one it was prepared for (`by`). Requests
are numbered, and what a put, a get or an echo does is a choice of the handler:
the answer of the database is the business of `Engine`. The writes that the
worker takes from its own inbound queue end in the database and are not
visible here; `outq`, `NeighbourPops` and `replica` are the same code seen from
the other end: a popped write is applied, or its put fails, which the code ignores
(`lost`).

## 3. Runs

| Run | States | Shows |
|---|---|---|
| `queue` | 61 k | discipline of tickets, no data race, FIFO, justified `Full`/`Empty`, no leak, refinement of `BoundedQueue`; a call returns unless others make progress |
| `wal` | 1.2 M | off the sector boundary: acknowledged records read back; a power failure leaves a prefix with all synced records; staging mirrors the file |
| `wal_boundary` | violation | a record that ends at a sector's end is lost |
| `ebr` | 487 k | one retiring thread: refinement of `GracePeriod`, in which no advance frees a node in use, and only a full `defer`, `destroy` and `Drop` do; retired nodes are freed |
| `ebr_two_retirers` | violation | two retiring threads: a node in use is freed |
| `compaction` | 550 k | lookups through filter and index return the newest write, except for split versions and for keys hidden by a table without keys; L1 is partitioned; files keep every visible value, after a panic too |
| `engine` | 1.2 M | acknowledged writes are in files unless a sector's end took them; `get` finds them in the newest layer; frozen memtables are flushed |
| `engine_restart` | violation | a reopened node has lost the writes before |
| `skiplist` | 442 k | every level one sorted chain; `get` misses nothing; `insert` ends |
| `skiplist_stale` | violation | `get` returns an older version with a taller tower |
| `map` | 2.2 M | a value leaves the map once; what is looked at is freed only by an early free; a key is doubled only over a tombstone; a search misses nothing unless it lost a race |
| `server` | 10.6 M | until when requests and replies are intact; entries stay on their connection; connections stay served; the replica misses exactly the writes that met a full queue or whose put failed |

Bounds, and why they reach the cases that matter:

- `queue`: two slots and four tickets let every slot be used twice and be
  contended by a producer of the next lap. Two threads are enough for the
  liveness and the refinement; the safety properties are proved for any number
  (section 5). The counters are naturals: wrapping at 2^64 is out of reach.
- `wal`: sectors of three cells, a staging buffer of two sectors, records of one,
  two and five cells: a record inside a sector, across two, and one that does not
  fit behind the tail. Two writers in turn and one failed write.
- `ebr`: three nodes and bags of one, so that `defer` overflows while the epoch turns
  round; two guards to a slot, so that they nest and outlive a registration. With
  four nodes (1.6 M states) the refinement was checked too.
- `compaction`: three keys, the first of them empty, a table range below, above, around and across
  another, memtables of one or two keys, histories of a key with a value, a
  tombstone, or (the last key) both; two compactions, so that L1 takes part, and
  any of the removals after one may fail. At most two entries fit a block, so that
  the versions of a key may be split over two blocks, and tables have filters of
  one and of two blocks.
- `engine`: a limit of two and three writes a life: a memtable and one write to the
  next log, any of them across or at the end of a sector; two lives let a log and a
  table be found from before. With four writes, which fill a second memtable, and
  one key in one life, everything was checked too.
- `skiplist`: three nodes of two keys in towers of up to two levels, two threads.
- `map`: two slots and two keys that collide in the last one, so that every probe
  wraps round and meets the other key; three inserts let a tombstone be reused
  while a second copy of the key exists. Four slots, and two slots with four
  inserts, were checked too, before early frees were added to the model.
- `server`: two connections that share one descriptor in turn, two buffers whose
  positions wrap round, a submission ring and a replication queue of one entry,
  so that every full case happens; four requests fill each buffer twice, and
  with three completions waiting a request can be overwritten unread (the
  exception of `RequestIntact` happens with no smaller bound). Two descriptors
  with a ring of two entries and three requests (4.5 M states) were checked too.

Deadlock is checked where the program cannot stop (`skiplist`); the other
models stop when a bound is used up.

Fairness. `queue`: a thread inside a call goes on (weak), and a weak
compare-exchange that is tried again and again with the right value succeeds in
the end (strong). `ebr`: threads inside an operation go on, a guard is dropped
(it lives for a scope), and a retiring thread flushes again, as its owner must
for anything to be reclaimed. `engine`: the call in progress and the worker
threads go on; a panic is never forced. `skiplist`: a thread inside a call goes
on. Nobody is assumed to start a call, except the flush. `map` and `server` check
invariants only: the loops of the map are bounded, and what the server owes its
clients for ever is stated as a state property, `ConnectionServed`.

## 4. Findings

1. `wal/writer.rs` lines 101-102: after a record that fills its sector exactly,
   the writer stands at the start of that full sector. The next append
   overwrites it, and the truncation of a freeze cuts it (`wal_boundary`).
2. `ebr.rs` lines 117-118 and 124-137: a pin publishes an epoch that is a whole round
   old and looks current; advances that overlap, each a plain store, then reclaim
   a bag while a guard holds a node of it (`ebr_two_retirers`).
3. `engine.rs` lines 35-44: opening replays nothing, finds no tables, and
   writes over the old log, so that a process that ended has lost its writes; the
   README speaks of start-up recovery (`engine_restart`).
4. `skiplist.rs` lines 141-155: the first match from the top may be an older
   version (`skiplist_stale`).

Two more facts about the code came out and are stated without a run of their own:

- `engine.rs` line 195: `imm_mem` is never cleared, so the engine freezes once in its
  life, the next memtable grows without bound, and the pipeline the repository's
  README draws (freeze, flush, compaction from L0 to L1) never gets to a compaction
  (theorem `NoCompaction`). Nor is a second table ever named: it would be
  `active.wal.sst.0`.
- `compaction/manager.rs` lines 94-95: a compaction that drops everything gives its
  table the range of the empty key. If a table with keys begins with the empty key
  too, both have the same smallest key, the search of `engine.rs` line 172 may go to
  the wrong one, and stored keys are not found: the exception `Hidden` of
  `LookupIsLatest`. Because of the first fact this is not met through `EngineNode`
  today.

Other properties carry an exception where the code has one. Each exception was
seen to be needed: without it TLC finds a violation.

- `ImplementsGracePeriod`, `NoUseAfterFree`: a `defer` without room, `destroy` and the
  drop of the local part free nodes under pinned readers (`ebr.rs` lines 203, 177,
  217), and a slot protects nothing from before it was pinned again or one of its
  guards dropped (lines 118, 157).
- `DuplicateOnlyOverTombstone`: `insert` reuses a tombstone without looking
  further on, so a key may have two entries, and removing the first brings the
  old value back (`map.rs` line 87).
- `ProbesMissNothing`: a lost compare-exchange uses up a turn of the loop, so the
  last slots of the probe go unseen (`map.rs` lines 96, 116, 163).
- `OnlyRemoveTakesInUse`: `remove` moves the value out under readers (line 156), and
  what the collector frees early is freed under them.
- `AckedInFilesUnlessCut`: what the end of a sector took out of the log (finding 1).
- `LookupIsLatest`: with a key's versions split over blocks a lookup may return
  an older one (`sstable/reader.rs` line 118); and the table without keys (`Hidden`).
- `RequestIntact`: `add` clears the published tail until `flush` (`buf_ring.rs`
  line 99); a kernel that has used up the buffers finds more in that time.
- `ReplyIntact`: a buffer is given back before its reply is sent (`main.rs`
  line 318), so the reply lasts only until the kernel comes round to it.
- `StaysOnConnection`: a failed send leads to a second close of the descriptor,
  and with a full ring the close overtakes entries before it (lines 252, 327-329);
  a connection hit by an entry of such a one is then exposed too.
- `ConnectionServed`: with a full ring a receive or an accept is not renewed
  (lines 234, 244), and a receive that ended with data is never renewed
  (line 258).
- `ReplicaFollows`: a full replication queue is ignored (line 284), and so is a put
  that fails at the neighbour (line 206); a put that failed here is replicated all
  the same.

A property that excepts a failure does not catch it: the notes of the hazards in
`PROJECT.json` say which part of a hazard is covered and which excepted.

## 5. Proofs

Each proof module shows its properties for every value of the constants that
satisfies the named assumptions of the model: any number of threads, nodes,
keys, connections and requests, any capacity, any hash function. The
assumptions are the ones the code needs itself (a queue of at least two slots,
tables and buffer rings of a power of two, sector sizes and limits above zero); `Engine`
asks for a compaction trigger of at least two tables (the code has four). A
property is seldom inductive as it stands, so each module builds an invariant
around it, with one lemma per action; TLC checked every part of it before it was
proved.

| Module | Theorem | States |
|---|---|---|
| `MPMCQueueProofs` | `TypeCorrect`, `Discipline`, `DataRaceFreedom`, `FifoOrder`, `NoLeak` | `TypeOK`, `TicketDiscipline`, `NoDataRace`, `PopsInOrder`, `DropDrains` |
| | `FullAnswers`, `EmptyAnswers` | `FullIsJustified`, `EmptyIsJustified` |
| | `Refinement` | `ImplementsBoundedQueue` |
| `EbrProofs` | `EbrTypes` | `TypeOK` |
| | `KeepsGracePeriod`, `FreedAfterGuards`, `RetirerInvariant` | one retirer: `ImplementsGracePeriod`; `NoUseAfterFree`; the invariant |
| `HashMapProofs` | `MapTypes`, `RacingInsertsDoNotDuplicate`, `GuardedEntriesLive`, `ValuesLeaveOnce`, `SearchesAreComplete` | `TypeOK`, `DuplicateOnlyOverTombstone`, `OnlyRemoveTakesInUse`, `OwnedOnce`, `ProbesMissNothing` |
| `SkipListProofs` | `ListTypes`, `SortedChains`, `GetsFind` | `TypeOK`, `LevelsAreSortedChains`, `GetFindsLinked` |
| `WalProofs` | `WriterWithinBounds`, `StagingFollowsFile` | `TypeOK`, `StagingMirrorsFile` |
| | `AcknowledgedAreReadBack`, `CrashesLeavePrefix` | `AckedReadBackOffBoundary`, `CrashLeavesPrefixOffBoundary` |
| | `WalInvariant` | the invariant both rest on |
| `EngineProofs` | `EngineTypes`, `AckedWritesInFiles`, `GetNewestLayer` | `TypeOK`, `AckedInFilesUnlessCut`, `GetFindsNewestLayer` |
| | `NoCompaction` | a life never has the L0 tables a compaction waits for |
| `CompactionProofs` | `TypeCorrect`, `LookupsReturnLatest`, `L1StaysPartitioned`, `FilesKeepLatest` | `TypeOK`, `LookupIsLatest`, `L1IsPartitioned`, `FilesHoldLatest` |
| | `LevelsInvariant` | the invariant they rest on |
| | `FilterKeepsKeys`, `TableFinds`, `MergeKeepsNewest` | what filter, point lookup and merge compute |
| `ServerProofs` | `RingsWithinBounds`, `RequestsIntact`, `RepliesIntact`, `EntriesStayApart`, `NobodyForgotten`, `ReplicaInOrder` | `TypeOK`, `RequestIntact`, `ReplyIntact`, `StaysOnConnection`, `ConnectionServed`, `ReplicaFollows` |

**Queue.** That a popper reads the right element depends on who wrote the cell
and on nobody having entered since. `TicketDiscipline` says where everything is.
Every ticket between `head` and `tail` holds its element or is being written
(`Occupied`); each of the next tickets up to a lap ahead of `head` is free or
its slot is still being read (`Vacant`); a thread that won a ticket owns its
slot (`WriterOwns`, `ReaderOwns`); tickets in use are distinct; and what a thread
without a ticket has read is still true if its copy of the counter is still
current (`CopyIsPast`), which is what its compare-exchange tests. With `Drop`
running, nobody else is inside (`DropIsExclusive`). All rests on two facts about
slots: tickets less than a lap apart have different slots (`SlotDistinct`), a
lap apart the same one (`SlotShift`). For the justified answers the proof adds
that the sequence word of a slot never falls behind a ticket already seen; the
refinement maps the cells between `head` and `tail` to the abstract queue.

**Collector.** With one retiring thread `w`, `Inv(w)` says how far each pinned slot
may be from the global epoch, what each bag may still be waited for by, given
how far its owner is in `try_advance`, and that a scan that has passed a slot
found it unpinned or current. The two-retirer violation of section 4 is the
case the hypothesis `Retirers = {w}` excludes. Guards may nest and outlive their
registration, and any thread may destroy its part at any time: a slot that gives up
its pin leaves `waits`, and what is freed while waited for is in `early`, so that the
claim about advances is not touched. `KeepsGracePeriod` adds that what is retired is
in the retirer's hand or in its bags, once.

**Hash map.** The invariant partitions the entries by owner (the table, a pending
insert, the collector, nobody), says that what a thread looks at is in the table,
or waits for that thread, or was freed early, and, for completeness of searches, which slots a search has passed and what
was in them; slots are counted in probing order (`Distance`), modulo the
capacity.

**Skip list.** Nodes are never unlinked, so the neighbours an insert has found
stay in order with its key; the compare-exchange is what shows that nothing came
between. The chain of a level is stated by its order and its links, without
paths.

**Log.** `Mirror` relates staging buffer, file and versions of the sectors, and is
true after a failed append too, because the writer's offsets only move on
success. `LogIntact` gives each acknowledged record of the current log its place,
one behind the other, and says the cells there are the record's, in the file
and, up to the synced one, in every image a power failure may leave. So the scan
reaches every one of them (`ReplayReaches`).

That it returns nothing else needs two more parts. `Ledger`: a record has one
place in one writer's log and is not a failed one; numbers rise in each log.
`Sorted`: in every version of every sector a record starts only where the record
its writer acknowledged just before it ends, or at the start of the file, and
never at the start of a later sector. Off the boundary every sector after the
first therefore begins inside a record, so a mix of old and new sectors cannot
splice two logs: what decodes behind a record is its successor or a record
whose append failed, and behind that one nothing decodes (`ReplayContinues`). All of
it holds until a record ends at a sector's end (`flush_end`), as in the code.

What the scan returns is proved without an induction rule: every turn moves to
a later place, so the scan is a function that satisfies its own equation
(`ScanIs`, `ScanTurn`), and a claim about all places is refuted at the least place
where it would fail (`Least`).

**Engine.** A write is followed by where it is held: memtables while the node
runs, their logs on disk (`Logged`), the one frozen memtable on its way through
queue, worker and table (`OneFlush`). A log holds its memtable but for what is in
`cut`, which an append or a truncation may add to. That a life freezes once is part of the
invariant: `imm_mem` is never cleared.

**Compaction.** Three results about data come first. `FilterKeepsKeys`: a key that
was added is found, whatever the hash. `TableFinds`: the writer's blocks hold the
entries in their order and none is empty (`TableWritten`), so the index leads to a
block with the key's newest entry, and to no other unless versions of the key end
several blocks. `MergeKeepsNewest`: if no two inputs have different entries with the
same key and number, the merge keeps the newest entry of each key that is not a
tombstone, in key order.

The invariant `IInv` says that every table was written in order, that ids and
(key, number) pairs tell tables and entries apart, that numbers rise from L1 to L0
and within L0, and that the newest entry of a key over all levels is what a reader
should see (`Shows`). A compaction keeps this because the keys of its inputs are
all before or all after those of an L1 table that is left alone (`RemainingApart`),
even where an overlapping L1 table reaches beyond the range of L0: that needs L1 to
be partitioned before, so `L1IsPartitioned` is part of the invariant. From
partition, order and `Shows` follows what lookups find, first in L0 (`FoundInL0`),
then in the one table of L1 (`FoundInL1`), unless a table without keys is in its way
(`Hidden`): such tables have no place in the partition. A panic leaves L1 empty; only the files
are claimed to hold the values then. The proof assumes that every key has a hash,
that no memtable is empty and that a memtable has at most `MaxVersions` writes to a
key, which makes the numbers of different memtables different.

Induction over lengths, turns of the merge and numbers of tables is done with sets
of naturals (`Induction`, `StepInduction`), from the least number outside the set;
that writer and merge are functions that satisfy their own equations is proved the
same way (`WrittenIs`, `MergeIs`).

**Server.** For `RequestIntact` and `ReplyIntact` the invariant says that the buffer
ring stays the identity and its positions count requests: the kernel has used
up `msgs` of them and the worker has given back one per request handled, so the
requests that wait lie in different buffers, in order, and a reply's buffer is
given back at its own position. For `ReplicaFollows` the writes applied, waiting in
the queue, lost at the neighbour and never sent are disjoint and make up all writes. For `StaysOnConnection` every entry, completion and
armed receive of a connection that is not `loose` names its descriptor, at most
one of them closes it, and it comes last.

Only model-checked:

- liveness (`LockFreedom` and the others of section 3): the prover has no
  reasoning about fairness;
- the collector with several retiring threads, where the promise fails.

## 6. Not modelled

- Orderings weaker than sequential consistency; the loom tests of the
  repository explore those for the queue and the collector.
- The byte formats: lengths, little-endian fields, CRC32, footer, magic number.
  Their control (what is accepted, what ends a scan) is in `Decodes`,
  `BlockSearch` and `Stream`.
- The memtable manager: the engine repeats its freeze, which is modelled there,
  and uses nothing else of it but a constant and a record; the caller that
  would flush and call `clear_immutable` does not exist in the repository.
- In the server: several requests in one receive (the handler looks at the
  first only), sends that go out in part, statistics, setting up the rings, and
  what happens to buffers when a worker has ended. That inbound writes wait for
  a completion of the core's own ring (`main.rs` line 197) is listed as a hazard
  without a property: with a bounded number of requests every behaviour ends in
  that waiting.
- Files with damaged contents, for the table readers; the random heights of the
  skip list (any height is possible) and its `Drop`.
- Benchmarks, the load generator and the Tokio server.

## 7. Plan

Done: every part of the system except the memtable manager (section 6), and every
safety property of the runs, for any size.

What could follow: the memtable manager, once it has a caller; several requests in
one receive; byte formats of table files, with damaged contents.
