------------------------------- MODULE Engine -------------------------------
(***************************************************************************)
(* EngineNode of tier3_storage/src/engine.rs: writes through the log and   *)
(* the memtable, the freeze of a full memtable, the background workers     *)
(* that turn it into a table, shutdown, crashes of the process, reopening. *)
(*                                                                         *)
(* A write is named by the life of the node (how often it was opened), the *)
(* sequence number its caller gave it and its key; whether it puts a value *)
(* or a tombstone makes no difference here.  Callers number the writes of  *)
(* a life 1, 2, ... (uring-engine/src/main.rs).  put and delete take &mut  *)
(* self and get takes &self, so that calls do not overlap; the workers run *)
(* beside them.  Reads and writes of a file see what was written before: a *)
(* crash here ends the process, not the machine (for that see Wal).        *)
(*                                                                         *)
(* Of a log this module keeps what its last sector decides: a record that  *)
(* ends exactly where the sector ends leaves the writer at the start of    *)
(* that sector (wal/writer.rs:101-102), so that the next append overwrites *)
(* it and truncate_to_logical_end cuts it off.                             *)
(***************************************************************************)
EXTENDS Integers, Sequences, FiniteSetsExt

CONSTANTS
  Keys,
  Workers,           \* the background threads
  MEMTABLE_LIMIT,    \* entries that make a memtable full
  QUEUE_CAPACITY,    \* slots of the flush queue
  L0_TRIGGER_COUNT,  \* L0 tables that make a compaction start
  MaxSeq,            \* bound: writes in one life
  MaxLives           \* bound: times the node is opened

ASSUME LimitAssumption == MEMTABLE_LIMIT \in Nat \ {0}
ASSUME QueueAssumption == QUEUE_CAPACITY \in Nat \ {0}
ASSUME TriggerAssumption == L0_TRIGGER_COUNT \in Nat /\ L0_TRIGGER_COUNT >= 2
ASSUME EngineBoundsAssumption == MaxSeq \in Nat /\ MaxLives \in Nat

VARIABLES
  phase,     \* "up", "closing" (is_running is false) or "down"
  life,      \* number of times the node was opened
  seq,       \* the caller's next sequence number
  active,    \* active_mem, a set of writes
  imm,       \* imm_mem; no memtable is frozen empty, so {} is None
  wal,       \* the path of the log being written
  unwritten, \* that log has been opened and nothing appended to it yet
  pc,        \* where the call in progress is
  op,        \* the write in progress: a set of at most one
  rotated,   \* the log the freeze in progress has closed
  queue,     \* flush_queue
  at,        \* at[w]: where worker w is
  task,      \* task[w]: the task it is working on
  l0,        \* the paths of the L0 tables, oldest first
  wals,      \* the logs in the directory: wals[p], the appended writes that
             \* replay finds in p
  sst,       \* what table file active.sst.0 holds; {} if it is not complete
  tail,      \* the writes with bytes in the last sector of the log being written
  full,      \* the last of them ends where the sector ends
  split,     \* the first of them begins in the sector before
  torn,      \* that log has lost the end of a record: replay stops there
  acked,     \* history: the writes that returned Ok
  cut        \* history: the appended writes of this life that a sector's end took
             \* out of the log, or put behind the place where replay stops

memory == <<seq, active, imm, wal, unwritten, pc, op, rotated, queue, at, task, l0>>
sector == <<tail, full, split, torn>>
log == <<wals, sector, cut>>
files == <<log, sst>>
vars == <<phase, life, memory, files, acked>>

Writes == [life : 1 .. MaxLives, seq : 1 .. MaxSeq, key : Keys]

\* "active.wal" is path 0, "active.wal.<n>" is path n.
Paths == 0 .. MaxSeq
FirstWal == 0

\* The log a life freezes first is "active.wal".  Its name has no prefix "wal.",
\* so the id parsed from it is 0, and its extension is replaced.  (A second
\* freeze would name "active.wal.<n>" and its table "active.wal.sst.0", but a
\* life freezes once: see Freezes.)
SstPath == "active.sst.0"

NoTask == [mem |-> {}, wal |-> FirstWal]

TypeOK ==
  /\ phase \in {"up", "closing", "down"}
  /\ life \in 0 .. MaxLives
  /\ seq \in 1 .. MaxSeq + 1
  /\ active \subseteq Writes /\ imm \subseteq Writes
  /\ wal \in Paths /\ unwritten \in BOOLEAN
  /\ pc \in {"idle", "insert", "freeze", "push"}
  /\ op \subseteq Writes /\ (pc = "idle") = (op = {})
  /\ rotated \in Paths
  /\ queue \in Seq([mem : SUBSET Writes, wal : Paths])
  /\ Len(queue) <= QUEUE_CAPACITY
  /\ at \in [Workers -> {"check", "pop", "create", "write", "add", "remove",
                         "exited", "dead"}]
  /\ task \in [Workers -> [mem : SUBSET Writes, wal : Paths]]
  /\ l0 \in Seq({SstPath})
  /\ DOMAIN wals \subseteq Paths
  /\ \A p \in DOMAIN wals : wals[p] \subseteq Writes
  /\ sst \subseteq Writes
  /\ tail \subseteq Writes /\ full \in BOOLEAN /\ split \in BOOLEAN /\ torn \in BOOLEAN
  /\ acked \subseteq Writes /\ cut \subseteq Writes

MoveTo(w, l) == at' = [at EXCEPT ![w] = l]
client == <<phase, life, seq, active, imm, wal, unwritten, pc, op, rotated, acked>>

-----------------------------------------------------------------------------
(* Faulty variants of actions below, each a plausible slip *)

\* The write is acknowledged and its call goes on.
PushTask_AcksEarly ==
  /\ pc = "push"
  /\ acked' = acked \cup op
  /\ op' = {}
  /\ UNCHANGED <<phase, life, seq, active, imm, wal, unwritten, pc, rotated, queue, at,
                 task, l0, files>>

\* imm_mem is not set.
Freeze_WithoutImm ==
  /\ pc = "freeze"
  /\ active' = {}
  /\ rotated' = wal
  /\ wal' = Max({e.seq : e \in active})
  /\ wals' = [q \in DOMAIN wals \cup {wal'} |-> IF q \in DOMAIN wals THEN wals[q] ELSE {}]
  /\ unwritten' = TRUE
  /\ pc' = "push"
  /\ UNCHANGED <<phase, life, seq, imm, op, queue, at, task, l0, sst, sector, cut, acked>>

\* The worker takes a task and goes back to the queue.
PopTask_Skips(w) ==
  /\ at[w] = "pop" /\ queue # << >>
  /\ queue' = Tail(queue)
  /\ MoveTo(w, "check")
  /\ UNCHANGED <<client, task, l0, files>>

\* The log is removed before the table is written.
CreateSst_RemovesWal(w) ==
  /\ at[w] = "create"
  /\ sst' = {}
  /\ wals' = [p \in DOMAIN wals \ {task[w].wal} |-> wals[p]]
  /\ MoveTo(w, "write")
  /\ UNCHANGED <<client, queue, task, l0, sector, cut>>

-----------------------------------------------------------------------------
(* Opening *)

\* The logs once WalWriter::open has created p, or opened it as it is.
Opened(p) ==
  [q \in DOMAIN wals \cup {p} |-> IF q \in DOMAIN wals THEN wals[q] ELSE {}]

Init ==
  /\ phase = "down" /\ life = 0 /\ seq = 1
  /\ active = {} /\ imm = {}
  /\ wal = FirstWal /\ unwritten = TRUE
  /\ pc = "idle" /\ op = {} /\ rotated = FirstWal
  /\ queue = << >> /\ l0 = << >>
  /\ at = [w \in Workers |-> "exited"]
  /\ task = [w \in Workers |-> NoTask]
  /\ wals = << >> /\ sst = {}
  /\ tail = {} /\ full = FALSE /\ split = FALSE /\ torn = FALSE
  /\ acked = {} /\ cut = {}

\* A WalWriter starts at offset 0.
NewWriter == tail' = {} /\ full' = FALSE /\ split' = FALSE /\ torn' = FALSE

\* What the process held in memory is gone.
Forget ==
  /\ seq' = 1
  /\ active' = {} /\ imm' = {}
  /\ wal' = FirstWal /\ unwritten' = TRUE
  /\ pc' = "idle" /\ op' = {} /\ rotated' = FirstWal
  /\ queue' = << >> /\ l0' = << >>
  /\ task' = [w \in Workers |-> NoTask]
  /\ NewWriter

\* No log is replayed and no table is looked for.
Open ==
  /\ phase = "down" /\ life < MaxLives
  /\ phase' = "up" /\ life' = life + 1
  /\ wals' = Opened(FirstWal)
  /\ at' = [w \in Workers |-> "check"]
  /\ Forget
  /\ cut' = {}
  /\ UNCHANGED <<sst, acked>>

-----------------------------------------------------------------------------
(* put and delete *)

\* The writes that go when the last sector is overwritten or cut off.
Doomed == IF full THEN tail ELSE {}

\* Replay stops before the record an append would write now: the sector it
\* overwrites holds the end of a record that began in the sector before.
Tears == torn \/ (full /\ split)

\* WalWriter::append.  A writer starts at offset 0: its first record takes the
\* place of what the file held.  The record may reach into another sector, and
\* may end at a sector's end.
WriteAppend(k) ==
  LET e == [life |-> life, seq |-> seq, key |-> k]
      found == IF Tears THEN {} ELSE {e}
  IN  /\ phase = "up" /\ pc = "idle" /\ seq <= MaxSeq
      /\ wals' = [wals EXCEPT ![wal] = IF unwritten THEN {e} ELSE (@ \ Doomed) \cup found]
      /\ cut' = cut \cup Doomed \cup ({e} \ found)
      /\ \E reaches, ends \in BOOLEAN :
           /\ tail' = IF reaches THEN {e} ELSE (tail \ Doomed) \cup {e}
           /\ split' = (reaches \/ (split /\ ~full))
           /\ full' = ends
      /\ torn' = Tears
      /\ unwritten' = FALSE
      /\ op' = {e}
      /\ seq' = seq + 1
      /\ pc' = "insert"
      /\ UNCHANGED <<phase, life, active, imm, wal, rotated, queue, at, task, l0, sst, acked>>

\* The append fails, which ends the write with its error: before anything is
\* written, or after the last sector was.  What it leaves of the new record is
\* overwritten by the next append.  The caller numbers on (main.rs:206-207, 281).
AppendFails ==
  /\ phase = "up" /\ pc = "idle" /\ seq <= MaxSeq
  /\ seq' = seq + 1
  /\ \/ UNCHANGED log
     \/ /\ wals' = [wals EXCEPT ![wal] = IF unwritten THEN {} ELSE @ \ Doomed]
        /\ cut' = cut \cup Doomed
        /\ tail' = tail \ Doomed /\ split' = (split /\ ~full) /\ full' = FALSE
        /\ torn' = Tears
  /\ UNCHANGED <<phase, life, active, imm, wal, unwritten, pc, op, rotated, queue, at, task,
                 l0, sst, acked>>

\* freeze_active_memtable is called and does not return at once.
Freezes(mem) == Cardinality(mem) >= MEMTABLE_LIMIT /\ imm = {}

WriteInsert ==
  /\ pc = "insert"
  /\ active' = active \cup op
  /\ IF Freezes(active')
     THEN pc' = "freeze" /\ UNCHANGED <<op, acked>>
     ELSE pc' = "idle" /\ acked' = acked \cup op /\ op' = {}
  /\ UNCHANGED <<phase, life, seq, imm, wal, unwritten, rotated, queue, at, task, l0, files>>

\* The memtable and the log are replaced; the next log is named by the largest
\* sequence number in the memtable.  The old log is truncated to its logical
\* end; a failure to do so is ignored.
Freeze ==
  /\ pc = "freeze"
  /\ imm' = active
  /\ active' = {}
  /\ rotated' = wal
  /\ wal' = Max({e.seq : e \in active})
  /\ \E off \in {{}, Doomed} :
       /\ wals' = [Opened(wal') EXCEPT ![wal] = @ \ off]
       /\ cut' = cut \cup off
  /\ NewWriter
  /\ unwritten' = TRUE
  /\ pc' = "push"
  /\ UNCHANGED <<phase, life, seq, op, queue, at, task, l0, sst, acked>>

\* The task is dropped if the queue is full.
PushTask ==
  /\ pc = "push"
  /\ queue' = IF Len(queue) < QUEUE_CAPACITY
              THEN Append(queue, [mem |-> imm, wal |-> rotated])
              ELSE queue
  /\ pc' = "idle"
  /\ acked' = acked \cup op
  /\ op' = {}
  /\ UNCHANGED <<phase, life, seq, active, imm, wal, unwritten, rotated, at, task, l0, files>>

-----------------------------------------------------------------------------
(* The workers *)

CheckRunning(w) ==
  /\ at[w] = "check"
  /\ MoveTo(w, IF phase = "up" THEN "pop" ELSE "exited")
  /\ UNCHANGED <<client, queue, task, l0, files>>

PopTask(w) ==
  /\ at[w] = "pop" /\ queue # << >>
  /\ task' = [task EXCEPT ![w] = Head(queue)]
  /\ queue' = Tail(queue)
  /\ MoveTo(w, "create")
  /\ UNCHANGED <<client, l0, files>>

\* Empty: the worker parks for a while.
PopEmpty(w) ==
  /\ at[w] = "pop" /\ queue = << >>
  /\ MoveTo(w, "check")
  /\ UNCHANGED <<client, queue, task, l0, files>>

\* SSTableWriter::create truncates the file.
CreateSst(w) ==
  /\ at[w] = "create"
  /\ sst' = {}
  /\ MoveTo(w, "write")
  /\ UNCHANGED <<client, queue, task, l0, log>>

\* The entries, the index, the filter and the footer are written and synced.
WriteSst(w) ==
  /\ at[w] = "write"
  /\ sst' = task[w].mem
  /\ MoveTo(w, "add")
  /\ UNCHANGED <<client, queue, task, l0, log>>

\* An unwrap between pop and the lock of the compactor fails.
WorkerPanics(w) ==
  /\ at[w] \in {"create", "write", "add"}
  /\ MoveTo(w, "dead")
  /\ task' = [task EXCEPT ![w] = NoTask]
  /\ UNCHANGED <<client, queue, l0, files>>

\* add_l0_table.  maybe_schedule_compaction returns without doing anything, as
\* a life adds one table: see theorem NoCompaction.
AddL0(w) ==
  /\ at[w] = "add"
  /\ l0' = Append(l0, SstPath)
  /\ MoveTo(w, "remove")
  /\ UNCHANGED <<client, queue, task, files>>

\* The log is removed; a failure to do so is ignored.
RemoveWal(w) ==
  /\ at[w] = "remove"
  /\ \E gone \in {{}, {task[w].wal}} :
       wals' = [p \in DOMAIN wals \ gone |-> wals[p]]
  /\ task' = [task EXCEPT ![w] = NoTask]
  /\ MoveTo(w, "check")
  /\ UNCHANGED <<client, queue, l0, sst, sector, cut>>

-----------------------------------------------------------------------------
(* Shutdown and crashes *)

\* Drop clears is_running ...
Close ==
  /\ phase = "up" /\ pc = "idle"
  /\ phase' = "closing"
  /\ UNCHANGED <<life, memory, files, acked>>

\* ... and joins the workers; tasks they left in the queue are dropped.
Joined ==
  /\ phase = "closing"
  /\ \A w \in Workers : at[w] \in {"exited", "dead"}
  /\ phase' = "down"
  /\ Forget
  /\ UNCHANGED <<life, at, wals, sst, cut, acked>>

\* The process ends.  So it may for the caller of a freeze whose next log
\* cannot be opened.
Crash ==
  /\ phase # "down"
  /\ phase' = "down"
  /\ at' = [w \in Workers |-> "exited"]
  /\ Forget
  /\ UNCHANGED <<life, wals, sst, cut, acked>>

-----------------------------------------------------------------------------
WriteStep == WriteInsert \/ Freeze \/ PushTask

WorkerStep(w) ==
  \/ CheckRunning(w) \/ PopTask(w) \/ PopEmpty(w)
  \/ CreateSst(w) \/ WriteSst(w) \/ AddL0(w) \/ RemoveWal(w)

Next ==
  \/ Open \/ Close \/ Joined \/ Crash
  \/ AppendFails \/ \E k \in Keys : WriteAppend(k)
  \/ WriteStep
  \/ \E w \in Workers : WorkerStep(w) \/ WorkerPanics(w)

Spec == Init /\ [][Next]_vars

\* A call in progress and the worker threads keep running.
Fairness == WF_vars(WriteStep) /\ \A w \in Workers : WF_vars(WorkerStep(w))

FairSpec == Spec /\ Fairness

-----------------------------------------------------------------------------
(* Lookups *)

Of(mem, k) == {e \in mem : e.key = k}

\* What the tables in L0 hold: a file that does not open is skipped.
InL0 == IF l0 = << >> THEN {} ELSE sst

\* get: the active memtable, then the frozen one, then L0.  Each of them may
\* return any version of the key it holds: a memtable the one with the tallest
\* tower (see SkipList), a table one of those in different blocks (SSTable).
Get(k) ==
  IF Of(active, k) # {} THEN Of(active, k)
  ELSE IF Of(imm, k) # {} THEN Of(imm, k)
  ELSE Of(InL0, k)

-----------------------------------------------------------------------------
(* Properties *)

ThisLife == {e \in acked : e.life = life}

\* engine.rs lines 64-83: a log is removed only once the table that replaces it
\* is complete.  Every acknowledged write of the current life is in a log or in
\* the table file, whatever the workers are doing and wherever one panicked, in
\* a crash, and after a shutdown that left tasks in the queue.  The exception is
\* the log's own: what a record that ended at a sector's end has lost it (for
\* that see Wal, AckedReadBack).
AckedInFilesUnlessCut ==
  \A e \in ThisLife \ cut : e \in sst \/ \E p \in DOMAIN wals : e \in wals[p]

SameLayer(e, f) == \E mem \in {active, imm, sst} : {e, f} \subseteq mem

\* engine.rs lines 145-192: between the calls, get finds every key written in
\* this life, on its way from the memtable to the table, and a version in a
\* newer memtable hides those in older ones.
GetFindsNewestLayer ==
  phase = "up" /\ pc = "idle" =>
    \A k \in Keys :
      /\ Of(ThisLife, k) # {} => Get(k) # {}
      /\ Get(k) \subseteq ThisLife
      /\ \A e \in Get(k), f \in Of(ThisLife, k) : e.seq < f.seq => SameLayer(e, f)

\* engine.rs lines 55-84: a frozen memtable becomes an L0 table, unless the node
\* is shut down or a worker panics.
FrozenIsFlushed ==
  (phase = "up" /\ imm # {}) ~>
    (l0 # << >> \/ phase # "up" \/ \E w \in Workers : at[w] = "dead")

\* README, "durable writes directly to storage hardware" and "recovery.rs #
\* Start-up scanning recovery": a reopened node has the writes acknowledged
\* before.
DurableAcrossLives ==
  phase = "up" /\ pc = "idle" => \A e \in acked : Get(e.key) # {}
=============================================================================
