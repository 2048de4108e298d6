----------------------------- MODULE MPMCQueue ------------------------------
(***************************************************************************)
(* The bounded multi-producer multi-consumer queue of                      *)
(* tier2_concurrency/src/queue.rs, one action per access to shared memory. *)
(* Any thread may push and pop.  `tail' and `head' hand out tickets; the   *)
(* ticket p uses slot p % Capacity, whose sequence word reads p when the   *)
(* slot is free for the push of p, p + 1 when the element of p is in it,   *)
(* and p + Capacity once that element has been popped.                     *)
(*                                                                         *)
(* The 64-bit counters are natural numbers here: they wrap after 2^64      *)
(* pushes.  Atomic accesses are sequentially consistent.                   *)
(***************************************************************************)
EXTENDS Integers, Sequences

CONSTANTS
  Threads,    \* the threads that share the queue
  Data,       \* the elements that are pushed
  NoData,     \* content of an uninitialised slot or an empty register
  NoThread,   \* nobody has dropped the queue
  Capacity,   \* number of slots
  MaxTickets  \* bound: no push is called once this many tickets were taken

ASSUME CapacityAssumption == Capacity \in Nat /\ Capacity >= 2
ASSUME MaxTicketsAssumption == MaxTickets \in Nat
ASSUME NoDataAssumption == NoData \notin Data
ASSUME NoThreadAssumption == NoThread \notin Threads

VARIABLES
  tail, head, \* the two ticket counters
  seq,        \* seq[i]: the sequence word of slot i
  value,      \* value[i]: the cell of slot i
  pc,         \* pc[t]: the next shared-memory access of thread t
  pos,        \* pos[t]: its local copy of tail (push) or head (pop)
  data,       \* data[t]: the element it is pushing, or has read
  dropper,    \* the thread running Drop, or NoThread
  enq         \* history: the element of each ticket, in ticket order

vars == <<tail, head, seq, value, pc, pos, data, dropper, enq>>

Slots == 0 .. Capacity - 1
Slot(p) == p % Capacity

PushPC == {"push_seq", "push_reload", "push_cas", "push_write", "push_publish"}
PopPC == {"pop_seq", "pop_reload", "pop_cas", "pop_read", "pop_release"}

\* A thread that won the race for a ticket owns its slot until it publishes
\* the next sequence word.
Writing(t) == pc[t] \in {"push_write", "push_publish"}
Reading(t) == pc[t] \in {"pop_read", "pop_release"}

TypeOK ==
  /\ tail \in Nat /\ head \in Nat
  /\ seq \in [Slots -> Nat]
  /\ value \in [Slots -> Data \cup {NoData}]
  /\ pc \in [Threads -> {"idle", "dropped"} \cup PushPC \cup PopPC]
  /\ pos \in [Threads -> Nat]
  /\ data \in [Threads -> Data \cup {NoData}]
  /\ dropper \in Threads \cup {NoThread}
  /\ enq \in Seq(Data)

Goto(t, l) == pc' = [pc EXCEPT ![t] = l]

-----------------------------------------------------------------------------
(* Faulty variants of the operations below.  The specification uses none of *)
(* them: each shows that a property can tell the code from a plausible bug. *)

\* The slots are numbered from one below.
Init_Misnumbered ==
  /\ tail = 0 /\ head = 0
  /\ seq = [i \in Slots |-> i - 1]
  /\ value = [i \in Slots |-> NoData]
  /\ pc = [t \in Threads |-> "idle"]
  /\ pos = [t \in Threads |-> 0]
  /\ data = [t \in Threads |-> NoData]
  /\ dropper = NoThread
  /\ enq = << >>

\* A slot that another push has taken is reported as Full.
PushFull_OnStaleTail(t) ==
  /\ pc[t] = "push_seq"
  /\ seq[Slot(pos[t])] # pos[t]
  /\ Goto(t, "idle")
  /\ data' = [data EXCEPT ![t] = NoData]
  /\ UNCHANGED <<tail, head, seq, value, pos, dropper, enq>>

\* The retry keeps the stale copy of tail.
PushReload_KeepsTail(t) ==
  /\ pc[t] = "push_reload"
  /\ Goto(t, "push_seq")
  /\ UNCHANGED <<tail, head, seq, value, pos, data, dropper, enq>>

\* The sequence word is published before the cell is written.
PushCasOk_PublishesFirst(t) ==
  /\ pc[t] = "push_cas"
  /\ tail = pos[t]
  /\ tail' = tail + 1
  /\ seq' = [seq EXCEPT ![Slot(pos[t])] = pos[t] + 1]
  /\ enq' = Append(enq, data[t])
  /\ Goto(t, "push_write")
  /\ UNCHANGED <<head, value, pos, data, dropper>>

\* A slot that another pop has emptied is reported as Empty.
PopEmpty_OnStaleHead(t) ==
  /\ pc[t] = "pop_seq"
  /\ seq[Slot(pos[t])] # pos[t] + 1
  /\ Goto(t, IF dropper = t THEN "dropped" ELSE "idle")
  /\ UNCHANGED <<tail, head, seq, value, pos, data, dropper, enq>>

\* The slot is released before its element is read.
PopCasOk_ReleasesFirst(t) ==
  /\ pc[t] = "pop_cas"
  /\ head = pos[t]
  /\ head' = head + 1
  /\ seq' = [seq EXCEPT ![Slot(pos[t])] = pos[t] + Capacity]
  /\ Goto(t, "pop_read")
  /\ UNCHANGED <<tail, value, pos, data, dropper, enq>>

\* The slot is released with buffer_mask instead of buffer_mask + 1.
PopRelease_ByMask(t) ==
  /\ pc[t] = "pop_release"
  /\ seq' = [seq EXCEPT ![Slot(pos[t])] = pos[t] + (Capacity - 1)]
  /\ data' = [data EXCEPT ![t] = NoData]
  /\ Goto(t, IF dropper = t THEN "pop_reload" ELSE "idle")
  /\ UNCHANGED <<tail, head, value, pos, dropper, enq>>

\* Drop pops only once.
PopRelease_DropsOnce(t) ==
  /\ pc[t] = "pop_release"
  /\ seq' = [seq EXCEPT ![Slot(pos[t])] = pos[t] + Capacity]
  /\ data' = [data EXCEPT ![t] = NoData]
  /\ Goto(t, IF dropper = t THEN "dropped" ELSE "idle")
  /\ UNCHANGED <<tail, head, value, pos, dropper, enq>>

-----------------------------------------------------------------------------
(* The operations *)

Init ==
  /\ tail = 0 /\ head = 0
  /\ seq = [i \in Slots |-> i]
  /\ value = [i \in Slots |-> NoData]
  /\ pc = [t \in Threads |-> "idle"]
  /\ pos = [t \in Threads |-> 0]
  /\ data = [t \in Threads |-> NoData]
  /\ dropper = NoThread
  /\ enq = << >>

\* The call of push: the first load of tail.
Push(t, d) ==
  /\ pc[t] = "idle" /\ dropper = NoThread
  /\ tail < MaxTickets
  /\ Goto(t, "push_seq")
  /\ pos' = [pos EXCEPT ![t] = tail]
  /\ data' = [data EXCEPT ![t] = d]
  /\ UNCHANGED <<tail, head, seq, value, dropper, enq>>

PushReload(t) ==
  /\ pc[t] = "push_reload"
  /\ Goto(t, "push_seq")
  /\ pos' = [pos EXCEPT ![t] = tail]
  /\ UNCHANGED <<tail, head, seq, value, data, dropper, enq>>

\* The load of the slot's sequence word and the three-way branch on diff.
PushLoadSeq(t) ==
  /\ pc[t] = "push_seq"
  /\ LET diff == seq[Slot(pos[t])] - pos[t]
     IN  \/ diff = 0 /\ Goto(t, "push_cas")
         \/ diff > 0 /\ Goto(t, "push_reload")
  /\ UNCHANGED <<tail, head, seq, value, pos, data, dropper, enq>>

\* diff < 0: push returns Full and gives the element back.
PushFull(t) ==
  /\ pc[t] = "push_seq"
  /\ seq[Slot(pos[t])] - pos[t] < 0
  /\ Goto(t, "idle")
  /\ data' = [data EXCEPT ![t] = NoData]
  /\ UNCHANGED <<tail, head, seq, value, pos, dropper, enq>>

PushCasOk(t) ==
  /\ pc[t] = "push_cas"
  /\ tail = pos[t]
  /\ tail' = tail + 1
  /\ enq' = Append(enq, data[t])
  /\ Goto(t, "push_write")
  /\ UNCHANGED <<head, seq, value, pos, data, dropper>>

\* compare_exchange_weak may also fail when tail = pos[t].
PushCasFail(t) ==
  /\ pc[t] = "push_cas"
  /\ pos' = [pos EXCEPT ![t] = tail]
  /\ Goto(t, "push_seq")
  /\ UNCHANGED <<tail, head, seq, value, data, dropper, enq>>

PushWrite(t) ==
  /\ pc[t] = "push_write"
  /\ value' = [value EXCEPT ![Slot(pos[t])] = data[t]]
  /\ Goto(t, "push_publish")
  /\ UNCHANGED <<tail, head, seq, pos, data, dropper, enq>>

PushPublish(t) ==
  /\ pc[t] = "push_publish"
  /\ seq' = [seq EXCEPT ![Slot(pos[t])] = pos[t] + 1]
  /\ data' = [data EXCEPT ![t] = NoData]
  /\ Goto(t, "idle")
  /\ UNCHANGED <<tail, head, value, pos, dropper, enq>>

-----------------------------------------------------------------------------
\* The call of pop: the first load of head.
Pop(t) ==
  /\ pc[t] = "idle" /\ dropper = NoThread
  /\ Goto(t, "pop_seq")
  /\ pos' = [pos EXCEPT ![t] = head]
  /\ UNCHANGED <<tail, head, seq, value, data, dropper, enq>>

PopReload(t) ==
  /\ pc[t] = "pop_reload"
  /\ Goto(t, "pop_seq")
  /\ pos' = [pos EXCEPT ![t] = head]
  /\ UNCHANGED <<tail, head, seq, value, data, dropper, enq>>

PopLoadSeq(t) ==
  /\ pc[t] = "pop_seq"
  /\ LET diff == seq[Slot(pos[t])] - (pos[t] + 1)
     IN  \/ diff = 0 /\ Goto(t, "pop_cas")
         \/ diff > 0 /\ Goto(t, "pop_reload")
  /\ UNCHANGED <<tail, head, seq, value, pos, data, dropper, enq>>

\* diff < 0: pop returns Empty, which also ends the loop of Drop.
PopEmpty(t) ==
  /\ pc[t] = "pop_seq"
  /\ seq[Slot(pos[t])] - (pos[t] + 1) < 0
  /\ Goto(t, IF dropper = t THEN "dropped" ELSE "idle")
  /\ UNCHANGED <<tail, head, seq, value, pos, data, dropper, enq>>

PopCasOk(t) ==
  /\ pc[t] = "pop_cas"
  /\ head = pos[t]
  /\ head' = head + 1
  /\ Goto(t, "pop_read")
  /\ UNCHANGED <<tail, seq, value, pos, data, dropper, enq>>

PopCasFail(t) ==
  /\ pc[t] = "pop_cas"
  /\ pos' = [pos EXCEPT ![t] = head]
  /\ Goto(t, "pop_seq")
  /\ UNCHANGED <<tail, head, seq, value, data, dropper, enq>>

PopRead(t) ==
  /\ pc[t] = "pop_read"
  /\ data' = [data EXCEPT ![t] = value[Slot(pos[t])]]
  /\ Goto(t, "pop_release")
  /\ UNCHANGED <<tail, head, seq, value, pos, dropper, enq>>

\* The slot is handed to the push of the next lap and pop returns; Drop calls
\* pop again.
PopRelease(t) ==
  /\ pc[t] = "pop_release"
  /\ seq' = [seq EXCEPT ![Slot(pos[t])] = pos[t] + Capacity]
  /\ data' = [data EXCEPT ![t] = NoData]
  /\ Goto(t, IF dropper = t THEN "pop_reload" ELSE "idle")
  /\ UNCHANGED <<tail, head, value, pos, dropper, enq>>

\* Drop has exclusive access: no call is in progress and none follows.
Drop(t) ==
  /\ dropper = NoThread
  /\ \A u \in Threads : pc[u] = "idle"
  /\ dropper' = t
  /\ Goto(t, "pop_reload")
  /\ UNCHANGED <<tail, head, seq, value, pos, data, enq>>

-----------------------------------------------------------------------------
PushStep(t) ==
  \/ PushReload(t) \/ PushLoadSeq(t) \/ PushFull(t) \/ PushCasOk(t)
  \/ PushCasFail(t) \/ PushWrite(t) \/ PushPublish(t)

PopStep(t) ==
  \/ PopReload(t) \/ PopLoadSeq(t) \/ PopEmpty(t) \/ PopCasOk(t)
  \/ PopCasFail(t) \/ PopRead(t) \/ PopRelease(t)

Call(t) == Pop(t) \/ Drop(t) \/ \E d \in Data : Push(t, d)

Next == \E t \in Threads : Call(t) \/ PushStep(t) \/ PopStep(t)

Spec == Init /\ [][Next]_vars

\* A thread inside a call keeps running, and a weak compare-exchange does not
\* fail spuriously for ever.
Fairness ==
  \A t \in Threads :
    /\ WF_vars(PushStep(t) \/ PopStep(t))
    /\ SF_vars(PushCasOk(t))
    /\ SF_vars(PopCasOk(t))

FairSpec == Spec /\ Fairness

-----------------------------------------------------------------------------
(* The discipline of tickets, which makes the queue correct *)

Counters ==
  /\ head <= tail /\ tail <= head + Capacity
  /\ Len(enq) = tail

\* A thread that won a push ticket owns the slot, still in its free state.
WriterOwns(t) ==
  Writing(t) =>
    /\ head <= pos[t] /\ pos[t] < tail
    /\ seq[Slot(pos[t])] = pos[t]
    /\ data[t] = enq[pos[t] + 1]
    /\ pc[t] = "push_publish" => value[Slot(pos[t])] = enq[pos[t] + 1]

\* A thread that won a pop ticket owns the slot, whose ticket is the oldest
\* that can be in use: the pushes have not lapped it.
ReaderOwns(t) ==
  Reading(t) =>
    /\ pos[t] < head /\ tail <= pos[t] + Capacity
    /\ seq[Slot(pos[t])] = pos[t] + 1
    /\ pc[t] = "pop_read" => value[Slot(pos[t])] = enq[pos[t] + 1]
    /\ pc[t] = "pop_release" => data[t] = enq[pos[t] + 1]

TicketsDistinct ==
  \A t, u \in Threads :
    t # u => /\ Writing(t) /\ Writing(u) => pos[t] # pos[u]
             /\ Reading(t) /\ Reading(u) => pos[t] # pos[u]

\* A ticket between head and tail holds its element, or is being written.
Occupied(p) ==
  \/ seq[Slot(p)] = p + 1 /\ value[Slot(p)] = enq[p + 1]
  \/ seq[Slot(p)] = p /\ \E t \in Threads : Writing(t) /\ pos[t] = p

\* One of the next tickets is free, or its previous element is being read.
Vacant(p) ==
  \/ seq[Slot(p)] = p
  \/ /\ seq[Slot(p)] = (p - Capacity) + 1
     /\ \E t \in Threads : Reading(t) /\ pos[t] = p - Capacity

SlotStates ==
  /\ \A p \in head .. tail - 1 : Occupied(p)
  /\ \A p \in tail .. (head + Capacity) - 1 : Vacant(p)

\* What a thread that has not won a ticket may rely on: its copy of a counter
\* is never ahead, and what it read in the slot is current if the copy is.
CopyIsPast(t) ==
  /\ pc[t] \in PushPC => pos[t] <= tail /\ data[t] \in Data
  /\ pc[t] = "push_cas" /\ pos[t] = tail => seq[Slot(pos[t])] = pos[t]
  /\ pc[t] \in PopPC \ {"pop_reload"} => pos[t] <= head
  /\ pc[t] = "pop_cas" /\ pos[t] = head => seq[Slot(pos[t])] = pos[t] + 1

DropIsExclusive ==
  \A t \in Threads :
    /\ dropper = t => /\ \A u \in Threads : u # t => pc[u] = "idle"
                      /\ pc[t] \in PopPC \cup {"dropped"}
                      /\ pc[t] = "pop_seq" => pos[t] = head
                      /\ pc[t] = "dropped" => head = tail
    /\ pc[t] = "dropped" => dropper = t

\* queue.rs lines 53-68 and 89-105: the comparison of a slot's sequence word
\* with a ticket tells whether the ticket can be taken, whatever the other
\* threads are doing.  This is the inductive invariant.
TicketDiscipline ==
  /\ Counters
  /\ \A t \in Threads : WriterOwns(t) /\ ReaderOwns(t) /\ CopyIsPast(t)
  /\ TicketsDistinct
  /\ SlotStates
  /\ DropIsExclusive

-----------------------------------------------------------------------------
(* Properties *)

\* queue.rs `unsafe impl Sync': the slot cells are plain memory, so no two
\* threads may be between winning a ticket and publishing on the same slot.
NoDataRace ==
  \A t, u \in Threads :
    /\ t # u
    /\ Writing(t) \/ Reading(t)
    /\ Writing(u) \/ Reading(u)
    => Slot(pos[t]) # Slot(pos[u])

\* Every successful pop returns the element pushed under the ticket it won:
\* elements come out once, in ticket order, and never from an uninitialised
\* cell.
PopsInOrder ==
  \A t \in Threads :
    pc[t] = "pop_release" => /\ pos[t] + 1 \in 1 .. Len(enq)
                             /\ data[t] = enq[pos[t] + 1]

\* When Drop is done every element ever pushed has been popped: none leaks.
DropDrains ==
  \A t \in Threads : pc[t] = "dropped" => head = tail

\* push answers Full only when no ticket can be taken now: the queue holds
\* Capacity elements, or the pop of the slot's last element is not finished.
FullIsJustified ==
  [][\A t \in Threads : PushFull(t) =>
       \/ tail - head >= Capacity
       \/ \E u \in Threads : Reading(u) /\ pos[u] = tail - Capacity]_vars

\* pop answers Empty only when no element can be taken now: the queue holds
\* none, or the push of its oldest element is not finished.
EmptyIsJustified ==
  [][\A t \in Threads : PopEmpty(t) =>
       \/ head = tail
       \/ \E u \in Threads : Writing(u) /\ pos[u] = head]_vars

\* queue.rs retry loops (lines 49-80 and 85-117): a call in progress returns
\* unless other calls keep taking tickets, so the queue is lock-free.
LockFreedom ==
  \A t \in Threads :
    []<>(pc[t] \in {"idle", "dropped"}) \/ []<><<tail' + head' # tail + head>>_vars

\* The queue is the FIFO queue BoundedQueue, with both operations taking
\* effect at the successful compare-exchange on the ticket counter.
Abstract ==
  INSTANCE BoundedQueue WITH
    q <- SubSeq(enq, head + 1, tail),
    out <- [t \in Threads |-> CASE pc[t] = "pop_read"    -> enq[pos[t] + 1]
                                [] pc[t] = "pop_release" -> data[t]
                                [] OTHER                 -> NoData]

ImplementsBoundedQueue == Abstract!Spec
=============================================================================
