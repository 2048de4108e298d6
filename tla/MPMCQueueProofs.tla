-------------------------- MODULE MPMCQueueProofs ---------------------------
(***************************************************************************)
(* Proofs about MPMCQueue for any set of threads, any elements, any        *)
(* capacity of at least two and any number of tickets.                     *)
(***************************************************************************)
EXTENDS MPMCQueue, SequenceTheorems, TLAPS

-----------------------------------------------------------------------------
(* The arithmetic of slots *)

\* Every ticket has a slot of the buffer (queue.rs: tail & buffer_mask).
LEMMA SlotType == \A p \in Nat : Slot(p) \in Slots
  BY CapacityAssumption DEF Slot, Slots

\* A ticket is its lap times the capacity, plus its slot.
LEMMA Laps == \A p \in Nat : \E a \in Int : p = Capacity * a + Slot(p)
<1> SUFFICES ASSUME NEW p \in Nat PROVE \E a \in Int : p = Capacity * a + Slot(p)
  OBVIOUS
<1>1. p \div Capacity \in Int /\ p = Capacity * (p \div Capacity) + Slot(p)
  BY CapacityAssumption DEF Slot
<1> QED BY <1>1

\* A nonzero number of laps is at least Capacity tickets.
LEMMA LapLength ==
  ASSUME NEW k \in Int
  PROVE  /\ k >= 1 => Capacity * k >= Capacity
         /\ k <= 0 => Capacity * k <= 0
         /\ k <= -1 => Capacity * k <= -Capacity
         /\ Capacity * k \in Int
<1>1. k <= -1 => Capacity * (-k) >= Capacity
  BY CapacityAssumption
<1>2. Capacity * (-k) = -(Capacity * k)
  BY CapacityAssumption
<1> QED BY <1>1, <1>2, CapacityAssumption

\* Capacity times a difference is the difference of the products.
LEMMA LapDifference ==
  ASSUME NEW a \in Int, NEW b \in Int
  PROVE  Capacity * (b - a) = Capacity * b - Capacity * a
  BY CapacityAssumption

\* Two different tickets less than a lap apart have different slots.
LEMMA SlotDistinct ==
  ASSUME NEW p \in Nat, NEW q \in Nat, p # q, p < q + Capacity, q < p + Capacity
  PROVE  Slot(p) # Slot(q)
<1> SUFFICES ASSUME Slot(p) = Slot(q) PROVE FALSE
  OBVIOUS
<1>1. PICK a \in Int : p = Capacity * a + Slot(p) BY Laps
<1>2. PICK b \in Int : q = Capacity * b + Slot(q) BY Laps
<1>3. Slot(p) \in Int BY SlotType, CapacityAssumption DEF Slots
<1>4. Capacity * a \in Int /\ Capacity * b \in Int BY LapLength
<1>5. q - p = Capacity * b - Capacity * a BY <1>1, <1>2, <1>3, <1>4
<1>6. q - p = Capacity * (b - a) BY <1>5, LapDifference
<1>7. b - a \in Int OBVIOUS
<1>8. CASE b - a >= 1
  <2>1. Capacity * (b - a) >= Capacity BY <1>7, <1>8, LapLength
  <2> QED BY <2>1, <1>6, CapacityAssumption
<1>9. CASE b - a <= -1
  <2>1. Capacity * (b - a) <= -Capacity BY <1>7, <1>9, LapLength
  <2> QED BY <2>1, <1>6, CapacityAssumption
<1>10. CASE b - a = 0
  <2>1. Capacity * (b - a) = 0 BY <1>10, CapacityAssumption
  <2> QED BY <2>1, <1>6
<1> QED BY <1>7, <1>8, <1>9, <1>10

\* A ticket and the ticket one lap later share their slot.
LEMMA SlotShift ==
  ASSUME NEW p \in Nat
  PROVE  Slot(p + Capacity) = Slot(p)
<1>0. p + Capacity \in Nat BY CapacityAssumption
<1>1. PICK a \in Int : p = Capacity * a + Slot(p) BY Laps
<1>2. PICK b \in Int : p + Capacity = Capacity * b + Slot(p + Capacity)
  BY <1>0, Laps
<1>3. /\ Slot(p) \in 0 .. Capacity - 1
      /\ Slot(p + Capacity) \in 0 .. Capacity - 1
  BY <1>0, SlotType DEF Slots
<1>4. Capacity * a \in Int /\ Capacity * b \in Int BY LapLength
<1>5. Capacity * (b - a) = Capacity * b - Capacity * a BY LapDifference
<1>6. Capacity * (b - a) = Capacity + Slot(p) - Slot(p + Capacity)
  BY <1>1, <1>2, <1>3, <1>4, <1>5, CapacityAssumption
<1>7. /\ b - a \in Int /\ (b - a) - 1 \in Int
      /\ Capacity * ((b - a) - 1) = Capacity * (b - a) - Capacity * 1
  BY LapDifference
<1>8. Capacity * ((b - a) - 1) = Slot(p) - Slot(p + Capacity)
  BY <1>3, <1>6, <1>7, CapacityAssumption
<1>9. CASE (b - a) - 1 >= 1
  <2>1. Capacity * ((b - a) - 1) >= Capacity BY <1>7, <1>9, LapLength
  <2> QED BY <2>1, <1>8, <1>3, CapacityAssumption
<1>10. CASE (b - a) - 1 <= -1
  <2>1. Capacity * ((b - a) - 1) <= -Capacity BY <1>7, <1>10, LapLength
  <2> QED BY <2>1, <1>8, <1>3, CapacityAssumption
<1>11. CASE (b - a) - 1 = 0
  <2>1. Capacity * ((b - a) - 1) = 0 BY <1>11, CapacityAssumption
  <2> QED BY <2>1, <1>8, <1>3
<1> QED BY <1>7, <1>9, <1>10, <1>11

-----------------------------------------------------------------------------
(* Types *)

\* Initially every variable has its type.
LEMMA InitType == Init => TypeOK
  BY CapacityAssumption DEF Init, TypeOK, Slots

\* No step of push, pop or Drop takes a variable out of its type.
LEMMA NextType ==
  ASSUME TypeOK, TicketDiscipline, [Next]_vars
  PROVE  TypeOK'
<1> USE CapacityAssumption DEF TypeOK, Goto, PushPC, PopPC
<1>1. CASE UNCHANGED vars
  BY <1>1 DEF vars
<1>2. ASSUME NEW t \in Threads, Call(t) PROVE TypeOK'
  BY <1>2 DEF Call, Push, Pop, Drop
<1>3. ASSUME NEW t \in Threads, PushStep(t) PROVE TypeOK'
  <2>1. CASE PushCasOk(t)
    <3>1. data[t] \in Data
      BY <2>1 DEF PushCasOk, TicketDiscipline, CopyIsPast
    <3>2. enq' \in Seq(Data)
      BY <2>1, <3>1 DEF PushCasOk
    <3> QED BY <2>1, <3>2 DEF PushCasOk
  <2>2. CASE PushPublish(t)
    <3>1. Slot(pos[t]) \in Slots BY SlotType
    <3>2. pos[t] + 1 \in Nat OBVIOUS
    <3> QED BY <2>2, <3>1, <3>2 DEF PushPublish
  <2>3. CASE PushReload(t) BY <2>3 DEF PushReload
  <2>4. CASE PushLoadSeq(t) BY <2>4 DEF PushLoadSeq
  <2>5. CASE PushFull(t) BY <2>5 DEF PushFull
  <2>6. CASE PushCasFail(t) BY <2>6 DEF PushCasFail
  <2>7. CASE PushWrite(t) BY <2>7 DEF PushWrite
  <2> QED BY <1>3, <2>1, <2>2, <2>3, <2>4, <2>5, <2>6, <2>7 DEF PushStep
<1>4. ASSUME NEW t \in Threads, PopStep(t) PROVE TypeOK'
  <2>1. CASE PopRead(t)
    <3>1. Slot(pos[t]) \in Slots BY SlotType
    <3> QED BY <2>1, <3>1 DEF PopRead
  <2>2. CASE PopRelease(t)
    <3>1. pos[t] + Capacity \in Nat OBVIOUS
    <3> QED BY <2>2, <3>1 DEF PopRelease
  <2>3. CASE PopReload(t) BY <2>3 DEF PopReload
  <2>4. CASE PopLoadSeq(t) BY <2>4 DEF PopLoadSeq
  <2>5. CASE PopEmpty(t) BY <2>5 DEF PopEmpty
  <2>6. CASE PopCasOk(t) BY <2>6 DEF PopCasOk
  <2>7. CASE PopCasFail(t) BY <2>7 DEF PopCasFail
  <2> QED BY <1>4, <2>1, <2>2, <2>3, <2>4, <2>5, <2>6, <2>7 DEF PopStep
<1> QED BY <1>1, <1>2, <1>3, <1>4 DEF Next

-----------------------------------------------------------------------------
(* Ownership of slots *)

\* Two threads that hold tickets hold tickets less than a lap apart.
LEMMA OwnersApart ==
  ASSUME TypeOK, TicketDiscipline,
         NEW t \in Threads, NEW u \in Threads, t # u,
         Writing(t) \/ Reading(t), Writing(u) \/ Reading(u)
  PROVE  Slot(pos[t]) # Slot(pos[u])
<1>1. pos[t] \in Nat /\ pos[u] \in Nat /\ head \in Nat /\ tail \in Nat
  BY DEF TypeOK
<1>2. pos[t] # pos[u] /\ pos[t] < pos[u] + Capacity /\ pos[u] < pos[t] + Capacity
  BY <1>1, CapacityAssumption
     DEF TicketDiscipline, Counters, WriterOwns, ReaderOwns, TicketsDistinct
<1> QED BY <1>1, <1>2, SlotDistinct

-----------------------------------------------------------------------------
(* The steps of the inductive invariant *)

\* The ticket discipline holds in a new queue: every ticket of the first lap is free.
LEMMA InitDiscipline == Init => TicketDiscipline
<1> SUFFICES ASSUME Init PROVE TicketDiscipline
  OBVIOUS
<1> USE CapacityAssumption DEF Init
<1>1. Counters BY DEF Counters
<1>2. \A t \in Threads : WriterOwns(t) /\ ReaderOwns(t) /\ CopyIsPast(t)
  BY DEF WriterOwns, ReaderOwns, CopyIsPast, Writing, Reading, PushPC, PopPC
<1>3. TicketsDistinct
  BY DEF TicketsDistinct, Writing, Reading
<1>4. SlotStates
  <2>1. \A p \in 0 .. Capacity - 1 : p \in Slots /\ Slot(p) = p
    BY DEF Slot, Slots
  <2> QED BY <2>1 DEF SlotStates, Vacant
<1>5. DropIsExclusive
  BY NoThreadAssumption DEF DropIsExclusive
<1> QED BY <1>1, <1>2, <1>3, <1>4, <1>5 DEF TicketDiscipline

\* A step that changes no shared word and no owner keeps what the owners and
\* the slots have.
LEMMA LocalStep ==
  ASSUME TypeOK, TicketDiscipline,
         UNCHANGED <<tail, head, seq, value, enq>>,
         NEW t \in Threads,
         ~Writing(t), ~Reading(t), ~Writing(t)', ~Reading(t)',
         \A u \in Threads : u # t => /\ pc'[u] = pc[u] /\ pos'[u] = pos[u]
                                     /\ data'[u] = data[u]
  PROVE  /\ Counters' /\ TicketsDistinct' /\ SlotStates'
         /\ \A u \in Threads : WriterOwns(u)' /\ ReaderOwns(u)'
         /\ \A u \in Threads : u # t => CopyIsPast(u)'
<1>1. \A u \in Threads : /\ Writing(u)' <=> Writing(u)
                         /\ Reading(u)' <=> Reading(u)
  BY DEF Writing, Reading
<1>2. Counters' BY DEF TicketDiscipline, Counters
<1>3. TicketsDistinct'
  BY <1>1 DEF TicketDiscipline, TicketsDistinct
<1>4. \A u \in Threads : WriterOwns(u)' /\ ReaderOwns(u)'
  BY <1>1 DEF TicketDiscipline, WriterOwns, ReaderOwns
<1>5. \A u \in Threads : u # t => CopyIsPast(u)'
  BY DEF TicketDiscipline, CopyIsPast
<1>6. ASSUME NEW p, Occupied(p) PROVE Occupied(p)'
  <2>1. CASE seq[Slot(p)] = p + 1 /\ value[Slot(p)] = enq[p + 1]
    BY <2>1 DEF Occupied
  <2>2. ASSUME seq[Slot(p)] = p, NEW u \in Threads, Writing(u), pos[u] = p
        PROVE  Occupied(p)'
    <3>1. Writing(u)' /\ pos'[u] = p BY <2>2, <1>1
    <3> QED BY <2>2, <3>1 DEF Occupied
  <2> QED BY <1>6, <2>1, <2>2 DEF Occupied
<1>7. ASSUME NEW p, Vacant(p) PROVE Vacant(p)'
  <2>1. CASE seq[Slot(p)] = p
    BY <2>1 DEF Vacant
  <2>2. ASSUME seq[Slot(p)] = (p - Capacity) + 1,
               NEW u \in Threads, Reading(u), pos[u] = p - Capacity
        PROVE  Vacant(p)'
    <3>1. Reading(u)' /\ pos'[u] = p - Capacity BY <2>2, <1>1
    <3> QED BY <2>2, <3>1 DEF Vacant
  <2> QED BY <1>7, <2>1, <2>2 DEF Vacant
<1>8. SlotStates'
  BY <1>6, <1>7 DEF TicketDiscipline, SlotStates
<1> QED BY <1>2, <1>3, <1>4, <1>5, <1>8

\* The calls, the loads and the failed compare-exchanges are local steps.
LEMMA LocalActions ==
  ASSUME TypeOK, TicketDiscipline, NEW t \in Threads,
         \/ Call(t)
         \/ PushReload(t) \/ PushLoadSeq(t) \/ PushFull(t) \/ PushCasFail(t)
         \/ PopReload(t) \/ PopLoadSeq(t) \/ PopEmpty(t) \/ PopCasFail(t)
  PROVE  TicketDiscipline'
<1> DEFINE Local == \/ Call(t)
                    \/ PushReload(t) \/ PushLoadSeq(t) \/ PushFull(t) \/ PushCasFail(t)
                    \/ PopReload(t) \/ PopLoadSeq(t) \/ PopEmpty(t) \/ PopCasFail(t)
<1>0. Local OBVIOUS
<1> HIDE DEF Local
<1>1. /\ UNCHANGED <<tail, head, seq, value, enq>>
      /\ ~Writing(t) /\ ~Reading(t) /\ ~Writing(t)' /\ ~Reading(t)'
      /\ \A u \in Threads : u # t => /\ pc'[u] = pc[u] /\ pos'[u] = pos[u]
                                     /\ data'[u] = data[u]
  BY <1>0 DEF Local, TypeOK, Call, Push, Pop, Drop, PushReload, PushLoadSeq,
         PushFull, PushCasFail, PopReload, PopLoadSeq, PopEmpty, PopCasFail,
         Goto, Writing, Reading
<1>2. /\ Counters' /\ TicketsDistinct' /\ SlotStates'
      /\ \A u \in Threads : WriterOwns(u)' /\ ReaderOwns(u)'
      /\ \A u \in Threads : u # t => CopyIsPast(u)'
  BY <1>1, LocalStep
<1>3. CopyIsPast(t)'
  <2>1. CopyIsPast(t) BY DEF TicketDiscipline
  <2>2. CASE PushLoadSeq(t) \/ PopLoadSeq(t)
    <3>1. pos[t] \in Nat /\ seq[Slot(pos[t])] \in Nat
      BY SlotType DEF TypeOK
    <3>2. CASE PushLoadSeq(t)
      <4>1. pc'[t] = "push_cas" => seq[Slot(pos[t])] = pos[t]
        BY <3>1, <3>2 DEF PushLoadSeq, Goto, TypeOK
      <4> QED BY <2>1, <3>2, <4>1 DEF CopyIsPast, TypeOK, PushLoadSeq, Goto, PushPC, PopPC
    <3>3. CASE PopLoadSeq(t)
      <4>1. pc'[t] = "pop_cas" => seq[Slot(pos[t])] = pos[t] + 1
        BY <3>1, <3>3 DEF PopLoadSeq, Goto, TypeOK
      <4> QED BY <2>1, <3>3, <4>1 DEF CopyIsPast, TypeOK, PopLoadSeq, Goto, PushPC, PopPC
    <3> QED BY <2>2, <3>2, <3>3
  <2>3. CASE PushFull(t) \/ PopEmpty(t)
    BY <2>3 DEF CopyIsPast, TypeOK, PushFull, PopEmpty, Goto, PushPC, PopPC
  <2>4. CASE PushReload(t) \/ PushCasFail(t) \/ PopReload(t) \/ PopCasFail(t)
    BY <2>1, <2>4 DEF CopyIsPast, TypeOK, PushReload, PushCasFail, PopReload,
                      PopCasFail, Goto, PushPC, PopPC
  <2>5. CASE Call(t)
    <3>1. CASE Pop(t) \/ Drop(t)
      BY <3>1 DEF CopyIsPast, TypeOK, Pop, Drop, Goto, PushPC, PopPC
    <3>2. ASSUME NEW d \in Data, Push(t, d) PROVE CopyIsPast(t)'
      BY <3>2 DEF CopyIsPast, TypeOK, Push, Goto, PushPC, PopPC
    <3> QED BY <2>5, <3>1, <3>2 DEF Call
  <2> QED BY <1>0, <2>2, <2>3, <2>4, <2>5 DEF Local
<1>4. DropIsExclusive'
  <2>1. DropIsExclusive BY DEF TicketDiscipline
  <2>2. CASE Call(t)
    BY <2>1, <2>2, NoThreadAssumption
       DEF DropIsExclusive, TypeOK, Call, Push, Pop, Drop, Goto, PopPC
  <2>3. CASE PushReload(t) \/ PushLoadSeq(t) \/ PushFull(t) \/ PushCasFail(t)
    BY <2>1, <2>3 DEF DropIsExclusive, TypeOK, PushReload, PushLoadSeq, PushFull,
                      PushCasFail, Goto, PopPC
  <2>4. CASE PopReload(t) \/ PopLoadSeq(t) \/ PopCasFail(t)
    BY <2>1, <2>4 DEF DropIsExclusive, TypeOK, PopReload, PopLoadSeq, PopCasFail,
                      Goto, PopPC
  <2>5. CASE PopEmpty(t)
    <3>1. ASSUME dropper = t PROVE head = tail
      <4>1. pos[t] = head /\ \A u \in Threads : ~Writing(u)
        BY <2>1, <2>5, <3>1 DEF DropIsExclusive, PopEmpty, Writing
      <4>2. SUFFICES ASSUME head # tail PROVE FALSE
        OBVIOUS
      <4>3. head \in head .. tail - 1
        BY <4>2 DEF TicketDiscipline, Counters, TypeOK
      <4>4. Occupied(head)
        BY <4>3 DEF TicketDiscipline, SlotStates
      <4>5. seq[Slot(head)] = head + 1
        BY <4>1, <4>4 DEF Occupied
      <4> QED BY <2>5, <4>1, <4>5 DEF PopEmpty, TypeOK
    <3> QED BY <2>1, <2>5, <3>1 DEF DropIsExclusive, TypeOK, PopEmpty, Goto, PopPC
  <2> QED BY <1>0, <2>2, <2>3, <2>4, <2>5 DEF Local
<1> QED BY <1>2, <1>3, <1>4 DEF TicketDiscipline

\* Winning a push ticket: the slot is free and no pop of the previous lap is
\* still reading it, because a capacity of one is excluded.
LEMMA PushCasOkStep ==
  ASSUME TypeOK, TicketDiscipline, NEW t \in Threads, PushCasOk(t)
  PROVE  TicketDiscipline'
<1> USE CapacityAssumption
<1>1. /\ tail \in Nat /\ head \in Nat /\ head <= tail /\ tail <= head + Capacity
      /\ Len(enq) = tail /\ enq \in Seq(Data) /\ data[t] \in Data
      /\ pos \in [Threads -> Nat]
  BY DEF TypeOK, TicketDiscipline, Counters, PushCasOk, CopyIsPast, PushPC
<1>2. pos[t] = tail /\ seq[Slot(tail)] = tail
  BY DEF PushCasOk, TicketDiscipline, CopyIsPast
<1>3. /\ tail' = tail + 1
      /\ enq' = Append(enq, data[t])
      /\ UNCHANGED <<head, seq, value, pos, data, dropper>>
      /\ pc[t] = "push_cas" /\ pc'[t] = "push_write"
      /\ \A u \in Threads : u # t => pc'[u] = pc[u]
  BY DEF PushCasOk, Goto, TypeOK
<1>4. /\ Len(enq') = tail + 1 /\ enq'[tail + 1] = data[t]
      /\ \A p \in Nat : p < tail => enq'[p + 1] = enq[p + 1]
  BY <1>1, <1>3
<1>5. tail < head + Capacity
  <2> SUFFICES ASSUME tail = head + Capacity PROVE FALSE
    BY <1>1
  <2>1. Slot(tail) = Slot(head) BY <1>1, SlotShift
  <2>2. Occupied(head) BY <1>1 DEF TicketDiscipline, SlotStates
  <2> QED BY <1>1, <1>2, <2>1, <2>2 DEF Occupied
<1>6. \A u \in Threads : Reading(u) => pos[u] + Capacity # tail
  <2> SUFFICES ASSUME NEW u \in Threads, Reading(u), pos[u] + Capacity = tail
               PROVE  FALSE
    OBVIOUS
  <2>1. pos[u] \in Nat BY <1>1
  <2>2. Slot(tail) = Slot(pos[u]) BY <2>1, SlotShift
  <2>3. seq[Slot(pos[u])] = pos[u] + 1 BY DEF TicketDiscipline, ReaderOwns
  <2> QED BY <1>1, <1>2, <2>1, <2>2, <2>3
<1>7. Writing(t)' /\ ~Writing(t) /\ ~Reading(t)' /\ ~Reading(t)
  BY <1>3 DEF Writing, Reading
<1>8. \A u \in Threads : u # t => /\ Writing(u)' <=> Writing(u)
                                  /\ Reading(u)' <=> Reading(u)
  BY <1>3 DEF Writing, Reading
<1>9. Counters'
  BY <1>1, <1>3, <1>4, <1>5 DEF Counters
<1>10. ASSUME NEW u \in Threads PROVE WriterOwns(u)'
  <2>1. CASE u = t
    BY <1>1, <1>2, <1>3, <1>4, <2>1 DEF WriterOwns
  <2>2. CASE u # t
    <3>1. WriterOwns(u) BY DEF TicketDiscipline
    <3> QED BY <1>1, <1>3, <1>4, <1>8, <2>2, <3>1 DEF WriterOwns
  <2> QED BY <2>1, <2>2
<1>11. ASSUME NEW u \in Threads PROVE ReaderOwns(u)'
  <2>1. ReaderOwns(u) /\ pos[u] \in Nat BY <1>1 DEF TicketDiscipline
  <2>2. CASE u = t BY <1>7, <2>2 DEF ReaderOwns
  <2>3. ASSUME u # t, Reading(u) PROVE ReaderOwns(u)'
    <3>1. pos[u] < head /\ tail <= pos[u] + Capacity /\ pos[u] + Capacity # tail
      BY <1>6, <2>1, <2>3 DEF ReaderOwns
    <3>2. pos[u] < tail /\ tail' <= pos[u] + Capacity
      <4>1. /\ tail \in Nat /\ head \in Nat /\ head <= tail /\ pos[u] \in Nat
            /\ tail' = tail + 1
        BY <1>1, <1>3, <2>1
      <4> QED BY <3>1, <4>1
    <3>3. enq'[pos[u] + 1] = enq[pos[u] + 1] BY <1>4, <2>1, <3>2
    <3> QED BY <1>3, <2>1, <2>3, <3>1, <3>2, <3>3 DEF ReaderOwns
  <2> QED BY <1>8, <2>2, <2>3 DEF ReaderOwns
<1>12. TicketsDistinct'
  <2>1. \A u \in Threads : Writing(u) => pos[u] # tail
    BY <1>1 DEF TicketDiscipline, WriterOwns
  <2> QED BY <1>2, <1>3, <1>7, <1>8, <2>1 DEF TicketDiscipline, TicketsDistinct
<1>13. ASSUME NEW p \in head .. tail PROVE Occupied(p)'
  <2>1. CASE p = tail
    BY <1>2, <1>3, <1>7, <2>1 DEF Occupied
  <2>2. CASE p # tail
    <3>1. p \in head .. tail - 1 /\ p \in Nat /\ p < tail BY <1>1, <2>2
    <3>2. Occupied(p) BY <3>1 DEF TicketDiscipline, SlotStates
    <3>3. CASE seq[Slot(p)] = p + 1 /\ value[Slot(p)] = enq[p + 1]
      BY <1>3, <1>4, <3>1, <3>3 DEF Occupied
    <3>4. ASSUME seq[Slot(p)] = p, NEW u \in Threads, Writing(u), pos[u] = p
          PROVE  Occupied(p)'
      <4>1. Writing(u)' /\ pos'[u] = p BY <1>3, <1>7, <1>8, <3>4
      <4> QED BY <1>3, <3>4, <4>1 DEF Occupied
    <3> QED BY <3>2, <3>3, <3>4 DEF Occupied
  <2> QED BY <2>1, <2>2
<1>14. ASSUME NEW p \in tail + 1 .. (head + Capacity) - 1 PROVE Vacant(p)'
  <2>1. Vacant(p)
    BY <1>1 DEF TicketDiscipline, SlotStates
  <2>2. CASE seq[Slot(p)] = p BY <1>3, <2>2 DEF Vacant
  <2>3. ASSUME seq[Slot(p)] = (p - Capacity) + 1,
               NEW u \in Threads, Reading(u), pos[u] = p - Capacity
        PROVE  Vacant(p)'
    <3>1. Reading(u)' /\ pos'[u] = p - Capacity BY <1>3, <1>7, <1>8, <2>3
    <3> QED BY <1>3, <2>3, <3>1 DEF Vacant
  <2> QED BY <2>1, <2>2, <2>3 DEF Vacant
<1>15. SlotStates'
  <2>1. head' = head /\ (head' .. tail' - 1) = (head .. tail) BY <1>1, <1>3
  <2> QED BY <1>3, <1>13, <1>14, <2>1 DEF SlotStates
<1>16. ASSUME NEW u \in Threads PROVE CopyIsPast(u)'
  <2>1. CopyIsPast(u) /\ pos[u] \in Nat BY <1>1 DEF TicketDiscipline
  <2>2. CASE u = t
    BY <1>1, <1>2, <1>3, <2>2 DEF CopyIsPast, PushPC, PopPC
  <2>3. CASE u # t
    BY <1>1, <1>3, <2>1, <2>3 DEF CopyIsPast, PushPC, PopPC
  <2> QED BY <2>2, <2>3
<1>17. DropIsExclusive'
  <2>1. DropIsExclusive BY DEF TicketDiscipline
  <2> QED BY <1>3, <2>1 DEF DropIsExclusive, PopPC
<1> QED BY <1>9, <1>10, <1>11, <1>12, <1>15, <1>16, <1>17 DEF TicketDiscipline

\* Winning a pop ticket: the element is there, and the pushes can reach the
\* slot again only one lap later.
LEMMA PopCasOkStep ==
  ASSUME TypeOK, TicketDiscipline, NEW t \in Threads, PopCasOk(t)
  PROVE  TicketDiscipline'
<1> USE CapacityAssumption
<1>1. /\ tail \in Nat /\ head \in Nat /\ head <= tail /\ tail <= head + Capacity
      /\ pos \in [Threads -> Nat]
  BY DEF TypeOK, TicketDiscipline, Counters
<1>2. pos[t] = head /\ seq[Slot(head)] = head + 1
  BY DEF PopCasOk, TicketDiscipline, CopyIsPast
<1>3. /\ head' = head + 1
      /\ UNCHANGED <<tail, seq, value, pos, data, dropper, enq>>
      /\ pc[t] = "pop_cas" /\ pc'[t] = "pop_read"
      /\ \A u \in Threads : u # t => pc'[u] = pc[u]
  BY DEF PopCasOk, Goto, TypeOK
<1>4. head < tail
  <2> SUFFICES ASSUME head = tail PROVE FALSE
    BY <1>1
  <2>1. Vacant(head) BY <1>1 DEF TicketDiscipline, SlotStates
  <2> QED BY <1>1, <1>2, <2>1 DEF Vacant
<1>5. value[Slot(head)] = enq[head + 1]
  <2>1. Occupied(head) BY <1>1, <1>4 DEF TicketDiscipline, SlotStates
  <2> QED BY <1>1, <1>2, <2>1 DEF Occupied
<1>6. \A u \in Threads : Writing(u) => pos[u] # head
  BY <1>1, <1>2 DEF TicketDiscipline, WriterOwns
<1>7. Reading(t)' /\ ~Reading(t) /\ ~Writing(t)' /\ ~Writing(t)
  BY <1>3 DEF Writing, Reading
<1>8. \A u \in Threads : u # t => /\ Writing(u)' <=> Writing(u)
                                  /\ Reading(u)' <=> Reading(u)
  BY <1>3 DEF Writing, Reading
<1>9. Counters'
  BY <1>1, <1>3, <1>4 DEF TicketDiscipline, Counters
<1>10. ASSUME NEW u \in Threads PROVE WriterOwns(u)'
  <2>1. WriterOwns(u) /\ pos[u] \in Nat BY <1>1 DEF TicketDiscipline
  <2>2. CASE u = t BY <1>7, <2>2 DEF WriterOwns
  <2>3. CASE u # t
    BY <1>1, <1>3, <1>6, <1>8, <2>1, <2>3 DEF WriterOwns
  <2> QED BY <2>2, <2>3
<1>11. ASSUME NEW u \in Threads PROVE ReaderOwns(u)'
  <2>1. ReaderOwns(u) /\ pos[u] \in Nat BY <1>1 DEF TicketDiscipline
  <2>2. CASE u = t
    BY <1>1, <1>2, <1>3, <1>5, <2>2 DEF ReaderOwns
  <2>3. CASE u # t
    BY <1>1, <1>3, <1>8, <2>1, <2>3 DEF ReaderOwns
  <2> QED BY <2>2, <2>3
<1>12. TicketsDistinct'
  <2>1. \A u \in Threads : Reading(u) => pos[u] # head
    BY <1>1 DEF TicketDiscipline, ReaderOwns
  <2> QED BY <1>2, <1>3, <1>7, <1>8, <2>1 DEF TicketDiscipline, TicketsDistinct
<1>13. ASSUME NEW p \in head + 1 .. tail - 1 PROVE Occupied(p)'
  <2>1. Occupied(p) BY <1>1 DEF TicketDiscipline, SlotStates
  <2>2. CASE seq[Slot(p)] = p + 1 /\ value[Slot(p)] = enq[p + 1]
    BY <1>3, <2>2 DEF Occupied
  <2>3. ASSUME seq[Slot(p)] = p, NEW u \in Threads, Writing(u), pos[u] = p
        PROVE  Occupied(p)'
    <3>1. Writing(u)' /\ pos'[u] = p BY <1>3, <1>7, <1>8, <2>3
    <3> QED BY <1>3, <2>3, <3>1 DEF Occupied
  <2> QED BY <2>1, <2>2, <2>3 DEF Occupied
<1>14. ASSUME NEW p \in tail .. head + Capacity PROVE Vacant(p)'
  <2>1. CASE p = head + Capacity
    <3>1. Slot(p) = Slot(head) BY <1>1, <2>1, SlotShift
    <3>2. p - Capacity = head BY <1>1, <2>1
    <3>3. seq'[Slot(p)] = (p - Capacity) + 1 BY <1>2, <1>3, <3>1, <3>2
    <3>4. Reading(t)' /\ pos'[t] = p - Capacity BY <1>2, <1>3, <1>7, <3>2
    <3> QED BY <3>3, <3>4 DEF Vacant
  <2>2. CASE p # head + Capacity
    <3>1. Vacant(p) BY <1>1, <2>2 DEF TicketDiscipline, SlotStates
    <3>2. CASE seq[Slot(p)] = p BY <1>3, <3>2 DEF Vacant
    <3>3. ASSUME seq[Slot(p)] = (p - Capacity) + 1,
                 NEW u \in Threads, Reading(u), pos[u] = p - Capacity
          PROVE  Vacant(p)'
      <4>1. Reading(u)' /\ pos'[u] = p - Capacity BY <1>3, <1>7, <1>8, <3>3
      <4> QED BY <1>3, <3>3, <4>1 DEF Vacant
    <3> QED BY <3>1, <3>2, <3>3 DEF Vacant
  <2> QED BY <2>1, <2>2
<1>15. SlotStates'
  <2>1. (tail' .. (head' + Capacity) - 1) = (tail .. head + Capacity) BY <1>1, <1>3
  <2> QED BY <1>3, <1>13, <1>14, <2>1 DEF SlotStates
<1>16. ASSUME NEW u \in Threads PROVE CopyIsPast(u)'
  <2>1. CopyIsPast(u) /\ pos[u] \in Nat BY <1>1 DEF TicketDiscipline
  <2>2. CASE u = t
    BY <1>1, <1>2, <1>3, <2>2 DEF CopyIsPast, PushPC, PopPC
  <2>3. CASE u # t
    BY <1>1, <1>3, <2>1, <2>3 DEF CopyIsPast, PushPC, PopPC
  <2> QED BY <2>2, <2>3
<1>17. DropIsExclusive'
  <2>1. DropIsExclusive BY DEF TicketDiscipline
  <2> QED BY <1>3, <2>1 DEF DropIsExclusive, PopPC
<1> QED BY <1>9, <1>10, <1>11, <1>12, <1>15, <1>16, <1>17 DEF TicketDiscipline

\* Writing the cell or reading it changes no sequence word and no owner.
LEMMA PushWriteStep ==
  ASSUME TypeOK, TicketDiscipline, NEW t \in Threads, PushWrite(t)
  PROVE  TicketDiscipline'
<1> USE CapacityAssumption
<1>1. /\ tail \in Nat /\ head \in Nat /\ head <= tail /\ tail <= head + Capacity
      /\ pos \in [Threads -> Nat]
      /\ Slot(pos[t]) \in Slots
      /\ value \in [Slots -> Data \cup {NoData}]
  BY SlotType DEF TypeOK, TicketDiscipline, Counters
<1>2. /\ UNCHANGED <<tail, head, seq, pos, data, dropper, enq>>
      /\ pc[t] = "push_write" /\ pc'[t] = "push_publish"
      /\ \A u \in Threads : u # t => pc'[u] = pc[u]
      /\ value' = [value EXCEPT ![Slot(pos[t])] = data[t]]
  BY DEF PushWrite, Goto, TypeOK
<1>3. Writing(t) /\ Writing(t)' /\ ~Reading(t) /\ ~Reading(t)'
  BY <1>2 DEF Writing, Reading
<1>4. \A u \in Threads : /\ Writing(u)' <=> Writing(u)
                         /\ Reading(u)' <=> Reading(u)
  BY <1>2, <1>3 DEF Writing, Reading
<1>5. /\ head <= pos[t] /\ pos[t] < tail /\ seq[Slot(pos[t])] = pos[t]
      /\ data[t] = enq[pos[t] + 1]
  BY <1>3 DEF TicketDiscipline, WriterOwns
<1>6. Counters' BY <1>2 DEF TicketDiscipline, Counters
<1>7. ASSUME NEW u \in Threads PROVE WriterOwns(u)' /\ ReaderOwns(u)'
  <2>1. WriterOwns(u) /\ ReaderOwns(u) BY DEF TicketDiscipline
  <2>2. CASE u = t
    BY <1>1, <1>2, <1>3, <1>5, <2>2 DEF WriterOwns, ReaderOwns
  <2>3. ASSUME u # t, Writing(u) \/ Reading(u) PROVE WriterOwns(u)' /\ ReaderOwns(u)'
    <3>1. Slot(pos[u]) # Slot(pos[t]) BY <1>3, <2>3, OwnersApart
    <3>2. value'[Slot(pos[u])] = value[Slot(pos[u])]
      BY <1>1, <1>2, <3>1, SlotType
    <3> QED BY <1>2, <1>4, <2>1, <2>3, <3>2 DEF WriterOwns, ReaderOwns
  <2> QED BY <1>4, <2>2, <2>3 DEF WriterOwns, ReaderOwns
<1>8. TicketsDistinct'
  BY <1>2, <1>4 DEF TicketDiscipline, TicketsDistinct
<1>9. ASSUME NEW p \in head .. tail - 1 PROVE Occupied(p)'
  <2>1. Occupied(p) /\ p \in Nat BY <1>1 DEF TicketDiscipline, SlotStates
  <2>2. CASE seq[Slot(p)] = p + 1 /\ value[Slot(p)] = enq[p + 1]
    <3>1. p # pos[t] BY <1>1, <1>5, <2>2
    <3>2. Slot(p) # Slot(pos[t]) BY <1>1, <1>5, <2>1, <3>1, SlotDistinct
    <3>3. value'[Slot(p)] = value[Slot(p)] BY <1>1, <1>2, <2>1, <3>2, SlotType
    <3> QED BY <1>2, <2>2, <3>3 DEF Occupied
  <2>3. ASSUME seq[Slot(p)] = p, NEW u \in Threads, Writing(u), pos[u] = p
        PROVE  Occupied(p)'
    <3>1. Writing(u)' /\ pos'[u] = p BY <1>2, <1>4, <2>3
    <3> QED BY <1>2, <2>3, <3>1 DEF Occupied
  <2> QED BY <2>1, <2>2, <2>3 DEF Occupied
<1>10. ASSUME NEW p \in tail .. (head + Capacity) - 1 PROVE Vacant(p)'
  <2>1. Vacant(p) BY DEF TicketDiscipline, SlotStates
  <2>2. CASE seq[Slot(p)] = p BY <1>2, <2>2 DEF Vacant
  <2>3. ASSUME seq[Slot(p)] = (p - Capacity) + 1,
               NEW u \in Threads, Reading(u), pos[u] = p - Capacity
        PROVE  Vacant(p)'
    <3>1. Reading(u)' /\ pos'[u] = p - Capacity BY <1>2, <1>4, <2>3
    <3> QED BY <1>2, <2>3, <3>1 DEF Vacant
  <2> QED BY <2>1, <2>2, <2>3 DEF Vacant
<1>11. SlotStates' BY <1>2, <1>9, <1>10 DEF SlotStates
<1>12. ASSUME NEW u \in Threads PROVE CopyIsPast(u)'
  <2>1. CopyIsPast(u) BY DEF TicketDiscipline
  <2>2. CASE u = t BY <1>2, <2>1, <2>2 DEF CopyIsPast, PushPC, PopPC
  <2>3. CASE u # t BY <1>2, <2>1, <2>3 DEF CopyIsPast
  <2> QED BY <2>2, <2>3
<1>13. DropIsExclusive'
  <2>1. DropIsExclusive BY DEF TicketDiscipline
  <2> QED BY <1>2, <2>1 DEF DropIsExclusive, PopPC
<1> QED BY <1>6, <1>7, <1>8, <1>11, <1>12, <1>13 DEF TicketDiscipline

\* Reading the cell changes no sequence word and no owner either.
LEMMA PopReadStep ==
  ASSUME TypeOK, TicketDiscipline, NEW t \in Threads, PopRead(t)
  PROVE  TicketDiscipline'
<1>1. /\ UNCHANGED <<tail, head, seq, value, pos, dropper, enq>>
      /\ pc[t] = "pop_read" /\ pc'[t] = "pop_release"
      /\ data'[t] = value[Slot(pos[t])]
      /\ \A u \in Threads : u # t => pc'[u] = pc[u] /\ data'[u] = data[u]
  BY DEF PopRead, Goto, TypeOK
<1>2. Reading(t) /\ Reading(t)' /\ ~Writing(t) /\ ~Writing(t)'
  BY <1>1 DEF Writing, Reading
<1>3. \A u \in Threads : /\ Writing(u)' <=> Writing(u)
                         /\ Reading(u)' <=> Reading(u)
  BY <1>1, <1>2 DEF Writing, Reading
<1>4. Counters' BY <1>1 DEF TicketDiscipline, Counters
<1>5. ASSUME NEW u \in Threads PROVE WriterOwns(u)' /\ ReaderOwns(u)'
  <2>1. WriterOwns(u) /\ ReaderOwns(u) BY DEF TicketDiscipline
  <2>2. CASE u = t
    BY <1>1, <1>2, <2>1, <2>2 DEF WriterOwns, ReaderOwns
  <2>3. CASE u # t
    BY <1>1, <1>3, <2>1, <2>3 DEF WriterOwns, ReaderOwns
  <2> QED BY <2>2, <2>3
<1>6. TicketsDistinct'
  BY <1>1, <1>3 DEF TicketDiscipline, TicketsDistinct
<1>7. ASSUME NEW p \in head .. tail - 1 PROVE Occupied(p)'
  <2>1. Occupied(p) BY DEF TicketDiscipline, SlotStates
  <2>2. CASE seq[Slot(p)] = p + 1 /\ value[Slot(p)] = enq[p + 1]
    BY <1>1, <2>2 DEF Occupied
  <2>3. ASSUME seq[Slot(p)] = p, NEW u \in Threads, Writing(u), pos[u] = p
        PROVE  Occupied(p)'
    <3>1. Writing(u)' /\ pos'[u] = p BY <1>1, <1>3, <2>3
    <3> QED BY <1>1, <2>3, <3>1 DEF Occupied
  <2> QED BY <2>1, <2>2, <2>3 DEF Occupied
<1>8. ASSUME NEW p \in tail .. (head + Capacity) - 1 PROVE Vacant(p)'
  <2>1. Vacant(p) BY DEF TicketDiscipline, SlotStates
  <2>2. CASE seq[Slot(p)] = p BY <1>1, <2>2 DEF Vacant
  <2>3. ASSUME seq[Slot(p)] = (p - Capacity) + 1,
               NEW u \in Threads, Reading(u), pos[u] = p - Capacity
        PROVE  Vacant(p)'
    <3>1. Reading(u)' /\ pos'[u] = p - Capacity BY <1>1, <1>3, <2>3
    <3> QED BY <1>1, <2>3, <3>1 DEF Vacant
  <2> QED BY <2>1, <2>2, <2>3 DEF Vacant
<1>9. SlotStates' BY <1>1, <1>7, <1>8 DEF SlotStates
<1>10. ASSUME NEW u \in Threads PROVE CopyIsPast(u)'
  <2>1. CopyIsPast(u) BY DEF TicketDiscipline
  <2>2. CASE u = t BY <1>1, <2>1, <2>2 DEF CopyIsPast, PushPC, PopPC
  <2>3. CASE u # t BY <1>1, <2>1, <2>3 DEF CopyIsPast
  <2> QED BY <2>2, <2>3
<1>11. DropIsExclusive'
  <2>1. DropIsExclusive BY DEF TicketDiscipline
  <2> QED BY <1>1, <2>1 DEF DropIsExclusive, PopPC
<1> QED BY <1>4, <1>5, <1>6, <1>9, <1>10, <1>11 DEF TicketDiscipline

\* Publishing turns the ticket from "being written" to "holds its element".
LEMMA PushPublishStep ==
  ASSUME TypeOK, TicketDiscipline, NEW t \in Threads, PushPublish(t)
  PROVE  TicketDiscipline'
<1> USE CapacityAssumption
<1> DEFINE P == pos[t]
<1>1. /\ tail \in Nat /\ head \in Nat /\ head <= tail /\ tail <= head + Capacity
      /\ pos \in [Threads -> Nat] /\ P \in Nat
      /\ Slot(P) \in Slots /\ seq \in [Slots -> Nat]
  BY SlotType DEF TypeOK, TicketDiscipline, Counters
<1>2. /\ UNCHANGED <<tail, head, value, pos, dropper, enq>>
      /\ pc[t] = "push_publish" /\ pc'[t] = "idle"
      /\ \A u \in Threads : u # t => pc'[u] = pc[u] /\ data'[u] = data[u]
      /\ seq' = [seq EXCEPT ![Slot(P)] = P + 1]
  BY DEF PushPublish, Goto, TypeOK
<1>3. Writing(t) /\ ~Writing(t)' /\ ~Reading(t) /\ ~Reading(t)'
  BY <1>2 DEF Writing, Reading
<1>4. \A u \in Threads : u # t => /\ Writing(u)' <=> Writing(u)
                                  /\ Reading(u)' <=> Reading(u)
  BY <1>2 DEF Writing, Reading
<1>5. /\ head <= P /\ P < tail /\ seq[Slot(P)] = P
      /\ value[Slot(P)] = enq[P + 1]
  BY <1>2, <1>3 DEF TicketDiscipline, WriterOwns
<1>6. seq'[Slot(P)] = P + 1 BY <1>1, <1>2
<1>7. ASSUME NEW p \in Nat, Slot(p) # Slot(P) PROVE seq'[Slot(p)] = seq[Slot(p)]
  BY <1>1, <1>2, <1>7, SlotType
<1> HIDE DEF P
<1>8. Counters' BY <1>2 DEF TicketDiscipline, Counters
<1>9. ASSUME NEW u \in Threads PROVE WriterOwns(u)' /\ ReaderOwns(u)'
  <2>1. WriterOwns(u) /\ ReaderOwns(u) BY DEF TicketDiscipline
  <2>2. CASE u = t BY <1>3, <2>2 DEF WriterOwns, ReaderOwns
  <2>3. ASSUME u # t, Writing(u) \/ Reading(u) PROVE WriterOwns(u)' /\ ReaderOwns(u)'
    <3>1. Slot(pos[u]) # Slot(P) BY <1>3, <2>3, OwnersApart DEF P
    <3>2. seq'[Slot(pos[u])] = seq[Slot(pos[u])] BY <1>1, <1>7, <3>1
    <3> QED BY <1>2, <1>4, <2>1, <2>3, <3>2 DEF WriterOwns, ReaderOwns
  <2> QED BY <1>4, <2>2, <2>3 DEF WriterOwns, ReaderOwns
<1>10. TicketsDistinct'
  BY <1>2, <1>3, <1>4 DEF TicketDiscipline, TicketsDistinct
<1>11. ASSUME NEW p \in head .. tail - 1 PROVE Occupied(p)'
  <2>1. Occupied(p) /\ p \in Nat BY <1>1 DEF TicketDiscipline, SlotStates
  <2>2. CASE p = P BY <1>2, <1>5, <1>6, <2>2 DEF Occupied
  <2>3. CASE p # P
    <3>1. Slot(p) # Slot(P) BY <1>1, <1>5, <2>1, <2>3, SlotDistinct
    <3>2. seq'[Slot(p)] = seq[Slot(p)] BY <1>7, <2>1, <3>1
    <3>3. CASE seq[Slot(p)] = p + 1 /\ value[Slot(p)] = enq[p + 1]
      BY <1>2, <3>2, <3>3 DEF Occupied
    <3>4. ASSUME seq[Slot(p)] = p, NEW u \in Threads, Writing(u), pos[u] = p
          PROVE  Occupied(p)'
      <4>1. u # t BY <2>3, <3>4 DEF P
      <4>2. Writing(u)' /\ pos'[u] = p BY <1>2, <1>4, <3>4, <4>1
      <4> QED BY <3>2, <3>4, <4>2 DEF Occupied
    <3> QED BY <2>1, <3>3, <3>4 DEF Occupied
  <2> QED BY <2>2, <2>3
<1>12. ASSUME NEW p \in tail .. (head + Capacity) - 1 PROVE Vacant(p)'
  <2>1. Vacant(p) /\ p \in Nat BY <1>1 DEF TicketDiscipline, SlotStates
  <2>2. Slot(p) # Slot(P)
    <3>1. p # P /\ p < P + Capacity /\ P < p + Capacity BY <1>1, <1>5
    <3> QED BY <1>1, <2>1, <3>1, SlotDistinct
  <2>3. seq'[Slot(p)] = seq[Slot(p)] BY <1>7, <2>1, <2>2
  <2>4. CASE seq[Slot(p)] = p BY <2>3, <2>4 DEF Vacant
  <2>5. ASSUME seq[Slot(p)] = (p - Capacity) + 1,
               NEW u \in Threads, Reading(u), pos[u] = p - Capacity
        PROVE  Vacant(p)'
    <3>1. Reading(u)' /\ pos'[u] = p - Capacity BY <1>2, <1>3, <1>4, <2>5
    <3> QED BY <2>3, <2>5, <3>1 DEF Vacant
  <2> QED BY <2>1, <2>4, <2>5 DEF Vacant
<1>13. SlotStates' BY <1>2, <1>11, <1>12 DEF SlotStates
<1>14. ASSUME NEW u \in Threads PROVE CopyIsPast(u)'
  <2>1. CopyIsPast(u) /\ pos[u] \in Nat BY <1>1 DEF TicketDiscipline
  <2>2. CASE u = t BY <1>2, <2>2 DEF CopyIsPast, PushPC, PopPC
  <2>3. ASSUME u # t, pc[u] = "push_cas", pos[u] = tail
        PROVE  seq'[Slot(pos[u])] = pos[u]
    <3>1. seq[Slot(tail)] = tail BY <2>1, <2>3 DEF CopyIsPast
    <3>2. Slot(tail) # Slot(P) BY <1>1, <1>5, <3>1
    <3> QED BY <1>1, <1>7, <2>3, <3>1, <3>2
  <2>4. ASSUME u # t, pc[u] = "pop_cas", pos[u] = head
        PROVE  seq'[Slot(pos[u])] = pos[u] + 1
    <3>1. seq[Slot(head)] = head + 1 BY <2>1, <2>4 DEF CopyIsPast
    <3>2. P # head BY <1>1, <1>5, <3>1
    <3>3. Slot(head) # Slot(P) BY <1>1, <1>5, <3>2, SlotDistinct
    <3> QED BY <1>1, <1>7, <2>4, <3>1, <3>3
  <2> QED BY <1>2, <2>1, <2>2, <2>3, <2>4 DEF CopyIsPast
<1>15. DropIsExclusive'
  <2>1. DropIsExclusive BY DEF TicketDiscipline
  <2> QED BY <1>2, <2>1 DEF DropIsExclusive, PopPC
<1> QED BY <1>8, <1>9, <1>10, <1>13, <1>14, <1>15 DEF TicketDiscipline

\* Releasing hands the slot to the push ticket of the next lap.
LEMMA PopReleaseStep ==
  ASSUME TypeOK, TicketDiscipline, NEW t \in Threads, PopRelease(t)
  PROVE  TicketDiscipline'
<1> USE CapacityAssumption
<1> DEFINE P == pos[t]
<1>1. /\ tail \in Nat /\ head \in Nat /\ head <= tail /\ tail <= head + Capacity
      /\ pos \in [Threads -> Nat] /\ P \in Nat
      /\ Slot(P) \in Slots /\ seq \in [Slots -> Nat]
  BY SlotType DEF TypeOK, TicketDiscipline, Counters
<1>2. /\ UNCHANGED <<tail, head, value, pos, dropper, enq>>
      /\ pc[t] = "pop_release"
      /\ pc'[t] \in {"idle", "pop_reload"}
      /\ pc'[t] = IF dropper = t THEN "pop_reload" ELSE "idle"
      /\ \A u \in Threads : u # t => pc'[u] = pc[u] /\ data'[u] = data[u]
      /\ seq' = [seq EXCEPT ![Slot(P)] = P + Capacity]
  BY DEF PopRelease, Goto, TypeOK
<1>3. Reading(t) /\ ~Reading(t)' /\ ~Writing(t) /\ ~Writing(t)'
  BY <1>2 DEF Writing, Reading
<1>4. \A u \in Threads : u # t => /\ Writing(u)' <=> Writing(u)
                                  /\ Reading(u)' <=> Reading(u)
  BY <1>2 DEF Writing, Reading
<1>5. P < head /\ tail <= P + Capacity /\ seq[Slot(P)] = P + 1
  BY <1>3 DEF TicketDiscipline, ReaderOwns
<1>6. seq'[Slot(P)] = P + Capacity BY <1>1, <1>2
<1>7. ASSUME NEW p \in Nat, Slot(p) # Slot(P) PROVE seq'[Slot(p)] = seq[Slot(p)]
  BY <1>1, <1>2, <1>7, SlotType
<1> HIDE DEF P
<1>8. Counters' BY <1>2 DEF TicketDiscipline, Counters
<1>9. ASSUME NEW u \in Threads PROVE WriterOwns(u)' /\ ReaderOwns(u)'
  <2>1. WriterOwns(u) /\ ReaderOwns(u) BY DEF TicketDiscipline
  <2>2. CASE u = t BY <1>3, <2>2 DEF WriterOwns, ReaderOwns
  <2>3. ASSUME u # t, Writing(u) \/ Reading(u) PROVE WriterOwns(u)' /\ ReaderOwns(u)'
    <3>1. Slot(pos[u]) # Slot(P) BY <1>3, <2>3, OwnersApart DEF P
    <3>2. seq'[Slot(pos[u])] = seq[Slot(pos[u])] BY <1>1, <1>7, <3>1
    <3> QED BY <1>2, <1>4, <2>1, <2>3, <3>2 DEF WriterOwns, ReaderOwns
  <2> QED BY <1>4, <2>2, <2>3 DEF WriterOwns, ReaderOwns
<1>10. TicketsDistinct'
  BY <1>2, <1>3, <1>4 DEF TicketDiscipline, TicketsDistinct
<1>11. ASSUME NEW p \in head .. tail - 1 PROVE Occupied(p)'
  <2>1. Occupied(p) /\ p \in Nat BY <1>1 DEF TicketDiscipline, SlotStates
  <2>2. Slot(p) # Slot(P)
    <3>1. p # P /\ p < P + Capacity /\ P < p + Capacity BY <1>1, <1>5
    <3> QED BY <1>1, <2>1, <3>1, SlotDistinct
  <2>3. seq'[Slot(p)] = seq[Slot(p)] BY <1>7, <2>1, <2>2
  <2>4. CASE seq[Slot(p)] = p + 1 /\ value[Slot(p)] = enq[p + 1]
    BY <1>2, <2>3, <2>4 DEF Occupied
  <2>5. ASSUME seq[Slot(p)] = p, NEW u \in Threads, Writing(u), pos[u] = p
        PROVE  Occupied(p)'
    <3>1. Writing(u)' /\ pos'[u] = p BY <1>2, <1>3, <1>4, <2>5
    <3> QED BY <2>3, <2>5, <3>1 DEF Occupied
  <2> QED BY <2>1, <2>4, <2>5 DEF Occupied
<1>12. ASSUME NEW p \in tail .. (head + Capacity) - 1 PROVE Vacant(p)'
  <2>1. Vacant(p) /\ p \in Nat BY <1>1 DEF TicketDiscipline, SlotStates
  <2>2. Slot(P + Capacity) = Slot(P) /\ P + Capacity \in Nat BY <1>1, SlotShift
  <2>3. CASE p = P + Capacity BY <1>6, <2>2, <2>3 DEF Vacant
  <2>4. CASE p # P + Capacity
    <3>1. Slot(p) # Slot(P)
      <4>1. p < (P + Capacity) + Capacity /\ P + Capacity < p + Capacity
        BY <1>1, <1>5
      <4> QED BY <2>1, <2>2, <2>4, <4>1, SlotDistinct
    <3>2. seq'[Slot(p)] = seq[Slot(p)] BY <1>7, <2>1, <3>1
    <3>3. CASE seq[Slot(p)] = p BY <3>2, <3>3 DEF Vacant
    <3>4. ASSUME seq[Slot(p)] = (p - Capacity) + 1,
                 NEW u \in Threads, Reading(u), pos[u] = p - Capacity
          PROVE  Vacant(p)'
      <4>1. u # t BY <1>1, <2>1, <2>4, <3>4 DEF P
      <4>2. Reading(u)' /\ pos'[u] = p - Capacity BY <1>2, <1>4, <3>4, <4>1
      <4> QED BY <3>2, <3>4, <4>2 DEF Vacant
    <3> QED BY <2>1, <3>3, <3>4 DEF Vacant
  <2> QED BY <2>3, <2>4
<1>13. SlotStates' BY <1>2, <1>11, <1>12 DEF SlotStates
<1>14. ASSUME NEW u \in Threads PROVE CopyIsPast(u)'
  <2>1. CopyIsPast(u) /\ pos[u] \in Nat BY <1>1 DEF TicketDiscipline
  <2>2. CASE u = t BY <1>2, <2>2 DEF CopyIsPast, PushPC, PopPC
  <2>3. ASSUME u # t, pc[u] = "push_cas", pos[u] = tail
        PROVE  seq'[Slot(pos[u])] = pos[u]
    <3>1. seq[Slot(tail)] = tail BY <2>1, <2>3 DEF CopyIsPast
    <3>2. Slot(tail) # Slot(P)
      <4>1. CASE tail = P + 1 BY <1>1, <4>1, SlotDistinct
      <4>2. CASE tail # P + 1 BY <1>5, <3>1, <4>2
      <4> QED BY <4>1, <4>2
    <3> QED BY <1>1, <1>7, <2>3, <3>1, <3>2
  <2>4. ASSUME u # t, pc[u] = "pop_cas", pos[u] = head
        PROVE  seq'[Slot(pos[u])] = pos[u] + 1
    <3>1. seq[Slot(head)] = head + 1 BY <2>1, <2>4 DEF CopyIsPast
    <3>2. Slot(head) # Slot(P) BY <1>1, <1>5, <3>1
    <3> QED BY <1>1, <1>7, <2>4, <3>1, <3>2
  <2> QED BY <1>2, <2>1, <2>2, <2>3, <2>4 DEF CopyIsPast
<1>15. DropIsExclusive'
  <2>1. DropIsExclusive BY DEF TicketDiscipline
  <2> QED BY <1>2, <2>1 DEF DropIsExclusive, PopPC
<1> QED BY <1>8, <1>9, <1>10, <1>13, <1>14, <1>15 DEF TicketDiscipline

\* Every step of push, pop and Drop keeps the ticket discipline.
LEMMA NextDiscipline ==
  ASSUME TypeOK, TicketDiscipline, [Next]_vars
  PROVE  TicketDiscipline'
<1>1. CASE UNCHANGED vars
  <2> USE <1>1 DEF vars
  <2>1. Counters' BY DEF TicketDiscipline, Counters
  <2>2. \A u \in Threads : WriterOwns(u)' /\ ReaderOwns(u)' /\ CopyIsPast(u)'
    BY DEF TicketDiscipline, WriterOwns, ReaderOwns, CopyIsPast, Writing, Reading
  <2>3. TicketsDistinct'
    BY DEF TicketDiscipline, TicketsDistinct, Writing, Reading
  <2>4. SlotStates'
    BY DEF TicketDiscipline, SlotStates, Occupied, Vacant, Writing, Reading
  <2>5. DropIsExclusive' BY DEF TicketDiscipline, DropIsExclusive
  <2> QED BY <2>1, <2>2, <2>3, <2>4, <2>5 DEF TicketDiscipline
<1>2. ASSUME NEW t \in Threads, Call(t) PROVE TicketDiscipline'
  BY <1>2, LocalActions
<1>3. ASSUME NEW t \in Threads, PushStep(t) PROVE TicketDiscipline'
  <2>1. CASE PushCasOk(t) BY <2>1, PushCasOkStep
  <2>2. CASE PushWrite(t) BY <2>2, PushWriteStep
  <2>3. CASE PushPublish(t) BY <2>3, PushPublishStep
  <2>4. CASE PushReload(t) \/ PushLoadSeq(t) \/ PushFull(t) \/ PushCasFail(t)
    BY <2>4, LocalActions
  <2> QED BY <1>3, <2>1, <2>2, <2>3, <2>4 DEF PushStep
<1>4. ASSUME NEW t \in Threads, PopStep(t) PROVE TicketDiscipline'
  <2>1. CASE PopCasOk(t) BY <2>1, PopCasOkStep
  <2>2. CASE PopRead(t) BY <2>2, PopReadStep
  <2>3. CASE PopRelease(t) BY <2>3, PopReleaseStep
  <2>4. CASE PopReload(t) \/ PopLoadSeq(t) \/ PopEmpty(t) \/ PopCasFail(t)
    BY <2>4, LocalActions
  <2> QED BY <1>4, <2>1, <2>2, <2>3, <2>4 DEF PopStep
<1> QED BY <1>1, <1>2, <1>3, <1>4 DEF Next

-----------------------------------------------------------------------------
(* Theorems *)

\* The ticket discipline holds in every state of push, pop and Drop, for every
\* number of threads and every capacity new() accepts.
THEOREM Discipline == Spec => [](TypeOK /\ TicketDiscipline)
<1>1. Init => TypeOK /\ TicketDiscipline
  BY InitType, InitDiscipline
<1>2. TypeOK /\ TicketDiscipline /\ [Next]_vars => (TypeOK /\ TicketDiscipline)'
  BY NextType, NextDiscipline
<1> QED BY <1>1, <1>2, PTL DEF Spec

\* Every variable keeps its type; in particular no slot index is out of range.
THEOREM TypeCorrect == Spec => []TypeOK
  BY Discipline, PTL

\* No two threads access the cell of a slot at the same time: the
\* `unsafe impl Sync' of queue.rs is sound.
THEOREM DataRaceFreedom == Spec => []NoDataRace
<1>1. TypeOK /\ TicketDiscipline => NoDataRace
  BY OwnersApart DEF NoDataRace
<1> QED BY <1>1, Discipline, PTL

\* A successful pop returns the element pushed under its ticket.
THEOREM FifoOrder == Spec => []PopsInOrder
<1>1. TypeOK /\ TicketDiscipline => PopsInOrder
  BY DEF TypeOK, TicketDiscipline, Counters, ReaderOwns, Reading, PopsInOrder
<1> QED BY <1>1, Discipline, PTL

\* Drop leaves no element behind.
THEOREM NoLeak == Spec => []DropDrains
<1>1. TicketDiscipline => DropDrains
  BY DEF TicketDiscipline, DropIsExclusive, DropDrains
<1> QED BY <1>1, Discipline, PTL

-----------------------------------------------------------------------------
(* The answers Full and Empty *)

\* A number written as laps and a slot has that slot.
LEMMA SlotOfLap ==
  ASSUME NEW c \in Int, NEW s \in Slots, Capacity * c + s \in Nat
  PROVE  Slot(Capacity * c + s) = s
<1> DEFINE q == Capacity * c + s
<1>1. q \in Nat /\ q = Capacity * c + s OBVIOUS
<1> HIDE DEF q
<1>2. PICK d \in Int : q = Capacity * d + Slot(q) BY <1>1, Laps
<1>3. Slot(q) \in 0 .. Capacity - 1 /\ s \in 0 .. Capacity - 1
  BY <1>1, SlotType DEF Slots
<1>4. Capacity * c \in Int /\ Capacity * d \in Int BY LapLength
<1>5. Capacity * (d - c) = Capacity * d - Capacity * c BY LapDifference
<1>6. Capacity * (d - c) = s - Slot(q)
  BY <1>1, <1>2, <1>3, <1>4, <1>5, CapacityAssumption
<1>7. d - c \in Int OBVIOUS
<1>8. CASE d - c >= 1
  <2>1. Capacity * (d - c) >= Capacity BY <1>7, <1>8, LapLength
  <2> QED BY <2>1, <1>6, <1>3, CapacityAssumption
<1>9. CASE d - c <= -1
  <2>1. Capacity * (d - c) <= -Capacity BY <1>7, <1>9, LapLength
  <2> QED BY <2>1, <1>6, <1>3, CapacityAssumption
<1>10. CASE d - c = 0
  <2>1. Capacity * (d - c) = 0 BY <1>10, CapacityAssumption
  <2>2. Slot(q) = s BY <2>1, <1>6, <1>3, CapacityAssumption
  <2> QED BY <2>2 DEF q
<1> QED BY <1>7, <1>8, <1>9, <1>10

\* Every window of Capacity tickets has a ticket for each slot; for a slot
\* whose ticket p lies before the window it is at least a lap later.
LEMMA TicketInWindow ==
  ASSUME NEW h \in Nat, NEW p \in Nat, p < h
  PROVE  \E q \in Nat : /\ Slot(q) = Slot(p)
                        /\ h <= q /\ q < h + Capacity
                        /\ p + Capacity <= q
<1> USE CapacityAssumption
<1>1. PICK a \in Int : p = Capacity * a + Slot(p) BY Laps
<1>2. PICK b \in Int : h = Capacity * b + Slot(h) BY Laps
<1>3. Slot(p) \in 0 .. Capacity - 1 /\ Slot(h) \in 0 .. Capacity - 1
  BY SlotType DEF Slots
<1>4. /\ Capacity * a \in Int /\ Capacity * b \in Int
      /\ Capacity * (b + 1) \in Int
  BY LapLength
<1>5. Capacity * (b + 1) = Capacity * b + Capacity OBVIOUS
<1>6. ASSUME NEW c \in Int, Capacity * c \in Int,
             h <= Capacity * c + Slot(p), Capacity * c + Slot(p) < h + Capacity
      PROVE  \E q \in Nat : /\ Slot(q) = Slot(p)
                            /\ h <= q /\ q < h + Capacity
                            /\ p + Capacity <= q
  <2> DEFINE q == Capacity * c + Slot(p)
  <2>1. q \in Nat BY <1>3, <1>6
  <2>2. Slot(q) = Slot(p) BY <2>1, <1>3, SlotOfLap DEF Slots
  <2>3. Capacity * (c - a) = Capacity * c - Capacity * a BY LapDifference
  <2>4. Capacity * (c - a) = q - p
    BY <1>1, <1>3, <1>4, <1>6, <2>3
  <2>5. c - a >= 1
    <3>1. SUFFICES ASSUME c - a <= 0 PROVE FALSE OBVIOUS
    <3>2. Capacity * (c - a) <= 0 BY <3>1, LapLength
    <3> QED BY <3>2, <2>1, <2>4, <1>6
  <2>6. Capacity * (c - a) >= Capacity BY <2>5, LapLength
  <2>7. p + Capacity <= q BY <2>1, <2>4, <2>6
  <2> QED BY <1>6, <2>1, <2>2, <2>7
<1>7. CASE Slot(p) >= Slot(h)
  <2>1. h <= Capacity * b + Slot(p) /\ Capacity * b + Slot(p) < h + Capacity
    BY <1>2, <1>3, <1>4, <1>7
  <2> QED BY <1>4, <1>6, <2>1
<1>8. CASE Slot(p) < Slot(h)
  <2>1. /\ h <= Capacity * (b + 1) + Slot(p)
        /\ Capacity * (b + 1) + Slot(p) < h + Capacity
    BY <1>2, <1>3, <1>4, <1>5, <1>8
  <2>2. b + 1 \in Int OBVIOUS
  <2> QED BY <1>4, <1>6, <2>1, <2>2
<1> QED BY <1>3, <1>7, <1>8

\* The sequence word of a slot never falls behind a ticket that was taken:
\* the branch on diff cannot mistake a stale copy of tail for a full queue,
\* nor a stale copy of head for an empty one.
LEMMA WordsNotBehind ==
  ASSUME TypeOK, TicketDiscipline, NEW p \in Nat
  PROVE  /\ p < tail => seq[Slot(p)] >= p
         /\ p < head => seq[Slot(p)] >= p + 1
<1> USE CapacityAssumption
<1>1. /\ head \in Nat /\ tail \in Nat /\ head <= tail /\ tail <= head + Capacity
      /\ \A q \in Nat : seq[Slot(q)] \in Nat
  BY SlotType DEF TypeOK, TicketDiscipline, Counters
<1>2. ASSUME head <= p, p < tail PROVE seq[Slot(p)] >= p
  <2>1. Occupied(p) BY <1>1, <1>2 DEF TicketDiscipline, SlotStates
  <2> QED BY <1>1, <2>1 DEF Occupied
<1>3. ASSUME p < head PROVE seq[Slot(p)] >= p + 1
  <2>1. PICK q \in Nat : /\ Slot(q) = Slot(p)
                         /\ head <= q /\ q < head + Capacity
                         /\ p + Capacity <= q
    BY <1>1, <1>3, TicketInWindow
  <2>2. CASE q < tail
    <3>1. Occupied(q) BY <1>1, <2>1, <2>2 DEF TicketDiscipline, SlotStates
    <3> QED BY <1>1, <2>1, <3>1 DEF Occupied
  <2>3. CASE q >= tail
    <3>1. Vacant(q) BY <1>1, <2>1, <2>3 DEF TicketDiscipline, SlotStates
    <3> QED BY <1>1, <2>1, <3>1 DEF Vacant
  <2> QED BY <1>1, <2>1, <2>2, <2>3
<1> QED BY <1>1, <1>2, <1>3

\* A push that answers Full compared the word of the current tail, and that
\* slot is occupied or still being read.
THEOREM FullAnswers == Spec => FullIsJustified
<1> USE CapacityAssumption
<1>1. ASSUME TypeOK, TicketDiscipline, NEW t \in Threads, PushFull(t)
      PROVE  \/ tail - head >= Capacity
             \/ \E u \in Threads : Reading(u) /\ pos[u] = tail - Capacity
  <2>1. /\ head \in Nat /\ tail \in Nat /\ head <= tail
        /\ pos[t] \in Nat /\ seq[Slot(pos[t])] \in Nat
    BY <1>1, SlotType DEF TypeOK, TicketDiscipline, Counters
  <2>2. pos[t] <= tail /\ seq[Slot(pos[t])] < pos[t]
    BY <1>1, <2>1 DEF PushFull, TicketDiscipline, CopyIsPast, PushPC
  <2>3. pos[t] = tail BY <1>1, <2>1, <2>2, WordsNotBehind
  <2>4. SUFFICES ASSUME tail < head + Capacity
                 PROVE  \E u \in Threads : Reading(u) /\ pos[u] = tail - Capacity
    BY <2>1
  <2>5. Vacant(tail) BY <1>1, <2>1, <2>4 DEF TicketDiscipline, SlotStates
  <2> QED BY <2>1, <2>2, <2>3, <2>5 DEF Vacant
<1>2. TypeOK /\ TicketDiscipline =>
        [\A t \in Threads : PushFull(t) =>
           \/ tail - head >= Capacity
           \/ \E u \in Threads : Reading(u) /\ pos[u] = tail - Capacity]_vars
  BY <1>1
<1> QED BY <1>2, Discipline, PTL DEF FullIsJustified

\* A pop that answers Empty compared the word of the current head, and that
\* ticket was not taken or its element is still being written.
THEOREM EmptyAnswers == Spec => EmptyIsJustified
<1>1. ASSUME TypeOK, TicketDiscipline, NEW t \in Threads, PopEmpty(t)
      PROVE  \/ head = tail
             \/ \E u \in Threads : Writing(u) /\ pos[u] = head
  <2>1. /\ head \in Nat /\ tail \in Nat /\ head <= tail
        /\ pos[t] \in Nat /\ seq[Slot(pos[t])] \in Nat
    BY <1>1, SlotType DEF TypeOK, TicketDiscipline, Counters
  <2>2. pos[t] <= head /\ seq[Slot(pos[t])] < pos[t] + 1
    BY <1>1, <2>1 DEF PopEmpty, TicketDiscipline, CopyIsPast, PopPC
  <2>3. pos[t] = head BY <1>1, <2>1, <2>2, WordsNotBehind
  <2>4. SUFFICES ASSUME head < tail
                 PROVE  \E u \in Threads : Writing(u) /\ pos[u] = head
    BY <2>1
  <2>5. Occupied(head) BY <1>1, <2>1, <2>4 DEF TicketDiscipline, SlotStates
  <2> QED BY <2>1, <2>2, <2>3, <2>5 DEF Occupied
<1>2. TypeOK /\ TicketDiscipline =>
        [\A t \in Threads : PopEmpty(t) =>
           \/ head = tail
           \/ \E u \in Threads : Writing(u) /\ pos[u] = head]_vars
  BY <1>1
<1> QED BY <1>2, Discipline, PTL DEF EmptyIsJustified

-----------------------------------------------------------------------------
(* Refinement *)

\* The abstract queue after a push: its element is the last one.
LEMMA QueueAppend ==
  ASSUME NEW s \in Seq(Data), NEW d \in Data, NEW h \in Nat, h <= Len(s)
  PROVE  SubSeq(Append(s, d), h + 1, Len(s) + 1) = Append(SubSeq(s, h + 1, Len(s)), d)
<1> DEFINE r == Append(s, d)
           q == SubSeq(s, h + 1, Len(s))
           n == Len(s)
<1>1. /\ r \in Seq(Data) /\ Len(r) = n + 1 /\ r[n + 1] = d
      /\ n \in Nat /\ h <= n
      /\ \A i \in 1 .. n : r[i] = s[i] /\ s[i] \in Data /\ r[i] \in Data
  BY AppendProperties, LenProperties, ElementOfSeq
<1>2. /\ q \in Seq(Data) /\ Len(q) = n - h
      /\ \A i \in 1 .. n - h : q[i] = s[h + i]
  <2>1. \A i \in h + 1 .. n : s[i] \in Data BY <1>1
  <2> QED BY <1>1, <2>1, SubSeqProperties
<1>3. /\ SubSeq(r, h + 1, n + 1) \in Seq(Data)
      /\ Len(SubSeq(r, h + 1, n + 1)) = n + 1 - h
      /\ \A i \in 1 .. n + 1 - h : SubSeq(r, h + 1, n + 1)[i] = r[h + i]
  <2>1. \A i \in h + 1 .. n + 1 : r[i] \in Data BY <1>1
  <2> HIDE DEF r, n
  <2> QED BY <1>1, <2>1, SubSeqProperties
<1>4. /\ Append(q, d) \in Seq(Data) /\ Len(Append(q, d)) = n - h + 1
      /\ \A i \in 1 .. n - h : Append(q, d)[i] = q[i]
      /\ Append(q, d)[n - h + 1] = d
  <2> HIDE DEF q
  <2> QED BY <1>1, <1>2, AppendProperties
<1> HIDE DEF r, q, n
<1>5. \A i \in 1 .. n + 1 - h : SubSeq(r, h + 1, n + 1)[i] = Append(q, d)[i]
  <2> SUFFICES ASSUME NEW i \in 1 .. n + 1 - h
               PROVE  SubSeq(r, h + 1, n + 1)[i] = Append(q, d)[i]
    OBVIOUS
  <2>1. CASE i = n + 1 - h
    <3>1. h + i = n + 1 /\ i = n - h + 1 BY <1>1, <2>1
    <3> QED BY <1>1, <1>3, <1>4, <3>1
  <2>2. CASE i \in 1 .. n - h
    <3>1. h + i \in 1 .. n BY <1>1, <2>2
    <3> QED BY <1>1, <1>2, <1>3, <1>4, <2>2, <3>1
  <2>3. n \in Int /\ h \in Int /\ i \in Int /\ 1 <= i /\ i <= n + 1 - h
    BY <1>1
  <2>4. i = n + 1 - h \/ i \in 1 .. n - h BY <2>3
  <2> QED BY <2>1, <2>2, <2>4
<1>6. SubSeq(r, h + 1, n + 1) = Append(q, d)
  <2>1. n + 1 - h = n - h + 1 BY <1>1
  <2>2. Len(SubSeq(r, h + 1, n + 1)) = Len(Append(q, d))
    BY <1>3, <1>4, <2>1
  <2> QED BY <1>3, <1>4, <1>5, <2>2, SeqEqual
<1> QED BY <1>6 DEF r, q, n

\* The abstract queue before and after a pop: its first element is taken.
LEMMA QueueTail ==
  ASSUME NEW s \in Seq(Data), NEW h \in Nat, h < Len(s)
  PROVE  /\ SubSeq(s, h + 1, Len(s)) # << >>
         /\ Head(SubSeq(s, h + 1, Len(s))) = s[h + 1]
         /\ Tail(SubSeq(s, h + 1, Len(s))) = SubSeq(s, (h + 1) + 1, Len(s))
<1>1. h + 1 \in 1 .. Len(s) /\ Len(s) \in h + 1 .. Len(s) OBVIOUS
<1>2. Len(SubSeq(s, h + 1, Len(s))) # 0
  <2>1. \A i \in h + 1 .. Len(s) : s[i] \in Data BY ElementOfSeq
  <2> QED BY <1>1, <2>1, SubSeqProperties
<1>3. SubSeq(s, h + 1, Len(s)) # << >>
  <2>1. Len(<< >>) = 0 BY EmptySeq
  <2> QED BY <1>2, <2>1
<1> QED BY <1>1, <1>3, HeadTailOfSubSeq

\* A step that takes no ticket and finishes no pop leaves the abstract queue
\* and the elements in hand as they are.
LEMMA AbstractStutter ==
  ASSUME UNCHANGED <<tail, head, enq>>,
         \A u \in Threads :
           /\ pc'[u] = "pop_read" <=> pc[u] = "pop_read"
           /\ pc'[u] = "pop_release" <=> pc[u] = "pop_release"
           /\ pc[u] = "pop_read" => pos'[u] = pos[u]
           /\ pc[u] = "pop_release" => data'[u] = data[u]
  PROVE  UNCHANGED Abstract!vars
<1> DEFINE O(u) == CASE pc[u] = "pop_read"    -> enq[pos[u] + 1]
                     [] pc[u] = "pop_release" -> data[u]
                     [] OTHER                 -> NoData
<1>1. ASSUME NEW u \in Threads PROVE O(u)' = O(u)
  <2>1. CASE pc[u] = "pop_read" BY <2>1
  <2>2. CASE pc[u] = "pop_release" BY <2>2
  <2>3. CASE pc[u] # "pop_read" /\ pc[u] # "pop_release" BY <2>3
  <2> QED BY <2>1, <2>2, <2>3
<1>2. [u \in Threads |-> O(u)]' = [u \in Threads |-> O(u)]
  <2> HIDE DEF O
  <2> QED BY <1>1
<1> QED BY <1>2 DEF Abstract!vars

\* The compare-exchange on tail appends the element to the abstract queue,
\* which has room for it.
LEMMA PushCasOkEnqueues ==
  ASSUME TypeOK, TicketDiscipline, NEW t \in Threads, PushCasOk(t)
  PROVE  Abstract!Next
<1> USE CapacityAssumption
<1>1. /\ tail \in Nat /\ head \in Nat /\ head <= tail /\ tail <= head + Capacity
      /\ Len(enq) = tail /\ enq \in Seq(Data) /\ data[t] \in Data
  BY DEF TypeOK, TicketDiscipline, Counters, PushCasOk, CopyIsPast, PushPC
<1>2. tail < head + Capacity
  <2> SUFFICES ASSUME tail = head + Capacity PROVE FALSE
    BY <1>1
  <2>1. seq[Slot(tail)] = tail
    BY DEF PushCasOk, TicketDiscipline, CopyIsPast
  <2>2. Slot(tail) = Slot(head) BY <1>1, SlotShift
  <2>3. Occupied(head) BY <1>1 DEF TicketDiscipline, SlotStates
  <2> QED BY <1>1, <2>1, <2>2, <2>3 DEF Occupied
<1>3. Len(SubSeq(enq, head + 1, tail)) < Capacity
  BY <1>1, <1>2
<1>4. SubSeq(enq, head + 1, tail)' = Append(SubSeq(enq, head + 1, tail), data[t])
  BY <1>1, QueueAppend DEF PushCasOk
<1> DEFINE O(u) == CASE pc[u] = "pop_read"    -> enq[pos[u] + 1]
                     [] pc[u] = "pop_release" -> data[u]
                     [] OTHER                 -> NoData
<1>5. ASSUME NEW u \in Threads PROVE O(u)' = O(u)
  <2>1. /\ pc'[u] = "pop_read" <=> pc[u] = "pop_read"
        /\ pc'[u] = "pop_release" <=> pc[u] = "pop_release"
        /\ pos'[u] = pos[u] /\ data'[u] = data[u]
    BY DEF PushCasOk, Goto, TypeOK
  <2>2. CASE pc[u] = "pop_read"
    <3>1. pos[u] \in Nat /\ pos[u] + 1 <= Len(enq)
      BY <1>1, <2>2 DEF TypeOK, TicketDiscipline, ReaderOwns, Reading
    <3>2. enq'[pos[u] + 1] = enq[pos[u] + 1]
      BY <1>1, <3>1 DEF PushCasOk
    <3> QED BY <2>1, <2>2, <3>2
  <2>3. CASE pc[u] = "pop_release" BY <2>1, <2>3
  <2>4. CASE pc[u] # "pop_read" /\ pc[u] # "pop_release" BY <2>1, <2>4
  <2> QED BY <2>2, <2>3, <2>4
<1>6. [u \in Threads |-> O(u)]' = [u \in Threads |-> O(u)]
  <2> HIDE DEF O
  <2> QED BY <1>5
<1>7. Abstract!Enqueue(data[t])
  BY <1>3, <1>4, <1>6 DEF Abstract!Enqueue
<1> QED BY <1>1, <1>7 DEF Abstract!Next

\* The compare-exchange on head takes the oldest element of the abstract queue.
LEMMA PopCasOkDequeues ==
  ASSUME TypeOK, TicketDiscipline, NEW t \in Threads, PopCasOk(t)
  PROVE  Abstract!Next
<1> USE CapacityAssumption
<1>1. /\ tail \in Nat /\ head \in Nat /\ head <= tail /\ tail <= head + Capacity
      /\ Len(enq) = tail /\ enq \in Seq(Data)
      /\ pos[t] = head /\ seq[Slot(head)] = head + 1
  BY DEF TypeOK, TicketDiscipline, Counters, PopCasOk, CopyIsPast, PopPC
<1>2. head < tail
  <2> SUFFICES ASSUME head = tail PROVE FALSE
    BY <1>1
  <2>1. Vacant(head) BY <1>1 DEF TicketDiscipline, SlotStates
  <2> QED BY <1>1, <2>1 DEF Vacant
<1>3. /\ SubSeq(enq, head + 1, tail) # << >>
      /\ Head(SubSeq(enq, head + 1, tail)) = enq[head + 1]
      /\ Tail(SubSeq(enq, head + 1, tail)) = SubSeq(enq, (head + 1) + 1, tail)
  BY <1>1, <1>2, QueueTail
<1>4. SubSeq(enq, head + 1, tail)' = Tail(SubSeq(enq, head + 1, tail))
  BY <1>1, <1>3 DEF PopCasOk
<1> DEFINE O(u) == CASE pc[u] = "pop_read"    -> enq[pos[u] + 1]
                     [] pc[u] = "pop_release" -> data[u]
                     [] OTHER                 -> NoData
<1>5. O(t) = NoData /\ O(t)' = enq[head + 1]
  BY <1>1 DEF PopCasOk, Goto, TypeOK
<1>6. ASSUME NEW u \in Threads, u # t PROVE O(u)' = O(u)
  <2>1. pc'[u] = pc[u] /\ pos'[u] = pos[u] /\ data'[u] = data[u] /\ enq' = enq
    BY <1>6 DEF PopCasOk, Goto, TypeOK
  <2> QED BY <2>1
<1>7. [u \in Threads |-> O(u)]' =
        [[u \in Threads |-> O(u)] EXCEPT ![t] = Head(SubSeq(enq, head + 1, tail))]
  <2> HIDE DEF O
  <2> QED BY <1>3, <1>5, <1>6
<1>8. [u \in Threads |-> O(u)][t] = NoData
  BY <1>5
<1>9. Abstract!Dequeue(t)
  BY <1>3, <1>4, <1>7, <1>8 DEF Abstract!Dequeue
<1> QED BY <1>9 DEF Abstract!Next

\* The release of the slot is the moment pop returns its element.
LEMMA PopReleaseDelivers ==
  ASSUME TypeOK, TicketDiscipline, NEW t \in Threads, PopRelease(t)
  PROVE  Abstract!Next
<1> DEFINE O(u) == CASE pc[u] = "pop_read"    -> enq[pos[u] + 1]
                     [] pc[u] = "pop_release" -> data[u]
                     [] OTHER                 -> NoData
<1>1. data[t] # NoData
  <2>1. /\ pos[t] \in Nat /\ pos[t] + 1 <= Len(enq) /\ data[t] = enq[pos[t] + 1]
    BY CapacityAssumption
       DEF TypeOK, TicketDiscipline, Counters, ReaderOwns, Reading, PopRelease
  <2>2. enq[pos[t] + 1] \in Data BY <2>1 DEF TypeOK
  <2> QED BY <2>1, <2>2, NoDataAssumption
<1>2. O(t) = data[t] /\ O(t)' = NoData
  BY DEF PopRelease, Goto, TypeOK
<1>3. ASSUME NEW u \in Threads, u # t PROVE O(u)' = O(u)
  <2>1. pc'[u] = pc[u] /\ pos'[u] = pos[u] /\ data'[u] = data[u] /\ enq' = enq
    BY <1>3 DEF PopRelease, Goto, TypeOK
  <2> QED BY <2>1
<1>4. [u \in Threads |-> O(u)]' = [[u \in Threads |-> O(u)] EXCEPT ![t] = NoData]
  <2> HIDE DEF O
  <2> QED BY <1>2, <1>3
<1>5. [u \in Threads |-> O(u)][t] # NoData
  BY <1>1, <1>2
<1>6. SubSeq(enq, head + 1, tail)' = SubSeq(enq, head + 1, tail)
  BY DEF PopRelease
<1>7. Abstract!Deliver(t)
  BY <1>4, <1>5, <1>6 DEF Abstract!Deliver
<1> QED BY <1>7 DEF Abstract!Next

\* Reading the cell moves the element in hand from the slot to the reader.
LEMMA PopReadStutters ==
  ASSUME TypeOK, TicketDiscipline, NEW t \in Threads, PopRead(t)
  PROVE  UNCHANGED Abstract!vars
<1> DEFINE O(u) == CASE pc[u] = "pop_read"    -> enq[pos[u] + 1]
                     [] pc[u] = "pop_release" -> data[u]
                     [] OTHER                 -> NoData
<1>1. value[Slot(pos[t])] = enq[pos[t] + 1]
  BY DEF TicketDiscipline, ReaderOwns, Reading, PopRead
<1>2. O(t)' = O(t)
  BY <1>1 DEF PopRead, Goto, TypeOK
<1>3. ASSUME NEW u \in Threads, u # t PROVE O(u)' = O(u)
  <2>1. pc'[u] = pc[u] /\ pos'[u] = pos[u] /\ data'[u] = data[u] /\ enq' = enq
    BY <1>3 DEF PopRead, Goto, TypeOK
  <2> QED BY <2>1
<1>4. [u \in Threads |-> O(u)]' = [u \in Threads |-> O(u)]
  <2> HIDE DEF O
  <2> QED BY <1>2, <1>3
<1> QED BY <1>4 DEF Abstract!vars, PopRead

\* A new queue is empty and nobody has an element in hand.
LEMMA AbstractInit == Init => Abstract!Init
<1> SUFFICES ASSUME Init PROVE Abstract!Init
  OBVIOUS
<1>1. SubSeq(enq, head + 1, tail) = << >> BY DEF Init
<1>2. \A u \in Threads : pc[u] = "idle" BY DEF Init
<1> QED BY <1>1, <1>2 DEF Abstract!Init

\* MPMCQueue<T> is a FIFO queue of at most Capacity elements: push takes
\* effect at its compare-exchange on tail and pop at its compare-exchange on
\* head, whatever the other threads do in between.
THEOREM Refinement == Spec => ImplementsBoundedQueue
<1>1. Init => Abstract!Init
  BY AbstractInit
<1>2. TypeOK /\ TicketDiscipline /\ [Next]_vars => [Abstract!Next]_(Abstract!vars)
  <2> SUFFICES ASSUME TypeOK, TicketDiscipline, [Next]_vars
               PROVE  [Abstract!Next]_(Abstract!vars)
    OBVIOUS
  <2>1. CASE UNCHANGED vars
    <3>1. UNCHANGED Abstract!vars BY <2>1, AbstractStutter DEF vars
    <3> QED BY <3>1
  <2>2. ASSUME NEW t \in Threads, Call(t) PROVE [Abstract!Next]_(Abstract!vars)
    <3>1. UNCHANGED Abstract!vars
      BY <2>2, AbstractStutter DEF Call, Push, Pop, Drop, Goto, TypeOK
    <3> QED BY <3>1
  <2>3. ASSUME NEW t \in Threads, PushStep(t) PROVE [Abstract!Next]_(Abstract!vars)
    <3>1. CASE PushCasOk(t) BY <3>1, PushCasOkEnqueues
    <3>2. CASE ~PushCasOk(t)
      <4>1. UNCHANGED Abstract!vars
        BY <2>3, <3>2, AbstractStutter
           DEF PushStep, PushReload, PushLoadSeq, PushFull, PushCasFail,
               PushWrite, PushPublish, Goto, TypeOK
      <4> QED BY <4>1
    <3> QED BY <3>1, <3>2
  <2>4. ASSUME NEW t \in Threads, PopStep(t) PROVE [Abstract!Next]_(Abstract!vars)
    <3>1. CASE PopCasOk(t) BY <3>1, PopCasOkDequeues
    <3>2. CASE PopRelease(t) BY <3>2, PopReleaseDelivers
    <3>3. CASE PopRead(t) BY <3>3, PopReadStutters
    <3>4. CASE PopReload(t) \/ PopLoadSeq(t) \/ PopEmpty(t) \/ PopCasFail(t)
      <4>1. UNCHANGED Abstract!vars
        BY <3>4, AbstractStutter
           DEF PopReload, PopLoadSeq, PopEmpty, PopCasFail, Goto, TypeOK
      <4> QED BY <4>1
    <3> QED BY <2>4, <3>1, <3>2, <3>3, <3>4 DEF PopStep
  <2> QED BY <2>1, <2>2, <2>3, <2>4 DEF Next
<1> QED BY <1>1, <1>2, Discipline, PTL DEF Spec, ImplementsBoundedQueue, Abstract!Spec
=============================================================================
