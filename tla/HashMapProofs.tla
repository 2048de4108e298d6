--------------------------- MODULE HashMapProofs ----------------------------
(***************************************************************************)
(* Proofs about HashMap for any threads, keys, hash function, capacity and *)
(* number of inserts.                                                      *)
(***************************************************************************)
EXTENDS HashMap, TLAPS

-----------------------------------------------------------------------------
(* The inductive invariant *)

\* The thread is between taking and dropping its guard.
Active(t) == pc[t] \notin {"idle", "gone", "undefined"}

\* The thread owns an entry that is not in the table yet, or never will be.
InFlight(t) == op[t] = "insert" /\ pc[t] \in {"load", "look", "cas", "miss"}

InTable(e) == \E i \in Slots : table[i] = e

AllGone == \A t \in Threads : pc[t] = "gone"

\* Some thread has gone on with an entry freed under it.
Undefined == \E t \in Threads : pc[t] = "undefined"

HistoryTypes ==
  /\ steady \in [Threads -> SUBSET Slots]
  /\ tombed \subseteq Slots
  /\ beaten \in [Threads -> BOOLEAN]

\* What a thread's program counter says about its other variables.
ThreadState(t) ==
  /\ Active(t) => t \in guards /\ target[t] \in Keys
  /\ pc[t] = "gone" => AllGone
  /\ pc[t] \in {"look", "cas"} => turns[t] > 0
  /\ pc[t] = "cas" => op[t] # "get"
  /\ pc[t] = "look" => curr[t] \in Entries
  /\ pc[t] = "cas" /\ op[t] = "remove" => curr[t] \in Entries
  /\ InFlight(t) => new[t] \in Entries /\ key[new[t]] = target[t]

\* Where an entry is decides how often its value has left the map.
NotAllocated(e) ==
  e > made => /\ e \notin retired \cup freed \cup shell
              /\ left_map[e] = 0 /\ ~InTable(e)

HeldByTable(e) ==
  InTable(e) => /\ e \notin retired \cup shell
                /\ e \in freed => AllGone
                /\ e \notin freed => left_map[e] = 0

HeldByCollector(e) ==
  e \in retired => e \notin freed /\ left_map[e] = IF e \in shell THEN 1 ELSE 0

HeldByInsert(t) ==
  InFlight(t) => /\ new[t] <= made /\ ~InTable(new[t])
                 /\ new[t] \notin retired \cup freed \cup shell
                 /\ left_map[new[t]] = 0

\* Every entry has one owner: a slot, an insert, the collector, or nobody any
\* more.
Ownership ==
  /\ made > 0 => Threads # {}
  /\ shell \subseteq retired \cup freed
  /\ \A e \in Entries :
       /\ NotAllocated(e) /\ HeldByTable(e) /\ HeldByCollector(e)
       /\ left_map[e] \in {0, 1}
       /\ e \in freed => left_map[e] = 1
       /\ e <= made => \/ InTable(e) \/ e \in retired \/ e \in freed \/ Undefined
                       \/ \E t \in Threads : InFlight(t) /\ new[t] = e
       /\ AllGone /\ InTable(e) => e \in freed
  /\ \A t \in Threads : HeldByInsert(t)
  /\ \A t, u \in Threads : InFlight(t) /\ InFlight(u) /\ t # u => new[t] # new[u]
  /\ \A i, j \in Slots : table[i] \in Entries /\ table[i] = table[j] => i = j

\* An entry a thread looks at is in the table, waits for that thread, or was
\* freed too early.
Protected(t) ==
  Looking(t) => /\ pc[t] # "look" => key[curr[t]] = target[t]
                /\ \/ InTable(curr[t])
                   \/ curr[t] \in retired /\ t \in waits[curr[t]]
                   \/ curr[t] \in freed /\ curr[t] \in early

\* A search for k may go past slot i.
Passable(i, k) ==
  /\ table[i] # Null
  /\ i \in tombed \/ (table[i] \in Entries /\ key[table[i]] # k)

\* From the hash of a key to an entry with that key there is no empty slot,
\* and a second entry with the key only where a tombstone was.
ProbePaths ==
  /\ \A i \in Slots : table[i] = Tombstone => i \in tombed
  /\ \A k \in Keys : \A i \in Slots, j \in Holding(k) :
       Earlier(i, j, k) => Passable(i, k)

\* The entry t is about to look into has another key, so t will move on.
Mismatch(t) == pc[t] = "look" /\ key[curr[t]] # target[t]

\* What an insert has left behind it, and what every operation has before it.
Passed(t) ==
  InFlight(t) =>
    /\ \A i \in Slots : Earlier(i, idx[t], target[t]) => Passable(i, target[t])
    /\ Mismatch(t) => Passable(idx[t], target[t])

Remaining(t) ==
  Active(t) =>
    /\ \A i \in steady[t] : IF op[t] = "insert" THEN table[i] \in Free
                            ELSE i \in Holding(target[t])
    /\ Mismatch(t) => idx[t] \notin steady[t]
    /\ ~beaten[t] /\ pc[t] \in {"load", "look", "cas", "read"} =>
         /\ turns[t] = 0 => steady[t] = {}
         /\ turns[t] > 0 =>
              /\ (idx[t] + Capacity - Hash[target[t]]) % Capacity = Capacity - turns[t]
              /\ \A i \in steady[t] : ~Earlier(i, idx[t], target[t])
    /\ ~beaten[t] /\ pc[t] = "miss" => steady[t] = {}

Inv ==
  /\ TypeOK /\ HistoryTypes
  /\ \A t \in Threads : ThreadState(t) /\ Protected(t) /\ Passed(t) /\ Remaining(t)
  /\ Ownership
  /\ ProbePaths

-----------------------------------------------------------------------------
(* The order in which a search visits the slots *)

\* How many slots the search for k goes past before it comes to slot i.
Distance(i, k) == (i + Capacity - Hash[k]) % Capacity

\* A table has at least one slot (with_capacity takes a power of two).
LEMMA SomeSlot == Capacity \in Nat /\ Capacity >= 1
  BY MapCapacityAssumption

\* Reducing a sum of two slot numbers by the mask takes away at most one lap.
LEMMA Wrap ==
  ASSUME NEW x \in Nat, x < 2 * Capacity
  PROVE  x % Capacity = IF x < Capacity THEN x ELSE x - Capacity
<1> USE SomeSlot
<1>1. CASE x < Capacity BY <1>1
<1>2. CASE x >= Capacity
  <2> DEFINE d == x \div Capacity
             r == x % Capacity
  <2>1. d \in Int /\ r \in 0 .. Capacity - 1 /\ x = Capacity * d + r
    OBVIOUS
  <2> HIDE DEF d, r
  <2>2. CASE d <= 0
    <3>1. Capacity * d <= 0 BY <2>1, <2>2
    <3> QED BY <2>1, <3>1, <1>2
  <2>3. CASE d >= 2
    <3>1. Capacity * d >= Capacity * 2 BY <2>1, <2>3
    <3> QED BY <2>1, <3>1
  <2>4. CASE d = 1
    <3>1. Capacity * d = Capacity BY <2>4
    <3> QED BY <2>1, <3>1, <1>2 DEF r
  <2> QED BY <2>1, <2>2, <2>3, <2>4
<1> QED BY <1>1, <1>2

\* The distance without the modulus.
LEMMA DistanceValue ==
  ASSUME NEW k \in Keys, NEW i \in Slots
  PROVE  /\ Distance(i, k) \in Slots
         /\ Hash[k] \in Slots
         /\ Distance(i, k) = IF i >= Hash[k] THEN i - Hash[k]
                             ELSE i + Capacity - Hash[k]
<1> USE SomeSlot DEF Slots
<1>1. Hash[k] \in 0 .. Capacity - 1 BY HashAssumption
<1>2. i + Capacity - Hash[k] \in Nat /\ i + Capacity - Hash[k] < 2 * Capacity
  BY <1>1
<1> QED BY <1>1, <1>2, Wrap DEF Distance

\* A search visits every slot once, beginning at the hash of its key.
LEMMA DistanceOrder ==
  ASSUME NEW k \in Keys
  PROVE  /\ Hash[k] \in Slots /\ Distance(Hash[k], k) = 0
         /\ \A i, j \in Slots : Distance(i, k) = Distance(j, k) => i = j
         /\ \A i \in Slots : Distance(i, k) \in 0 .. Capacity - 1
         /\ \A i \in Slots :
              /\ (i + 1) % Capacity \in Slots
              /\ Distance(i, k) < Capacity - 1 =>
                   Distance((i + 1) % Capacity, k) = Distance(i, k) + 1
              /\ Distance(i, k) = Capacity - 1 => Distance((i + 1) % Capacity, k) = 0
<1> USE SomeSlot
<1>1. Hash[k] \in Slots BY HashAssumption DEF Slots
<1>2. Distance(Hash[k], k) = 0 BY <1>1, DistanceValue DEF Slots
<1>3. ASSUME NEW i \in Slots, NEW j \in Slots, Distance(i, k) = Distance(j, k)
      PROVE  i = j
  BY <1>1, <1>3, DistanceValue DEF Slots
<1>4. ASSUME NEW i \in Slots
      PROVE  /\ (i + 1) % Capacity \in Slots
             /\ Distance(i, k) < Capacity - 1 =>
                  Distance((i + 1) % Capacity, k) = Distance(i, k) + 1
             /\ Distance(i, k) = Capacity - 1 => Distance((i + 1) % Capacity, k) = 0
  <2> DEFINE n == (i + 1) % Capacity
  <2>1. n = IF i + 1 < Capacity THEN i + 1 ELSE 0
    <3>1. i + 1 \in Nat /\ i + 1 < 2 * Capacity /\ i + 1 <= Capacity BY DEF Slots
    <3> QED BY <3>1, Wrap
  <2>2. n \in Slots BY <2>1 DEF Slots
  <2> HIDE DEF n
  <2>3. /\ Distance(i, k) = IF i >= Hash[k] THEN i - Hash[k]
                            ELSE i + Capacity - Hash[k]
        /\ Distance(n, k) = IF n >= Hash[k] THEN n - Hash[k]
                            ELSE n + Capacity - Hash[k]
    BY <2>2, DistanceValue
  <2>4. /\ Distance(i, k) < Capacity - 1 => Distance(n, k) = Distance(i, k) + 1
        /\ Distance(i, k) = Capacity - 1 => Distance(n, k) = 0
    BY <1>1, <2>1, <2>3 DEF Slots
  <2> QED BY <2>2, <2>4 DEF n
<1>5. \A i \in Slots : Distance(i, k) \in 0 .. Capacity - 1
  BY DistanceValue DEF Slots
<1> QED BY <1>1, <1>2, <1>3, <1>4, <1>5

-----------------------------------------------------------------------------
(* The initial state, and what follows from the invariant *)

\* A new map is empty and nobody uses it.
LEMMA InitInv == Init => Inv
<1> SUFFICES ASSUME Init PROVE Inv
  OBVIOUS
<1> USE SomeSlot, EntriesAssumption DEF Init, Collector!Init
<1>1. TypeOK BY DEF TypeOK, Slots, Entries, Null
<1>2. HistoryTypes BY DEF HistoryTypes
<1>3. \A t \in Threads : ThreadState(t) /\ Protected(t) /\ Passed(t) /\ Remaining(t)
  BY DEF ThreadState, Protected, Passed, Remaining, Active, InFlight, Looking
<1>4. \A e \in Entries : ~InTable(e) /\ ~(e <= made)
  BY DEF InTable, Entries, Null
<1>5. Ownership
  BY <1>4 DEF Ownership, NotAllocated, HeldByTable, HeldByCollector, HeldByInsert,
              InFlight, Entries, Null
<1>6. \A k \in Keys : Holding(k) = {} BY DEF Holding, Entries, Null
<1>7. ProbePaths BY <1>6 DEF ProbePaths, Tombstone, Null
<1> QED BY <1>1, <1>2, <1>3, <1>5, <1>7 DEF Inv

\* The three kinds of words in a slot are different.
LEMMA Words ==
  /\ Null \notin Entries /\ Tombstone \notin Entries /\ Null # Tombstone
  /\ \A w \in 0 .. MaxEntries + 1 : w \in Free \/ w \in Entries
  /\ \A e \in Entries : e \in 0 .. MaxEntries + 1
  BY EntriesAssumption DEF Null, Tombstone, Entries, Free

\* While somebody is using the map it has not been dropped.
LEMMA InUse ==
  ASSUME Inv, NEW t \in Threads, Active(t)
  PROVE  /\ ~AllGone /\ \A u \in Threads : pc[u] # "gone"
         /\ \A i \in Slots : table[i] \in Entries =>
              /\ table[i] \notin retired \cup freed \cup shell
              /\ left_map[table[i]] = 0
<1>1. ~AllGone BY DEF Active, AllGone
<1>2. \A u \in Threads : pc[u] # "gone" BY <1>1 DEF Inv, ThreadState
<1>3. ASSUME NEW i \in Slots, table[i] \in Entries
      PROVE  table[i] \notin retired \cup freed \cup shell /\ left_map[table[i]] = 0
  <2>1. InTable(table[i]) BY DEF InTable
  <2>2. HeldByTable(table[i]) BY <1>3 DEF Inv, Ownership
  <2> QED BY <1>1, <2>1, <2>2 DEF HeldByTable
<1> QED BY <1>1, <1>2, <1>3

-----------------------------------------------------------------------------
(* Steps that change only the thread that takes them *)

\* The loads, the failed compare-exchanges and the read do not disturb the
\* table, the entries or another thread.
LEMMA LocalStep ==
  ASSUME Inv, NEW t \in Threads,
         UNCHANGED <<table, entries, op, target, new, collector, tombed, steady>>,
         Active(t), Active(t)', InFlight(t)' <=> InFlight(t),
         \A u \in Threads : u # t =>
           /\ pc'[u] = pc[u] /\ idx'[u] = idx[u] /\ turns'[u] = turns[u]
           /\ curr'[u] = curr[u] /\ beaten'[u] = beaten[u],
         pc'[t] # "gone"
  PROVE  /\ Ownership' /\ ProbePaths'
         /\ \A u \in Threads : u # t =>
              ThreadState(u)' /\ Protected(u)' /\ Passed(u)' /\ Remaining(u)'
<1> USE DEF entries, collector
<1>1. \A u \in Threads : /\ InFlight(u)' <=> InFlight(u)
                         /\ u # t => /\ Active(u)' <=> Active(u)
                                     /\ Looking(u)' <=> Looking(u)
                                     /\ Mismatch(u)' <=> Mismatch(u)
  BY DEF InFlight, Active, Looking, Mismatch
<1>2. \A e : InTable(e)' <=> InTable(e) BY DEF InTable
<1>3. ~AllGone /\ ~AllGone' /\ (Undefined => Undefined')
  BY DEF Active, AllGone, Undefined
<1>4. \A k : Holding(k)' = Holding(k) BY DEF Holding
<1>5. \A i, k : Passable(i, k)' <=> Passable(i, k) BY DEF Passable
<1>6. Ownership'
  <2>1. Ownership BY DEF Inv
  <2>2. ASSUME NEW e \in Entries
        PROVE  (NotAllocated(e) /\ HeldByTable(e) /\ HeldByCollector(e))'
    <3>1. NotAllocated(e) /\ HeldByTable(e) /\ HeldByCollector(e)
      BY <2>1 DEF Ownership
    <3> QED BY <1>2, <1>3, <3>1 DEF NotAllocated, HeldByTable, HeldByCollector
  <2>3. \A u \in Threads : HeldByInsert(u)'
    BY <1>1, <1>2, <2>1 DEF Ownership, HeldByInsert
  <2> QED BY <1>1, <1>2, <1>3, <2>1, <2>2, <2>3 DEF Ownership
<1>7. ProbePaths'
  BY <1>4, <1>5 DEF Inv, ProbePaths, Earlier
<1>8. ASSUME NEW u \in Threads, u # t
      PROVE  ThreadState(u)' /\ Protected(u)' /\ Passed(u)' /\ Remaining(u)'
  <2>1. ThreadState(u) /\ Protected(u) /\ Passed(u) /\ Remaining(u) BY DEF Inv
  <2>2. ThreadState(u)' BY <1>1, <1>3, <1>8, <2>1 DEF ThreadState
  <2>3. Protected(u)' BY <1>1, <1>2, <1>8, <2>1 DEF Protected
  <2>4. Passed(u)' BY <1>1, <1>5, <1>8, <2>1 DEF Passed, Earlier
  <2>5. Remaining(u)' BY <1>1, <1>4, <1>8, <2>1 DEF Remaining, Earlier
  <2> QED BY <2>2, <2>3, <2>4, <2>5
<1> QED BY <1>6, <1>7, <1>8

\* A turn of the loop leaves nothing behind that was there all the time.
LEMMA MoveOn ==
  ASSUME Inv, NEW t \in Threads, Active(t), pc[t] \in {"load", "look"}, turns[t] > 0,
         idx'[t] = (idx[t] + 1) % Capacity, turns'[t] = turns[t] - 1, pc'[t] = "load",
         UNCHANGED <<table, key, op, target, tombed, steady, beaten>>,
         idx[t] \notin steady[t], InFlight(t) => Passable(idx[t], target[t])
  PROVE  Passed(t)' /\ Remaining(t)'
<1> USE SomeSlot
<1> DEFINE k == target[t]
           n == (idx[t] + 1) % Capacity
<1>1. /\ TypeOK /\ HistoryTypes /\ ThreadState(t) /\ Passed(t) /\ Remaining(t)
  BY DEF Inv
<1>2. /\ k \in Keys /\ idx[t] \in Slots /\ turns[t] \in 1 .. Capacity
      /\ steady[t] \subseteq Slots
  BY <1>1 DEF ThreadState, TypeOK, HistoryTypes
<1>3. n \in Slots BY <1>2, DistanceOrder
<1>4. ~Mismatch(t)' BY DEF Mismatch
<1> HIDE DEF n
<1>5. /\ Distance(idx[t], k) \in 0 .. Capacity - 1
      /\ \A i \in Slots : Distance(i, k) \in 0 .. Capacity - 1
      /\ \A i \in Slots : Distance(i, k) = Distance(idx[t], k) => i = idx[t]
      /\ Distance(idx[t], k) < Capacity - 1 => Distance(n, k) = Distance(idx[t], k) + 1
      /\ Distance(idx[t], k) = Capacity - 1 => Distance(n, k) = 0
      /\ Distance(n, k) \in 0 .. Capacity - 1
      /\ \A i, j : Earlier(i, j, k) <=> Distance(i, k) < Distance(j, k)
  BY <1>2, <1>3, DistanceOrder DEF n, Earlier, Distance
<1>6. Passed(t)'
  <2> SUFFICES ASSUME InFlight(t)', NEW i \in Slots, Earlier(i, n, k)
               PROVE  Passable(i, k)
    BY <1>4 DEF Passed, Earlier, Passable, n
  <2>1. InFlight(t) BY DEF InFlight
  <2>2. \A j \in Slots : Earlier(j, idx[t], k) => Passable(j, k)
    BY <1>1, <2>1 DEF Passed
  <2>3. Distance(i, k) < Distance(n, k) BY <1>5
  <2>4. Distance(i, k) <= Distance(idx[t], k) BY <1>5, <2>3
  <2>5. i = idx[t] \/ Earlier(i, idx[t], k)
    BY <1>5, <2>4 DEF Earlier, Distance
  <2> QED BY <2>1, <2>2, <2>5
<1>7. Remaining(t)'
  <2>1. \A i \in steady'[t] : IF op'[t] = "insert" THEN table'[i] \in Free
                              ELSE i \in Holding(target[t])'
    BY <1>1 DEF Remaining, Holding
  <2> SUFFICES ASSUME ~beaten[t]
               PROVE  /\ turns'[t] = 0 => steady[t] = {}
                      /\ turns'[t] > 0 =>
                           /\ Distance(n, k) = Capacity - turns'[t]
                           /\ \A i \in steady[t] : ~Earlier(i, n, k)
    BY <1>4, <2>1 DEF Remaining, Earlier, Distance, n
  <2>2. /\ Distance(idx[t], k) = Capacity - turns[t]
        /\ \A i \in steady[t] : Distance(i, k) >= Distance(idx[t], k)
    BY <1>1, <1>2, <1>5 DEF Remaining, Earlier, Distance
  <2>3. \A i \in steady[t] : Distance(i, k) > Distance(idx[t], k)
    BY <1>2, <1>5, <2>2
  <2>4. CASE turns[t] = 1
    <3>1. steady[t] = {} BY <1>2, <1>5, <2>2, <2>3, <2>4
    <3> QED BY <2>4, <3>1
  <2>5. CASE turns[t] > 1
    <3>1. Distance(n, k) = Distance(idx[t], k) + 1 BY <1>2, <1>5, <2>2, <2>5
    <3>2. Distance(n, k) = Capacity - turns'[t] BY <1>2, <2>2, <3>1
    <3>3. \A i \in steady[t] : ~(Distance(i, k) < Distance(n, k))
      BY <1>2, <1>5, <2>3, <3>1
    <3> QED BY <2>5, <1>2, <3>2, <3>3 DEF Earlier, Distance
  <2> QED BY <1>2, <2>4, <2>5
<1> QED BY <1>6, <1>7

\* A load that finds an empty slot ends the search for good reason: the key is
\* not further on.
LEMMA LoadStep ==
  ASSUME Inv, NEW t \in Threads, Load(t)
  PROVE  Inv'
<1> USE SomeSlot, EntriesAssumption
<1> DEFINE e == table[idx[t]]
           k == target[t]
<1>1. /\ TypeOK /\ HistoryTypes /\ Ownership /\ ProbePaths
      /\ ThreadState(t) /\ Protected(t) /\ Passed(t) /\ Remaining(t)
  BY DEF Inv
<1>2. /\ pc[t] = "load" /\ turns[t] > 0
      /\ UNCHANGED <<table, entries, op, target, new, collector, tombed, steady, beaten>>
      /\ pc'[t] \in {"load", "look", "cas", "miss"}
      /\ curr'[t] = IF pc'[t] \in {"cas", "look"} THEN e ELSE Null
      /\ \A u \in Threads : u # t =>
           /\ pc'[u] = pc[u] /\ idx'[u] = idx[u] /\ turns'[u] = turns[u]
           /\ curr'[u] = curr[u]
  BY <1>1 DEF Load, Goto, Advance, TypeOK
<1>3. \/ /\ pc'[t] = "miss" /\ e = Null /\ op[t] # "insert" /\ UNCHANGED <<idx, turns>>
      \/ /\ pc'[t] = "look" /\ e \in Entries /\ UNCHANGED <<idx, turns>>
      \/ /\ pc'[t] = "cas" /\ e \in Free /\ op[t] = "insert" /\ UNCHANGED <<idx, turns>>
      \/ /\ pc'[t] = "load" /\ e = Tombstone /\ op[t] # "insert"
         /\ idx'[t] = (idx[t] + 1) % Capacity /\ turns'[t] = turns[t] - 1
  BY <1>1 DEF Load, Goto, Advance, TypeOK
<1>4. /\ t \in guards /\ k \in Keys /\ Active(t) /\ Active(t)'
      /\ InFlight(t)' <=> InFlight(t)
      /\ idx[t] \in Slots /\ (idx[t] + 1) % Capacity \in Slots /\ e \in 0 .. MaxEntries + 1
      /\ turns[t] \in 1 .. Capacity
  <2>1. t \in guards /\ k \in Keys /\ Active(t) BY <1>1, <1>2 DEF ThreadState, Active
  <2>2. idx[t] \in Slots /\ e \in 0 .. MaxEntries + 1 /\ turns[t] \in 1 .. Capacity
    BY <1>1, <1>2 DEF TypeOK
  <2>3. (idx[t] + 1) % Capacity \in Slots BY <2>1, <2>2, DistanceOrder
  <2>4. Active(t)' BY <1>2 DEF Active
  <2>5. InFlight(t)' <=> InFlight(t) BY <1>2, <1>3 DEF InFlight
  <2> QED BY <2>1, <2>2, <2>3, <2>4, <2>5
<1>5. /\ Ownership' /\ ProbePaths'
      /\ \A u \in Threads : u # t =>
           ThreadState(u)' /\ Protected(u)' /\ Passed(u)' /\ Remaining(u)'
  BY <1>2, <1>4, LocalStep
<1>6. TypeOK' /\ HistoryTypes'
  <2>1. HistoryTypes' BY <1>1, <1>2 DEF HistoryTypes
  <2>2. pc' \in [Threads -> {"idle", "load", "look", "cas", "read", "hit", "miss", "gone",
                             "undefined"}]
    BY <1>1 DEF TypeOK, Load, Goto, Advance
  <2>3. idx' \in [Threads -> Slots] /\ turns' \in [Threads -> 0 .. Capacity]
    BY <1>1, <1>4 DEF TypeOK, Load, Advance
  <2>4. curr' \in [Threads -> 0 .. MaxEntries + 1]
    BY <1>1, <1>4, Words DEF TypeOK, Load, Null
  <2> QED BY <1>1, <1>2, <2>1, <2>2, <2>3, <2>4 DEF TypeOK, entries, collector
<1>7. ThreadState(t)'
  <2>1. pc'[t] \in {"look", "cas"} => turns'[t] > 0 BY <1>2, <1>3
  <2>2. InFlight(t)' => new'[t] \in Entries /\ key'[new'[t]] = target'[t]
    BY <1>1, <1>2, <1>4 DEF ThreadState, entries
  <2>3. pc'[t] = "cas" => op'[t] = "insert" BY <1>2, <1>3
  <2>4. pc'[t] = "look" => curr'[t] \in Entries BY <1>2, <1>3
  <2> QED BY <1>2, <1>4, <2>1, <2>2, <2>3, <2>4 DEF ThreadState, collector
<1>8. Protected(t)'
  <2> SUFFICES ASSUME Looking(t)' PROVE pc'[t] = "look" /\ InTable(curr[t])'
    BY DEF Protected
  <2>1. curr'[t] = e /\ e \in Entries BY <1>2 DEF Looking
  <2>2. pc'[t] = "look" BY <1>3, <2>1, Words DEF Looking, Free
  <2> QED BY <1>2, <1>4, <2>1, <2>2 DEF InTable
<1>9. \A i \in steady[t] : IF op[t] = "insert" THEN table[i] \in Free
                           ELSE i \in Holding(k)
  BY <1>1, <1>4 DEF Remaining
<1>10. Mismatch(t)' => /\ Passable(idx[t], k) /\ idx[t] \notin steady[t]
                       /\ UNCHANGED <<idx, turns>>
  <2> SUFFICES ASSUME Mismatch(t)'
               PROVE  Passable(idx[t], k) /\ idx[t] \notin steady[t] /\ UNCHANGED <<idx, turns>>
    OBVIOUS
  <2>1. pc'[t] = "look" /\ e \in Entries /\ curr'[t] = e /\ UNCHANGED <<idx, turns>>
    BY <1>2, <1>3 DEF Mismatch
  <2>2. key[e] # k BY <1>2, <2>1 DEF Mismatch, entries
  <2> QED BY <1>9, <2>1, <2>2, Words DEF Passable, Holding, Free
<1>11. CASE pc'[t] = "load"
  <2>1. idx[t] \notin steady[t] BY <1>3, <1>9, <1>11, Words DEF Holding
  <2>2. ~InFlight(t) BY <1>3, <1>11 DEF InFlight
  <2>3. Passed(t)' /\ Remaining(t)'
    BY <1>2, <1>3, <1>4, <1>11, <2>1, <2>2, MoveOn DEF entries
  <2> QED BY <1>5, <1>6, <1>7, <1>8, <2>3 DEF Inv
<1>12. CASE pc'[t] # "load"
  <2>1. UNCHANGED <<idx, turns>> BY <1>3, <1>12
  <2>2. Passed(t)'
    BY <1>1, <1>2, <1>4, <1>10, <2>1 DEF Passed, Passable, Earlier, entries
  <2>3. CASE pc'[t] = "miss"
    <3>1. e = Null /\ op[t] # "insert" BY <1>3, <2>3
    <3>2. ASSUME ~beaten[t], NEW i \in steady[t] PROVE FALSE
      <4>1. i \in Holding(k) BY <1>9, <3>1, <3>2
      <4>2. i \in Slots /\ i # idx[t] BY <3>1, <4>1, Words DEF Holding
      <4>3. ~Earlier(i, idx[t], k) BY <1>1, <1>2, <1>4, <3>2 DEF Remaining
      <4>4. Earlier(idx[t], i, k)
        <5>1. /\ Distance(i, k) \in 0 .. Capacity - 1
              /\ Distance(idx[t], k) \in 0 .. Capacity - 1
              /\ Distance(i, k) # Distance(idx[t], k)
          BY <1>4, <4>2, DistanceOrder
        <5>2. /\ Earlier(i, idx[t], k) <=> Distance(i, k) < Distance(idx[t], k)
              /\ Earlier(idx[t], i, k) <=> Distance(idx[t], k) < Distance(i, k)
          BY DEF Earlier, Distance
        <5> QED BY <4>3, <5>1, <5>2
      <4>5. Passable(idx[t], k) BY <1>1, <1>4, <4>1, <4>4 DEF ProbePaths
      <4> QED BY <3>1, <4>5 DEF Passable
    <3>3. ~beaten[t] => steady[t] = {} BY <3>2
    <3>4. Remaining(t)'
      BY <1>2, <1>9, <2>1, <2>3, <3>3 DEF Remaining, Holding, Mismatch, entries
    <3> QED BY <1>5, <1>6, <1>7, <1>8, <2>2, <3>4 DEF Inv
  <2>4. CASE pc'[t] # "miss"
    <3>1. Remaining(t)'
      BY <1>1, <1>2, <1>4, <1>10, <2>1, <2>4 DEF Remaining, Holding, Earlier, entries
    <3> QED BY <1>5, <1>6, <1>7, <1>8, <2>2, <3>1 DEF Inv
  <2> QED BY <2>3, <2>4
<1> QED BY <1>11, <1>12

\* The entry has the key, or the search moves on past it.
LEMMA LookStep ==
  ASSUME Inv, NEW t \in Threads, Look(t)
  PROVE  Inv'
<1> USE SomeSlot, EntriesAssumption
<1> DEFINE matches == key[curr[t]] = target[t]
<1>1. /\ TypeOK /\ HistoryTypes /\ ThreadState(t) /\ Protected(t) /\ Passed(t) /\ Remaining(t)
  BY DEF Inv
<1>2. /\ pc[t] = "look" /\ turns[t] > 0 /\ curr[t] \in Entries
      /\ UNCHANGED <<table, entries, op, target, new, collector, tombed, steady, beaten>>
      /\ \A u \in Threads : u # t =>
           /\ pc'[u] = pc[u] /\ idx'[u] = idx[u] /\ turns'[u] = turns[u]
           /\ curr'[u] = curr[u]
  BY <1>1 DEF Look, Goto, Advance, TypeOK, ThreadState
<1>3. \/ /\ pc'[t] = "read" /\ op[t] = "get" /\ matches /\ UNCHANGED <<idx, turns, curr>>
      \/ /\ pc'[t] = "cas" /\ op[t] # "get" /\ matches /\ UNCHANGED <<idx, turns, curr>>
      \/ /\ pc'[t] = "load" /\ ~matches /\ curr'[t] = Null
         /\ idx'[t] = (idx[t] + 1) % Capacity /\ turns'[t] = turns[t] - 1
  BY <1>1 DEF Look, Goto, Advance, TypeOK
<1>4. /\ t \in guards /\ target[t] \in Keys /\ Active(t) /\ Active(t)'
      /\ InFlight(t)' <=> InFlight(t)
      /\ idx[t] \in Slots /\ (idx[t] + 1) % Capacity \in Slots
      /\ turns[t] \in 1 .. Capacity
  <2>1. t \in guards /\ target[t] \in Keys /\ Active(t)
    BY <1>1, <1>2 DEF ThreadState, Active
  <2>2. idx[t] \in Slots /\ turns[t] \in 1 .. Capacity BY <1>1, <1>2 DEF TypeOK
  <2>3. (idx[t] + 1) % Capacity \in Slots BY <2>1, <2>2, DistanceOrder
  <2>4. Active(t)' BY <1>3 DEF Active
  <2>5. InFlight(t)' <=> InFlight(t) BY <1>2, <1>3 DEF InFlight
  <2> QED BY <2>1, <2>2, <2>3, <2>4, <2>5
<1>5. pc'[t] # "gone" BY <1>3
<1>6. /\ Ownership' /\ ProbePaths'
      /\ \A u \in Threads : u # t =>
           ThreadState(u)' /\ Protected(u)' /\ Passed(u)' /\ Remaining(u)'
  BY <1>2, <1>4, <1>5, LocalStep
<1>7. TypeOK' /\ HistoryTypes'
  <2>1. HistoryTypes' BY <1>1, <1>2 DEF HistoryTypes
  <2>2. pc' \in [Threads -> {"idle", "load", "look", "cas", "read", "hit", "miss", "gone",
                             "undefined"}]
    BY <1>1 DEF TypeOK, Look, Goto, Advance
  <2>3. idx' \in [Threads -> Slots] /\ turns' \in [Threads -> 0 .. Capacity]
    BY <1>1, <1>4 DEF TypeOK, Look, Advance
  <2>4. curr' \in [Threads -> 0 .. MaxEntries + 1]
    BY <1>1, <1>4, Words DEF TypeOK, Look, Null
  <2> QED BY <1>1, <1>2, <2>1, <2>2, <2>3, <2>4 DEF TypeOK, entries, collector
<1>8. ThreadState(t)'
  <2>1. pc'[t] = "cas" => turns'[t] > 0 /\ op'[t] # "get" /\ curr'[t] \in Entries
    BY <1>2, <1>3
  <2>2. InFlight(t)' => new'[t] \in Entries /\ key'[new'[t]] = target'[t]
    BY <1>1, <1>2, <1>4 DEF ThreadState, entries
  <2> QED BY <1>2, <1>3, <1>4, <2>1, <2>2 DEF ThreadState, collector
<1>9. Protected(t)'
  <2> SUFFICES ASSUME Looking(t)' PROVE Protected(t)'
    BY DEF Protected
  <2>1. matches /\ UNCHANGED curr BY <1>3, Words DEF Looking
  <2>2. Looking(t) BY <1>2 DEF Looking
  <2>3. InTable(curr[t])' <=> InTable(curr[t]) BY <1>2, <2>1 DEF InTable
  <2> QED BY <1>1, <1>2, <2>1, <2>2, <2>3 DEF Protected, entries, collector
<1>10. CASE pc'[t] = "load"
  <2>1. Mismatch(t) BY <1>2, <1>3, <1>10 DEF Mismatch
  <2>2. /\ idx[t] \notin steady[t]
        /\ InFlight(t) => Passable(idx[t], target[t])
    BY <1>1, <1>4, <2>1 DEF Remaining, Passed
  <2>3. Passed(t)' /\ Remaining(t)'
    BY <1>2, <1>3, <1>4, <1>10, <2>2, MoveOn DEF entries
  <2> QED BY <1>6, <1>7, <1>8, <1>9, <2>3 DEF Inv
<1>11. CASE pc'[t] # "load"
  <2>1. UNCHANGED <<idx, turns, curr>> /\ ~Mismatch(t)' BY <1>3, <1>11 DEF Mismatch
  <2>2. Passed(t)'
    BY <1>1, <1>2, <1>4, <2>1 DEF Passed, Passable, Earlier, entries
  <2>3. pc'[t] # "miss" BY <1>3
  <2>4. Remaining(t)'
    BY <1>1, <1>2, <1>4, <2>1, <2>3 DEF Remaining, Holding, Earlier, entries
  <2> QED BY <1>6, <1>7, <1>8, <1>9, <2>2, <2>4 DEF Inv
<1> QED BY <1>10, <1>11

\* The callback of get has returned.
LEMMA ReadDoneStep ==
  ASSUME Inv, NEW t \in Threads, ReadDone(t)
  PROVE  Inv'
<1>1. /\ TypeOK /\ HistoryTypes /\ ThreadState(t) /\ Remaining(t)
  BY DEF Inv
<1>2. /\ pc[t] = "read" /\ pc'[t] = "hit"
      /\ UNCHANGED <<table, entries, op, target, new, idx, turns, curr, collector,
                     tombed, steady, beaten>>
      /\ \A u \in Threads : u # t => pc'[u] = pc[u]
  BY <1>1 DEF ReadDone, Goto, TypeOK
<1>3. Active(t) /\ Active(t)' /\ (InFlight(t)' <=> InFlight(t)) /\ ~InFlight(t)
  BY <1>2 DEF Active, InFlight
<1>4. /\ Ownership' /\ ProbePaths'
      /\ \A u \in Threads : u # t =>
           ThreadState(u)' /\ Protected(u)' /\ Passed(u)' /\ Remaining(u)'
  BY <1>2, <1>3, LocalStep
<1>5. TypeOK' /\ HistoryTypes'
  BY <1>1 DEF ReadDone, Goto, TypeOK, HistoryTypes, entries, collector
<1>6. ThreadState(t)' BY <1>1, <1>2, <1>3 DEF ThreadState, collector
<1>7. Protected(t)' /\ Passed(t)'
  BY <1>2, <1>3 DEF Protected, Passed, Looking
<1>8. Remaining(t)'
  BY <1>1, <1>2, <1>3 DEF Remaining, Holding, Mismatch, entries
<1> QED BY <1>4, <1>5, <1>6, <1>7, <1>8 DEF Inv

\* A lost compare-exchange costs a turn.
LEMMA CasFailsStep ==
  ASSUME Inv, NEW t \in Threads, CasFails(t)
  PROVE  Inv'
<1>1. /\ TypeOK /\ HistoryTypes /\ ThreadState(t) /\ Passed(t) /\ Remaining(t)
  BY DEF Inv
<1>2. /\ pc[t] = "cas" /\ pc'[t] = "load" /\ beaten'[t]
      /\ UNCHANGED <<table, entries, op, target, new, idx, curr, collector, tombed, steady>>
      /\ \A u \in Threads : u # t => /\ pc'[u] = pc[u] /\ turns'[u] = turns[u]
                                     /\ beaten'[u] = beaten[u]
  BY <1>1 DEF CasFails, Goto, TypeOK, HistoryTypes
<1>3. Active(t) /\ Active(t)' /\ (InFlight(t)' <=> InFlight(t))
  BY <1>2 DEF Active, InFlight
<1>4. /\ Ownership' /\ ProbePaths'
      /\ \A u \in Threads : u # t =>
           ThreadState(u)' /\ Protected(u)' /\ Passed(u)' /\ Remaining(u)'
  BY <1>2, <1>3, LocalStep
<1>5. TypeOK' /\ HistoryTypes'
  <2>1. turns[t] \in 0 .. Capacity /\ turns[t] > 0 BY <1>1, <1>2 DEF TypeOK, ThreadState
  <2>2. turns[t] - 1 \in 0 .. Capacity BY <2>1, SomeSlot
  <2> QED BY <1>1, <2>2 DEF CasFails, Goto, TypeOK, HistoryTypes, entries, collector
<1>6. ThreadState(t)' BY <1>1, <1>2, <1>3 DEF ThreadState, collector, entries
<1>7. Protected(t)' BY <1>2 DEF Protected, Looking
<1>8. Passed(t)'
  BY <1>1, <1>2, <1>3 DEF Passed, Passable, Earlier, Mismatch, entries
<1>9. Remaining(t)'
  BY <1>1, <1>2, <1>3 DEF Remaining, Holding, Mismatch, entries
<1> QED BY <1>4, <1>5, <1>6, <1>7, <1>8, <1>9 DEF Inv

\* The loop ends after its last turn.
LEMMA OutOfTurnsStep ==
  ASSUME Inv, NEW t \in Threads, OutOfTurns(t)
  PROVE  Inv'
<1>1. /\ TypeOK /\ HistoryTypes /\ ThreadState(t) /\ Passed(t) /\ Remaining(t)
  BY DEF Inv
<1>2. /\ pc[t] = "load" /\ pc'[t] = "miss" /\ turns[t] = 0
      /\ UNCHANGED <<table, entries, op, target, new, idx, turns, curr, collector,
                     tombed, steady, beaten>>
      /\ \A u \in Threads : u # t => pc'[u] = pc[u]
  BY <1>1 DEF OutOfTurns, Goto, TypeOK
<1>3. Active(t) /\ Active(t)' /\ (InFlight(t)' <=> InFlight(t))
  BY <1>2 DEF Active, InFlight
<1>4. /\ Ownership' /\ ProbePaths'
      /\ \A u \in Threads : u # t =>
           ThreadState(u)' /\ Protected(u)' /\ Passed(u)' /\ Remaining(u)'
  BY <1>2, <1>3, LocalStep
<1>5. TypeOK' /\ HistoryTypes'
  BY <1>1 DEF OutOfTurns, Goto, TypeOK, HistoryTypes, entries, collector
<1>6. ThreadState(t)' BY <1>1, <1>2, <1>3 DEF ThreadState, collector, entries
<1>7. Protected(t)' BY <1>2 DEF Protected, Looking
<1>8. Passed(t)'
  BY <1>1, <1>2, <1>3 DEF Passed, Passable, Earlier, Mismatch, entries
<1>9. Remaining(t)'
  BY <1>1, <1>2, <1>3 DEF Remaining, Holding, Mismatch, entries
<1> QED BY <1>4, <1>5, <1>6, <1>7, <1>8, <1>9 DEF Inv

\* A thread goes on with a freed entry: nothing is claimed of it after that.
LEMMA DanglingStep ==
  ASSUME Inv, NEW t \in Threads, Dangling(t)
  PROVE  Inv'
<1> USE DEF entries, collector
<1>1. TypeOK /\ HistoryTypes /\ Ownership /\ ProbePaths
  BY DEF Inv
<1>2. /\ Active(t) /\ pc' = [u \in Threads |-> "undefined"]
      /\ UNCHANGED <<table, entries, op, target, new, idx, turns, curr, collector,
                     tombed, steady, beaten>>
  BY DEF Dangling, Active
<1>3. ~AllGone /\ ~AllGone' /\ Undefined' BY <1>2 DEF Active, AllGone, Undefined
<1>4. \A u \in Threads : ~InFlight(u)' /\ ~Active(u)' /\ ~Looking(u)'
  BY <1>2 DEF InFlight, Active, Looking
<1>5. TypeOK' /\ HistoryTypes' BY <1>1, <1>2 DEF TypeOK, HistoryTypes
<1>6. \A e : InTable(e)' <=> InTable(e) BY <1>2 DEF InTable
<1>7. \A k : Holding(k)' = Holding(k) BY <1>2 DEF Holding
<1>8. \A i, k : Passable(i, k)' <=> Passable(i, k) BY <1>2 DEF Passable
<1>9. ProbePaths' BY <1>1, <1>2, <1>7, <1>8 DEF ProbePaths, Earlier
<1>10. \A u \in Threads : ThreadState(u)' /\ Protected(u)' /\ Passed(u)' /\ Remaining(u)'
  BY <1>2, <1>4 DEF ThreadState, Protected, Passed, Remaining
<1>11. Ownership'
  <2>1. ASSUME NEW e \in Entries
        PROVE  (NotAllocated(e) /\ HeldByTable(e) /\ HeldByCollector(e))'
    <3>1. NotAllocated(e) /\ HeldByTable(e) /\ HeldByCollector(e)
      BY <1>1 DEF Ownership
    <3> QED BY <1>2, <1>3, <1>6, <3>1 DEF NotAllocated, HeldByTable, HeldByCollector
  <2>2. \A u \in Threads : HeldByInsert(u)' BY <1>4 DEF HeldByInsert
  <2> QED BY <1>1, <1>2, <1>3, <1>4, <1>6, <2>1, <2>2 DEF Ownership
<1> QED BY <1>5, <1>9, <1>10, <1>11 DEF Inv

-----------------------------------------------------------------------------
(* The calls *)

\* The call of an operation takes a guard and changes nothing the others use;
\* an insert also names the key of the entry it allocates.
LEMMA BeginStep ==
  ASSUME Inv, NEW t \in Threads, NEW k \in Keys, NEW o \in {"get", "insert", "remove"},
         Begin(t, o, k),
         UNCHANGED <<left_map, shell>>,
         \A e \in Entries : e <= made => key'[e] = key[e],
         \A u \in Threads : u # t => new'[u] = new[u],
         o # "insert" => key' = key
  PROVE  /\ HistoryTypes' /\ ProbePaths'
         /\ Protected(t)' /\ Passed(t)' /\ Remaining(t)'
         /\ \A u \in Threads : u # t =>
              ThreadState(u)' /\ Protected(u)' /\ Passed(u)' /\ Remaining(u)'
<1> USE DEF entries, collector
<1>1. TypeOK /\ HistoryTypes /\ Ownership /\ ProbePaths BY DEF Inv
<1>2. /\ pc[t] = "idle" /\ pc'[t] = "load" /\ op'[t] = o /\ target'[t] = k
      /\ idx'[t] = Hash[k] /\ turns'[t] = Capacity
      /\ steady'[t] = IF o = "insert" THEN Open ELSE Holding(k)
      /\ guards' = guards \cup {t}
      /\ waits' = [e \in Entries |-> waits[e] \ {t}]
      /\ UNCHANGED <<table, curr, tombed, beaten, retired, freed, early>>
      /\ \A u \in Threads : u # t =>
           /\ pc'[u] = pc[u] /\ op'[u] = op[u] /\ target'[u] = target[u]
           /\ idx'[u] = idx[u] /\ turns'[u] = turns[u] /\ steady'[u] = steady[u]
  BY <1>1 DEF Begin, Collector!Pin, Goto, TypeOK, HistoryTypes
<1>3. \A i \in Slots : table[i] \in Entries => key'[table[i]] = key[table[i]]
  <2> SUFFICES ASSUME NEW i \in Slots, table[i] \in Entries
               PROVE  table[i] <= made
    OBVIOUS
  <2>1. NotAllocated(table[i]) /\ InTable(table[i]) BY <1>1 DEF Ownership, InTable
  <2> QED BY <1>1, <2>1, EntriesAssumption DEF NotAllocated, TypeOK, Entries
<1>4. \A kk : Holding(kk)' = Holding(kk) BY <1>2, <1>3 DEF Holding
<1>5. ASSUME NEW i \in Slots, NEW kk PROVE Passable(i, kk)' <=> Passable(i, kk)
  BY <1>2, <1>3 DEF Passable
<1>6. HistoryTypes' BY <1>1 DEF Begin, HistoryTypes, Holding, Open
<1>7. ProbePaths'
  BY <1>1, <1>2, <1>4, <1>5 DEF ProbePaths, Earlier, Holding
<1>8. Protected(t)' BY <1>2 DEF Protected, Looking
<1>9. /\ \A i \in Slots : Distance(i, k) \in 0 .. Capacity - 1
      /\ Distance(Hash[k], k) = 0
      /\ \A i, j : Earlier(i, j, k) <=> Distance(i, k) < Distance(j, k)
  BY DistanceOrder DEF Earlier, Distance
<1>10. \A i \in Slots : ~Earlier(i, Hash[k], k)
  BY <1>9, SomeSlot
<1>11. Passed(t)' BY <1>2, <1>10 DEF Passed, Earlier, Mismatch
<1>12. Remaining(t)'
  <2>1. \A i \in steady'[t] : IF op'[t] = "insert" THEN table'[i] \in Free
                             ELSE i \in Holding(target[t])'
    BY <1>2, <1>4 DEF Open
  <2>2. steady'[t] \subseteq Slots BY <1>6 DEF HistoryTypes
  <2>3. (idx'[t] + Capacity - Hash[target'[t]]) % Capacity = Capacity - turns'[t]
    BY <1>2, <1>9, SomeSlot DEF Distance
  <2>4. \A i \in steady'[t] : ~Earlier(i, idx'[t], target'[t])
    BY <1>2, <1>10, <2>2
  <2> QED BY <1>2, <2>1, <2>3, <2>4, SomeSlot DEF Remaining, Earlier, Mismatch
<1>13. ASSUME NEW u \in Threads, u # t
       PROVE  ThreadState(u)' /\ Protected(u)' /\ Passed(u)' /\ Remaining(u)'
  <2>1. ThreadState(u) /\ Protected(u) /\ Passed(u) /\ Remaining(u) BY DEF Inv
  <2>2. /\ Active(u)' <=> Active(u)
        /\ InFlight(u)' <=> InFlight(u)
        /\ Looking(u)' <=> Looking(u)
        /\ pc[u] # "gone"
        /\ pc'[u] = pc[u] /\ target'[u] = target[u] /\ op'[u] = op[u]
        /\ idx'[u] = idx[u] /\ turns'[u] = turns[u] /\ steady'[u] = steady[u]
        /\ new'[u] = new[u] /\ curr'[u] = curr[u] /\ beaten'[u] = beaten[u]
    BY <1>2, <1>13, <2>1 DEF Active, InFlight, Looking, ThreadState, AllGone
  <2>3. ThreadState(u)'
    <3>1. InFlight(u) => new[u] <= made BY <1>1 DEF Ownership, HeldByInsert
    <3> QED BY <1>2, <2>1, <2>2, <3>1 DEF ThreadState
  <2>4. Protected(u)'
    <3> SUFFICES ASSUME Looking(u) PROVE Protected(u)'
      BY <2>2 DEF Protected
    <3>1. /\ curr[u] \in Entries /\ NotAllocated(curr[u])
          /\ InTable(curr[u]) \/ curr[u] \in retired \/ curr[u] \in freed
      BY <1>1, <2>1 DEF Looking, Protected, Ownership
    <3>2. curr[u] <= made
      BY <1>1, <3>1, EntriesAssumption DEF NotAllocated, TypeOK, Entries
    <3>3. InTable(curr[u])' <=> InTable(curr[u]) BY <1>2 DEF InTable
    <3>4. u \in waits'[curr[u]] <=> u \in waits[curr[u]] BY <1>2, <1>13, <3>1
    <3>5. key'[curr[u]] = key[curr[u]] BY <3>1, <3>2
    <3> QED BY <1>2, <2>1, <2>2, <3>1, <3>3, <3>4, <3>5 DEF Protected
  <2>5. Mismatch(u)' <=> Mismatch(u)
    <3> SUFFICES ASSUME pc[u] = "look" PROVE key'[curr[u]] = key[curr[u]]
      BY <2>2 DEF Mismatch
    <3>1. /\ curr[u] \in Entries /\ NotAllocated(curr[u])
          /\ InTable(curr[u]) \/ curr[u] \in retired \/ curr[u] \in freed
      BY <1>1, <2>1 DEF ThreadState, Looking, Protected, Ownership
    <3> QED BY <1>1, <3>1, EntriesAssumption DEF NotAllocated, TypeOK, Entries
  <2>6. idx[u] \in Slots BY <1>1 DEF TypeOK
  <2>7. Passed(u)' BY <1>5, <2>1, <2>2, <2>5, <2>6 DEF Passed, Earlier
  <2>8. Remaining(u)' BY <1>2, <1>4, <2>1, <2>2, <2>5 DEF Remaining, Earlier
  <2> QED BY <2>3, <2>4, <2>7, <2>8
<1> QED BY <1>6, <1>7, <1>8, <1>11, <1>12, <1>13

\* The call of get or remove.
LEMMA LookupStep ==
  ASSUME Inv, NEW t \in Threads, NEW k \in Keys, Lookup(t, k)
  PROVE  Inv'
<1> USE DEF entries, collector
<1>1. PICK o \in {"get", "remove"} : Begin(t, o, k) BY DEF Lookup
<1>2. TypeOK /\ HistoryTypes /\ Ownership BY DEF Inv
<1>3. UNCHANGED <<key, left_map, shell, made, new>> BY DEF Lookup
<1>4. /\ HistoryTypes' /\ ProbePaths'
      /\ Protected(t)' /\ Passed(t)' /\ Remaining(t)'
      /\ \A u \in Threads : u # t =>
           ThreadState(u)' /\ Protected(u)' /\ Passed(u)' /\ Remaining(u)'
  BY <1>1, <1>3, BeginStep
<1>5. TypeOK'
  <2>1. Hash[k] \in Slots /\ Capacity \in 0 .. Capacity BY DistanceOrder, SomeSlot
  <2> QED BY <1>1, <1>2, <1>3, <2>1 DEF TypeOK, Begin, Collector!Pin, Goto
<1>6. /\ pc[t] = "idle" /\ pc'[t] = "load" /\ op'[t] = o /\ target'[t] = k
      /\ guards' = guards \cup {t}
      /\ UNCHANGED <<table, retired, freed, early>>
      /\ \A u \in Threads : u # t => pc'[u] = pc[u] /\ op'[u] = op[u]
  BY <1>1, <1>2 DEF Begin, Collector!Pin, Goto, TypeOK
<1>7. /\ \A u \in Threads : InFlight(u)' <=> InFlight(u)
      /\ ~AllGone /\ ~AllGone' /\ (Undefined => Undefined')
  BY <1>6 DEF InFlight, AllGone, Undefined
<1>8. ThreadState(t)' BY <1>6, <1>7 DEF ThreadState, Active, InFlight
<1>9. \A e : InTable(e)' <=> InTable(e) BY <1>6 DEF InTable
<1>10. Ownership'
  <2>1. ASSUME NEW e \in Entries
        PROVE  (NotAllocated(e) /\ HeldByTable(e) /\ HeldByCollector(e))'
    <3>1. NotAllocated(e) /\ HeldByTable(e) /\ HeldByCollector(e)
      BY <1>2 DEF Ownership
    <3> QED BY <1>3, <1>6, <1>7, <1>9, <3>1 DEF NotAllocated, HeldByTable, HeldByCollector
  <2>2. \A u \in Threads : HeldByInsert(u)'
    BY <1>2, <1>3, <1>6, <1>7, <1>9 DEF Ownership, HeldByInsert
  <2> QED BY <1>2, <1>3, <1>6, <1>7, <1>9, <2>1, <2>2 DEF Ownership
<1> QED BY <1>4, <1>5, <1>8, <1>10 DEF Inv

\* The call of insert, which allocates an entry only it knows of.
LEMMA InsertStep ==
  ASSUME Inv, NEW t \in Threads, NEW k \in Keys, Insert(t, k)
  PROVE  Inv'
<1> USE EntriesAssumption DEF entries, collector
<1> DEFINE m == made + 1
<1>1. TypeOK /\ HistoryTypes /\ Ownership BY DEF Inv
<1>2. /\ Begin(t, "insert", k) /\ made' = m /\ UNCHANGED <<left_map, shell>>
      /\ made \in 0 .. MaxEntries /\ m \in Entries
      /\ new' = [new EXCEPT ![t] = m] /\ key' = [key EXCEPT ![m] = k]
  BY <1>1 DEF Insert, TypeOK, Entries
<1>3. /\ \A e \in Entries : e # m => key'[e] = key[e]
      /\ \A e \in Entries : e <= made => e # m
      /\ key'[m] = k /\ new'[t] = m
      /\ \A u \in Threads : u # t => new'[u] = new[u]
  <2>1. \A e \in Entries : e <= made => e # m BY <1>2 DEF Entries
  <2> HIDE DEF m
  <2> QED BY <1>1, <1>2, <2>1 DEF TypeOK
<1>4. /\ HistoryTypes' /\ ProbePaths'
      /\ Protected(t)' /\ Passed(t)' /\ Remaining(t)'
      /\ \A u \in Threads : u # t =>
           ThreadState(u)' /\ Protected(u)' /\ Passed(u)' /\ Remaining(u)'
  BY <1>2, <1>3, BeginStep
<1>5. TypeOK'
  <2>1. Hash[k] \in Slots /\ Capacity \in 0 .. Capacity BY DistanceOrder, SomeSlot
  <2>2. made' \in 0 .. MaxEntries BY <1>2 DEF Entries
  <2> HIDE DEF m
  <2> QED BY <1>1, <1>2, <2>1, <2>2 DEF TypeOK, Begin, Collector!Pin, Goto
<1>6. /\ pc[t] = "idle" /\ pc'[t] = "load" /\ op'[t] = "insert" /\ target'[t] = k
      /\ guards' = guards \cup {t}
      /\ UNCHANGED <<table, retired, freed, early>>
      /\ \A u \in Threads : u # t => pc'[u] = pc[u] /\ op'[u] = op[u]
  BY <1>1, <1>2 DEF Begin, Collector!Pin, Goto, TypeOK
<1>7. /\ \A u \in Threads : u # t => (InFlight(u)' <=> InFlight(u))
      /\ InFlight(t)' /\ ~InFlight(t)
      /\ ~AllGone /\ ~AllGone' /\ (Undefined => Undefined')
  BY <1>6 DEF InFlight, AllGone, Undefined
<1>8. ThreadState(t)' BY <1>2, <1>3, <1>6, <1>7 DEF ThreadState, Active, InFlight
<1>9. \A e : InTable(e)' <=> InTable(e) BY <1>6 DEF InTable
<1>10. NotAllocated(m) /\ m > made BY <1>1, <1>2 DEF Ownership, Entries
<1>11. \A e \in Entries : /\ e > made' => e > made
                          /\ e <= made' => e <= made \/ e = m
  BY <1>2 DEF Entries
<1>12. Ownership'
  <2>1. ASSUME NEW e \in Entries
        PROVE  (NotAllocated(e) /\ HeldByTable(e) /\ HeldByCollector(e))'
    <3>1. NotAllocated(e) /\ HeldByTable(e) /\ HeldByCollector(e)
      BY <1>1 DEF Ownership
    <3> QED BY <1>2, <1>6, <1>7, <1>9, <1>11, <3>1
            DEF NotAllocated, HeldByTable, HeldByCollector
  <2>2. ASSUME NEW u \in Threads PROVE HeldByInsert(u)'
    <3>1. CASE u = t
      BY <1>2, <1>3, <1>6, <1>9, <1>10, <3>1 DEF HeldByInsert, NotAllocated, Entries
    <3>2. CASE u # t
      <4>1. HeldByInsert(u) BY <1>1 DEF Ownership
      <4>2. new[u] <= made => new[u] <= made'
        <5>1. new[u] \in Int /\ made \in Int BY <1>1 DEF TypeOK, Entries, Null
        <5> QED BY <1>2, <5>1
      <4> QED BY <1>2, <1>3, <1>6, <1>7, <1>9, <3>2, <4>1, <4>2 DEF HeldByInsert
    <3> QED BY <3>1, <3>2
  <2>3. \A u, v \in Threads : InFlight(u)' /\ InFlight(v)' /\ u # v => new'[u] # new'[v]
    <3>1. \A u \in Threads : InFlight(u) => new[u] # m
      <4> SUFFICES ASSUME NEW u \in Threads, InFlight(u) PROVE new[u] # m
        OBVIOUS
      <4>1. new[u] \in Entries /\ new[u] <= made
        BY <1>1 DEF Inv, ThreadState, Ownership, HeldByInsert
      <4> QED BY <1>3, <4>1
    <3> QED BY <1>1, <1>3, <1>7, <3>1 DEF Ownership
  <2>4. ASSUME NEW e \in Entries, e <= made'
        PROVE  \/ InTable(e)' \/ e \in retired' \/ e \in freed' \/ Undefined'
               \/ \E u \in Threads : InFlight(u)' /\ new'[u] = e
    <3>1. CASE e = m BY <1>3, <1>7, <3>1
    <3>2. CASE e <= made
      <4>1. \/ InTable(e) \/ e \in retired \/ e \in freed \/ Undefined
            \/ \E u \in Threads : InFlight(u) /\ new[u] = e
        BY <1>1, <3>2 DEF Ownership
      <4> QED BY <1>3, <1>6, <1>7, <1>9, <4>1
    <3> QED BY <1>11, <2>4, <3>1, <3>2
  <2>5. ASSUME NEW e \in Entries PROVE left_map'[e] \in {0, 1} /\ (e \in freed' => left_map'[e] = 1)
    BY <1>1, <1>2, <1>6 DEF Ownership
  <2>6. (\A i, j \in Slots : table[i] \in Entries /\ table[i] = table[j] => i = j)'
    BY <1>1, <1>6 DEF Ownership
  <2>7. (shell \subseteq retired \cup freed)'
    BY <1>1, <1>2, <1>6 DEF Ownership
  <2> QED BY <1>7, <2>1, <2>2, <2>3, <2>4, <2>5, <2>6, <2>7 DEF Ownership
<1> QED BY <1>4, <1>5, <1>8, <1>12 DEF Inv

-----------------------------------------------------------------------------
(* The compare-exchanges *)

\* A successful compare-exchange, of insert or of remove, empties no slot and
\* gives a slot another key only if the slot was free.
LEMMA StoreStep ==
  ASSUME Inv, NEW t \in Threads, NEW w \in 0 .. MaxEntries + 1,
         pc[t] = "cas", table[idx[t]] = curr[t],
         Store(idx[t], w),
         w = Tombstone \/ (op[t] = "insert" /\ w = new[t]),
         pc' = [pc EXCEPT ![t] = "hit"],
         UNCHANGED <<key, op, target, new, idx, turns, curr, beaten>>
  PROVE  /\ HistoryTypes' /\ ProbePaths'
         /\ \A u \in Threads : Passed(u)' /\ Remaining(u)'
<1> DEFINE p == idx[t]
<1>1. /\ TypeOK /\ HistoryTypes /\ Ownership /\ ProbePaths
      /\ ThreadState(t) /\ Protected(t) /\ Passed(t) /\ Remaining(t)
  BY DEF Inv
<1>2. /\ p \in Slots /\ table \in [Slots -> 0 .. MaxEntries + 1] /\ tombed \subseteq Slots
      /\ table'[p] = w /\ \A i \in Slots : i # p => table'[i] = table[i]
      /\ tombed' = IF w = Tombstone THEN tombed \cup {p} ELSE tombed
      /\ steady' = [u \in Threads |-> Watch(u)]
  BY <1>1 DEF TypeOK, HistoryTypes, Store
<1>3. /\ pc'[t] = "hit"
      /\ \A u \in Threads : u # t => pc'[u] = pc[u]
  BY <1>1 DEF TypeOK
<1>4. w # Tombstone => /\ InFlight(t) /\ w = new[t] /\ w \in Entries
                      /\ key[w] = target[t] /\ w # Null
  BY <1>1, Words DEF InFlight, ThreadState
<1>5. curr[t] \in Entries => key[curr[t]] = target[t]
  BY <1>1 DEF Protected, Looking
<1>6. ASSUME NEW i \in Slots, NEW k \in Keys, Passable(i, k) PROVE Passable(i, k)'
  <2>1. CASE i # p BY <1>2, <1>6, <2>1 DEF Passable
  <2>2. CASE i = p /\ w = Tombstone BY <1>2, <2>2, Words DEF Passable
  <2>3. CASE i = p /\ w # Tombstone
    <3>1. CASE i \in tombed BY <1>2, <1>4, <2>3, <3>1 DEF Passable
    <3>2. CASE table[i] \in Entries /\ key[table[i]] # k
      BY <1>2, <1>4, <1>5, <2>3, <3>2 DEF Passable
    <3> QED BY <1>6, <3>1, <3>2 DEF Passable
  <2> QED BY <2>1, <2>2, <2>3
<1>7. ASSUME NEW k \in Keys, NEW i \in Slots, NEW j \in Holding(k)', Earlier(i, j, k)
      PROVE  Passable(i, k)'
  <2>1. CASE j \in Holding(k)
    BY <1>1, <1>6, <1>7, <2>1 DEF ProbePaths
  <2>2. CASE j \notin Holding(k)
    <3>1. j = p /\ w # Tombstone /\ k = target[t]
      BY <1>2, <1>4, <1>7, <2>2, Words DEF Holding
    <3>2. Passable(i, k) BY <1>1, <1>4, <1>7, <3>1 DEF Passed
    <3> QED BY <1>6, <3>2
  <2> QED BY <2>1, <2>2
<1>8. ProbePaths'
  <2>1. \A i \in Slots : table'[i] = Tombstone => i \in tombed'
    BY <1>1, <1>2 DEF ProbePaths
  <2>2. Tombstone' = Tombstone BY DEF Tombstone
  <2> QED BY <1>7, <2>1, <2>2 DEF ProbePaths, Earlier
<1>9. \A u \in Threads : Watch(u) \subseteq steady[u]
  BY DEF Watch
<1>10. HistoryTypes'
  <2>1. \A u \in Threads : Watch(u) \in SUBSET Slots BY <1>1, <1>9 DEF HistoryTypes
  <2>2. steady' \in [Threads -> SUBSET Slots] BY <1>2, <2>1
  <2>3. tombed' \subseteq Slots BY <1>2
  <2> QED BY <1>1, <2>2, <2>3 DEF HistoryTypes
<1>11. ASSUME NEW u \in Threads PROVE Passed(u)'
  <2>1. CASE u = t BY <1>3, <2>1 DEF Passed, InFlight
  <2>2. CASE u # t
    <3> SUFFICES ASSUME InFlight(u)', NEW i \in Slots,
                        Earlier(i, idx[u], target[u]) \/ (Mismatch(u)' /\ i = idx[u])
                 PROVE  Passable(i, target[u])'
      BY <1>1 DEF Passed, Earlier, TypeOK
    <3>1. InFlight(u) /\ Active(u) BY <1>3, <2>2 DEF InFlight, Active
    <3>2. Passed(u) /\ target[u] \in Keys BY <3>1 DEF Inv, ThreadState
    <3>3. Passable(i, target[u]) BY <1>3, <2>2, <3>1, <3>2 DEF Passed, Mismatch
    <3>4. \A k \in Keys : Passable(i, k) => Passable(i, k)' BY <1>6
    <3>5. Passable(i, target[u])' <=> (/\ table'[i] # Null
                                      /\ \/ i \in tombed'
                                         \/ table'[i] \in Entries /\ key[table'[i]] # target[u])
      BY DEF Passable, Null, Entries
    <3>6. \A k \in Keys : Passable(i, k)' <=> (/\ table'[i] # Null
                                      /\ \/ i \in tombed'
                                         \/ table'[i] \in Entries /\ key[table'[i]] # k)
      BY DEF Passable, Null, Entries
    <3> QED BY <3>2, <3>3, <3>4, <3>5, <3>6
  <2> QED BY <2>1, <2>2
<1>12. ASSUME NEW u \in Threads PROVE Remaining(u)'
  <2>1. Remaining(u) BY DEF Inv
  <2>2. steady'[u] = Watch(u) BY <1>2
  <2>3. \A i \in steady'[u] : IF op'[u] = "insert" THEN table'[i] \in Free
                              ELSE i \in Holding(target[u])'
    <3>1. steady[u] \subseteq Slots BY <1>1 DEF HistoryTypes
    <3> QED BY <2>2, <3>1 DEF Watch, Holding
  <2>4. CASE u = t BY <1>3, <2>3, <2>4 DEF Remaining, Mismatch
  <2>5. CASE u # t
    <3>1. pc'[u] = pc[u] /\ (Active(u)' <=> Active(u)) /\ (Mismatch(u)' <=> Mismatch(u))
      BY <1>3, <2>5 DEF Active, Mismatch
    <3>2. steady[u] = {} => steady'[u] = {} BY <1>9, <2>2
    <3> QED BY <1>9, <2>1, <2>2, <2>3, <3>1, <3>2 DEF Remaining, Earlier
  <2> QED BY <2>4, <2>5
<1> QED BY <1>8, <1>10, <1>11, <1>12

\* insert puts its entry in the slot and retires the entry it replaces, which
\* then waits for everybody who looks at it.
LEMMA InsertCasStep ==
  ASSUME Inv, NEW t \in Threads, InsertCas(t)
  PROVE  Inv'
<1> USE EntriesAssumption DEF entries, collector
<1> DEFINE p == idx[t]
           c == curr[t]
           n == new[t]
<1>1. /\ TypeOK /\ HistoryTypes /\ Ownership /\ ThreadState(t) /\ HeldByInsert(t)
  BY DEF Inv, Ownership
<1>2. /\ pc[t] = "cas" /\ op[t] = "insert" /\ table[p] = c
      /\ Store(p, n) /\ pc' = [pc EXCEPT ![t] = "hit"]
      /\ UNCHANGED <<key, left_map, shell, made, op, target, new, idx, turns, curr, beaten>>
      /\ IF c \in Free THEN UNCHANGED <<guards, retired, waits, freed, early>>
         ELSE Collector!Retire(c)
  BY DEF InsertCas, Goto
<1>3. /\ InFlight(t) /\ Active(t) /\ p \in Slots /\ n \in Entries
      /\ c \in 0 .. MaxEntries + 1 /\ n \in 0 .. MaxEntries + 1
      /\ c \notin Free <=> c \in Entries
  <2>1. InFlight(t) /\ Active(t) BY <1>2 DEF InFlight, Active
  <2>2. n \in Entries /\ c \in 0 .. MaxEntries + 1 /\ p \in Slots
    BY <1>1, <2>1 DEF ThreadState, TypeOK
  <2> QED BY <2>1, <2>2, Words DEF Free
<1>4. /\ HistoryTypes' /\ ProbePaths'
      /\ \A u \in Threads : Passed(u)' /\ Remaining(u)'
  BY <1>2, <1>3, StoreStep
<1>5. /\ table' = [table EXCEPT ![p] = n]
      /\ table'[p] = n /\ \A i \in Slots : i # p => table'[i] = table[i]
      /\ pc'[t] = "hit"
      /\ \A u \in Threads : u # t => pc'[u] = pc[u]
      /\ guards' = guards /\ freed' = freed /\ early' = early
      /\ retired' = IF c \in Entries THEN retired \cup {c} ELSE retired
      /\ c \in Entries => waits' = [waits EXCEPT ![c] = guards]
      /\ c \notin Entries => waits' = waits
  BY <1>1, <1>2, <1>3 DEF Store, TypeOK, Collector!Retire
<1>6. TypeOK'
  <2>1. table' \in [Slots -> 0 .. MaxEntries + 1] BY <1>1, <1>3, <1>5 DEF TypeOK
  <2>2. waits' \in [Entries -> SUBSET Threads] BY <1>1, <1>5 DEF TypeOK
  <2>3. retired' \subseteq Entries BY <1>1, <1>5 DEF TypeOK
  <2> QED BY <1>1, <1>2, <1>5, <2>1, <2>2, <2>3 DEF TypeOK
<1>7. /\ \A u \in Threads : u # t => (InFlight(u)' <=> InFlight(u))
      /\ ~InFlight(t)' /\ ~AllGone /\ ~AllGone' /\ (Undefined => Undefined')
      /\ \A u \in Threads : pc[u] # "gone"
  <2>1. \A u \in Threads : u # t => (InFlight(u)' <=> InFlight(u))
    BY <1>2, <1>5 DEF InFlight
  <2>2. ~InFlight(t)' /\ ~AllGone' /\ (Undefined => Undefined')
    BY <1>2, <1>5 DEF InFlight, AllGone, Undefined
  <2> QED BY <1>3, <2>1, <2>2, InUse
<1>8. /\ n <= made /\ ~InTable(n) /\ n \notin retired \cup freed \cup shell
      /\ left_map[n] = 0
  BY <1>1, <1>3 DEF HeldByInsert
<1>9. c \in Entries => c \notin retired \cup freed \cup shell /\ left_map[c] = 0 /\ c # n
  <2>1. c \in Entries => c \notin retired \cup freed \cup shell /\ left_map[c] = 0
    BY <1>2, <1>3, InUse
  <2>2. c # n BY <1>2, <1>3, <1>8 DEF InTable
  <2> QED BY <2>1, <2>2
<1>10. ASSUME NEW e \in Entries
       PROVE  InTable(e)' <=> (e = n \/ (InTable(e) /\ e # c))
  <2>1. \A i \in Slots : table[i] = c /\ c \in Entries => i = p
    BY <1>1, <1>2, <1>3 DEF Ownership
  <2>2. CASE e = n BY <1>3, <1>5, <2>2 DEF InTable
  <2>3. CASE e # n /\ e = c BY <1>5, <2>1, <2>3 DEF InTable
  <2>4. CASE e # n /\ e # c BY <1>2, <1>5, <2>4 DEF InTable
  <2> QED BY <2>2, <2>3, <2>4
<1>11. ASSUME NEW u \in Threads PROVE ThreadState(u)' /\ Protected(u)'
  <2>1. ThreadState(u) /\ Protected(u) BY DEF Inv
  <2>2. CASE u = t
    <3>1. ThreadState(u)' BY <1>2, <1>5, <1>7, <2>1, <2>2, <1>3 DEF ThreadState, Active
    <3>2. Protected(u)' BY <1>5, <2>2 DEF Protected, Looking
    <3> QED BY <3>1, <3>2
  <2>3. CASE u # t
    <3>1. ThreadState(u)'
      BY <1>2, <1>5, <1>7, <2>1, <2>3 DEF ThreadState, Active
    <3>2. Protected(u)'
      <4> SUFFICES ASSUME Looking(u)'
                   PROVE  \/ InTable(curr[u])'
                          \/ curr[u] \in retired' /\ u \in waits'[curr[u]]
                          \/ curr[u] \in freed' /\ curr[u] \in early'
        BY <1>2, <1>5, <2>1, <2>3 DEF Protected, Looking
      <4>1. Looking(u) /\ curr[u] \in Entries /\ Active(u)
        BY <1>2, <1>5, <2>3 DEF Looking, Active
      <4>3. u \in guards BY <2>1, <4>1 DEF ThreadState
      <4>4. CASE curr[u] = c
        <5>1. curr[u] \in retired' /\ waits'[curr[u]] = guards
          BY <1>1, <1>5, <4>1, <4>4 DEF TypeOK
        <5> QED BY <4>3, <5>1
      <4>5. CASE curr[u] # c /\ InTable(curr[u])
        <5>1. InTable(curr[u])' <=> \E i \in Slots : table'[i] = curr[u]
          BY <1>2 DEF InTable
        <5>2. \E i \in Slots : table[i] = curr[u] BY <4>5 DEF InTable
        <5> QED BY <1>2, <1>5, <4>5, <5>1, <5>2
      <4>6. CASE curr[u] # c /\ curr[u] \in retired /\ u \in waits[curr[u]]
        <5>1. waits'[curr[u]] = waits[curr[u]] BY <1>1, <1>5, <4>1, <4>6 DEF TypeOK
        <5> QED BY <1>5, <4>6, <5>1
      <4>7. CASE curr[u] \in freed /\ curr[u] \in early BY <1>5, <4>7
      <4> QED BY <2>1, <4>1, <4>4, <4>5, <4>6, <4>7 DEF Protected
    <3> QED BY <3>1, <3>2
  <2> QED BY <2>2, <2>3
<1>12. Ownership'
  <2>1. ASSUME NEW e \in Entries
        PROVE  (NotAllocated(e) /\ HeldByTable(e) /\ HeldByCollector(e))'
    <3>1. NotAllocated(e) /\ HeldByTable(e) /\ HeldByCollector(e)
      BY <1>1 DEF Ownership
    <3>2. NotAllocated(e)'
      <4> SUFFICES ASSUME e > made PROVE NotAllocated(e)'
        BY <1>2 DEF NotAllocated
      <4>1. e # n BY <1>1, <1>3, <1>8 DEF TypeOK, Entries
      <4>2. e # c BY <1>2, <1>3, <3>1 DEF NotAllocated, InTable
      <4> QED BY <1>2, <1>5, <1>10, <3>1, <4>1, <4>2 DEF NotAllocated
    <3>3. HeldByTable(e)'
      BY <1>2, <1>5, <1>7, <1>8, <1>9, <1>10, <3>1 DEF HeldByTable
    <3>4. HeldByCollector(e)'
      BY <1>2, <1>5, <1>9, <3>1 DEF HeldByCollector
    <3> QED BY <3>2, <3>3, <3>4
  <2>2. ASSUME NEW u \in Threads PROVE HeldByInsert(u)'
    <3> SUFFICES ASSUME InFlight(u)' PROVE HeldByInsert(u)'
      BY DEF HeldByInsert
    <3>1. u # t /\ InFlight(u) BY <1>7
    <3>2. /\ HeldByInsert(u) /\ new[u] \in Entries /\ new[u] # n
      BY <1>1, <1>3, <3>1 DEF Inv, Ownership, ThreadState
    <3>3. new[u] # c BY <1>2, <1>3, <3>1, <3>2 DEF HeldByInsert, InTable
    <3>4. ~(\E i \in Slots : table'[i] = new[u])
      BY <1>5, <3>1, <3>2 DEF HeldByInsert, InTable
    <3> QED BY <1>2, <1>5, <3>1, <3>2, <3>3, <3>4 DEF HeldByInsert, InTable
  <2>3. \A u, v \in Threads : InFlight(u)' /\ InFlight(v)' /\ u # v => new'[u] # new'[v]
    BY <1>1, <1>2, <1>7 DEF Ownership
  <2>4. ASSUME NEW e \in Entries, e <= made'
        PROVE  \/ InTable(e)' \/ e \in retired' \/ e \in freed' \/ Undefined'
               \/ \E u \in Threads : InFlight(u)' /\ new'[u] = e
    <3>1. \/ InTable(e) \/ e \in retired \/ e \in freed \/ Undefined
          \/ \E u \in Threads : InFlight(u) /\ new[u] = e
      BY <1>1, <1>2, <2>4 DEF Ownership
    <3>2. CASE InTable(e) BY <1>5, <1>10, <3>2
    <3>3. CASE e \in retired \/ e \in freed \/ Undefined BY <1>5, <1>7, <3>3
    <3>4. ASSUME NEW u \in Threads, InFlight(u), new[u] = e
          PROVE  InTable(e)' \/ \E v \in Threads : InFlight(v)' /\ new'[v] = e
      <4>1. CASE u = t BY <1>10, <3>4, <4>1
      <4>2. CASE u # t BY <1>2, <1>7, <3>4, <4>2
      <4> QED BY <4>1, <4>2
    <3> QED BY <3>1, <3>2, <3>3, <3>4
  <2>5. \A e \in Entries : left_map'[e] \in {0, 1} /\ (e \in freed' => left_map'[e] = 1)
    BY <1>1, <1>2, <1>5 DEF Ownership
  <2>6. \A i, j \in Slots : table'[i] \in Entries /\ table'[i] = table'[j] => i = j
    BY <1>1, <1>3, <1>5, <1>8 DEF Ownership, InTable
  <2>7. shell' \subseteq retired' \cup freed'
    BY <1>1, <1>2, <1>5 DEF Ownership
  <2>8. made' > 0 => Threads # {} OBVIOUS
  <2> QED BY <1>7, <2>1, <2>2, <2>3, <2>4, <2>5, <2>6, <2>7, <2>8 DEF Ownership
<1> QED BY <1>4, <1>6, <1>11, <1>12 DEF Inv

\* remove takes the value with the entry and leaves a tombstone.
LEMMA RemoveCasStep ==
  ASSUME Inv, NEW t \in Threads, RemoveCas(t)
  PROVE  Inv'
<1> USE EntriesAssumption DEF entries, collector
<1> DEFINE p == idx[t]
           c == curr[t]
<1>1. TypeOK /\ HistoryTypes /\ Ownership /\ ThreadState(t)
  BY DEF Inv
<1>2. /\ pc[t] = "cas" /\ op[t] = "remove" /\ table[p] = c
      /\ Store(p, Tombstone) /\ pc' = [pc EXCEPT ![t] = "hit"]
      /\ left_map' = [left_map EXCEPT ![c] = @ + 1] /\ shell' = shell \cup {c}
      /\ UNCHANGED <<key, made, op, target, new, idx, turns, curr, beaten>>
      /\ Collector!Retire(c)
  BY DEF RemoveCas, Goto
<1>3. Active(t) /\ p \in Slots /\ c \in Entries /\ Tombstone \in 0 .. MaxEntries + 1
  BY <1>1, <1>2 DEF Active, ThreadState, TypeOK, Tombstone
<1>4. /\ HistoryTypes' /\ ProbePaths'
      /\ \A u \in Threads : Passed(u)' /\ Remaining(u)'
  BY <1>2, <1>3, StoreStep
<1>5. /\ table' = [table EXCEPT ![p] = Tombstone]
      /\ table'[p] = Tombstone /\ \A i \in Slots : i # p => table'[i] = table[i]
      /\ pc'[t] = "hit"
      /\ \A u \in Threads : u # t => pc'[u] = pc[u]
      /\ guards' = guards /\ freed' = freed /\ early' = early
      /\ retired' = retired \cup {c}
      /\ waits' = [waits EXCEPT ![c] = guards]
  BY <1>1, <1>2, <1>3 DEF Store, TypeOK, Collector!Retire
<1>6. c \notin retired \cup freed \cup shell /\ left_map[c] = 0
  BY <1>2, <1>3, InUse
<1>7. /\ left_map'[c] = 1
      /\ \A e \in Entries : e # c => left_map'[e] = left_map[e]
  BY <1>1, <1>2, <1>3, <1>6 DEF TypeOK
<1>8. TypeOK'
  <2>1. table' \in [Slots -> 0 .. MaxEntries + 1] BY <1>1, <1>3, <1>5 DEF TypeOK
  <2>2. waits' \in [Entries -> SUBSET Threads] BY <1>1, <1>5 DEF TypeOK
  <2>3. retired' \subseteq Entries /\ shell' \subseteq Entries
    BY <1>1, <1>2, <1>3, <1>5 DEF TypeOK
  <2>4. left_map' \in [Entries -> 0 .. 2] BY <1>1, <1>2, <1>3, <1>6 DEF TypeOK
  <2> QED BY <1>1, <1>2, <1>5, <2>1, <2>2, <2>3, <2>4 DEF TypeOK
<1>9. /\ \A u \in Threads : InFlight(u)' <=> InFlight(u)
      /\ ~InFlight(t) /\ ~AllGone /\ ~AllGone' /\ (Undefined => Undefined')
      /\ \A u \in Threads : pc[u] # "gone"
  <2>1. \A u \in Threads : InFlight(u)' <=> InFlight(u)
    BY <1>2, <1>5 DEF InFlight
  <2>2. ~InFlight(t) /\ ~AllGone' /\ (Undefined => Undefined')
    BY <1>2, <1>5 DEF InFlight, AllGone, Undefined
  <2> QED BY <1>3, <2>1, <2>2, InUse
<1>10. ASSUME NEW e \in Entries PROVE InTable(e)' <=> (InTable(e) /\ e # c)
  <2>1. \A i \in Slots : table[i] = c => i = p
    BY <1>1, <1>2, <1>3 DEF Ownership
  <2>2. e # Tombstone BY Words
  <2>3. CASE e = c BY <1>5, <2>1, <2>2, <2>3 DEF InTable
  <2>4. CASE e # c BY <1>2, <1>5, <2>2, <2>4 DEF InTable
  <2> QED BY <2>3, <2>4
<1>11. ASSUME NEW u \in Threads PROVE ThreadState(u)' /\ Protected(u)'
  <2>1. ThreadState(u) /\ Protected(u) BY DEF Inv
  <2>2. CASE u = t
    <3>1. ThreadState(u)' BY <1>2, <1>5, <1>9, <2>1, <2>2, <1>3 DEF ThreadState, Active
    <3>2. Protected(u)' BY <1>5, <2>2 DEF Protected, Looking
    <3> QED BY <3>1, <3>2
  <2>3. CASE u # t
    <3>1. ThreadState(u)'
      BY <1>2, <1>5, <1>9, <2>1, <2>3 DEF ThreadState, Active
    <3>2. Protected(u)'
      <4> SUFFICES ASSUME Looking(u)'
                   PROVE  \/ InTable(curr[u])'
                          \/ curr[u] \in retired' /\ u \in waits'[curr[u]]
                          \/ curr[u] \in freed' /\ curr[u] \in early'
        BY <1>2, <1>5, <2>1, <2>3 DEF Protected, Looking
      <4>1. Looking(u) /\ curr[u] \in Entries /\ Active(u)
        BY <1>2, <1>5, <2>3 DEF Looking, Active
      <4>3. u \in guards BY <2>1, <4>1 DEF ThreadState
      <4>4. CASE curr[u] = c
        <5>1. curr[u] \in retired' /\ waits'[curr[u]] = guards
          BY <1>1, <1>5, <4>1, <4>4 DEF TypeOK
        <5> QED BY <4>3, <5>1
      <4>5. CASE curr[u] # c /\ InTable(curr[u])
        <5>1. InTable(curr[u])' <=> \E i \in Slots : table'[i] = curr[u]
          BY <1>2 DEF InTable
        <5>2. \E i \in Slots : table[i] = curr[u] BY <4>5 DEF InTable
        <5> QED BY <1>2, <1>5, <4>5, <5>1, <5>2
      <4>6. CASE curr[u] # c /\ curr[u] \in retired /\ u \in waits[curr[u]]
        <5>1. waits'[curr[u]] = waits[curr[u]] BY <1>1, <1>5, <4>1, <4>6 DEF TypeOK
        <5> QED BY <1>5, <4>6, <5>1
      <4>7. CASE curr[u] \in freed /\ curr[u] \in early BY <1>5, <4>7
      <4> QED BY <2>1, <4>1, <4>4, <4>5, <4>6, <4>7 DEF Protected
    <3> QED BY <3>1, <3>2
  <2> QED BY <2>2, <2>3
<1>12. Ownership'
  <2>1. ASSUME NEW e \in Entries
        PROVE  (NotAllocated(e) /\ HeldByTable(e) /\ HeldByCollector(e))'
    <3>1. NotAllocated(e) /\ HeldByTable(e) /\ HeldByCollector(e)
      BY <1>1 DEF Ownership
    <3>2. NotAllocated(e)'
      <4> SUFFICES ASSUME e > made PROVE NotAllocated(e)'
        BY <1>2 DEF NotAllocated
      <4>1. e # c BY <1>2, <1>3, <3>1 DEF NotAllocated, InTable
      <4> QED BY <1>2, <1>5, <1>7, <1>10, <3>1, <4>1 DEF NotAllocated
    <3>3. HeldByTable(e)'
      BY <1>2, <1>5, <1>7, <1>9, <1>10, <3>1 DEF HeldByTable
    <3>4. HeldByCollector(e)'
      BY <1>2, <1>5, <1>6, <1>7, <3>1 DEF HeldByCollector
    <3> QED BY <3>2, <3>3, <3>4
  <2>2. ASSUME NEW u \in Threads PROVE HeldByInsert(u)'
    <3> SUFFICES ASSUME InFlight(u)' PROVE HeldByInsert(u)'
      BY DEF HeldByInsert
    <3>1. u # t /\ InFlight(u) BY <1>9
    <3>2. HeldByInsert(u) /\ new[u] \in Entries
      BY <1>1, <3>1 DEF Inv, Ownership, ThreadState
    <3>3. new[u] # c BY <1>2, <1>3, <3>1, <3>2 DEF HeldByInsert, InTable
    <3>4. ~(\E i \in Slots : table'[i] = new[u])
      BY <1>5, <3>1, <3>2, Words DEF HeldByInsert, InTable
    <3> QED BY <1>2, <1>5, <1>7, <3>1, <3>2, <3>3, <3>4 DEF HeldByInsert, InTable
  <2>3. \A u, v \in Threads : InFlight(u)' /\ InFlight(v)' /\ u # v => new'[u] # new'[v]
    BY <1>1, <1>2, <1>9 DEF Ownership
  <2>4. ASSUME NEW e \in Entries, e <= made'
        PROVE  \/ InTable(e)' \/ e \in retired' \/ e \in freed' \/ Undefined'
               \/ \E u \in Threads : InFlight(u)' /\ new'[u] = e
    <3>1. \/ InTable(e) \/ e \in retired \/ e \in freed \/ Undefined
          \/ \E u \in Threads : InFlight(u) /\ new[u] = e
      BY <1>1, <1>2, <2>4 DEF Ownership
    <3> QED BY <1>2, <1>5, <1>9, <1>10, <3>1
  <2>5. \A e \in Entries : left_map'[e] \in {0, 1} /\ (e \in freed' => left_map'[e] = 1)
    BY <1>1, <1>5, <1>6, <1>7 DEF Ownership
  <2>6. \A i, j \in Slots : table'[i] \in Entries /\ table'[i] = table'[j] => i = j
    BY <1>1, <1>3, <1>5, Words DEF Ownership
  <2>7. shell' \subseteq retired' \cup freed'
    BY <1>1, <1>2, <1>5 DEF Ownership
  <2>8. made' > 0 => Threads # {} OBVIOUS
  <2> QED BY <1>9, <2>1, <2>2, <2>3, <2>4, <2>5, <2>6, <2>7, <2>8 DEF Ownership
<1> QED BY <1>4, <1>8, <1>11, <1>12 DEF Inv

-----------------------------------------------------------------------------
(* The ends: of a call, of an entry, of the map *)

\* The guard is dropped; an insert without a place frees its own entry.
LEMMA ReturnStep ==
  ASSUME Inv, NEW t \in Threads, Return(t)
  PROVE  Inv'
<1> USE EntriesAssumption DEF entries, collector
<1> DEFINE n == new[t]
           lost == op[t] = "insert" /\ pc[t] = "miss"
<1>1. TypeOK /\ HistoryTypes /\ Ownership /\ ProbePaths /\ ThreadState(t) /\ HeldByInsert(t)
  BY DEF Inv, Ownership
<1>2. /\ pc[t] \in {"hit", "miss"} /\ pc'[t] = "idle" /\ op'[t] = "get"
      /\ guards' = guards \ {t}
      /\ waits' = [e \in Entries |-> waits[e] \ {t}]
      /\ UNCHANGED <<table, key, shell, made, retired, early, tombed>>
      /\ \A u \in Threads : u # t =>
           /\ pc'[u] = pc[u] /\ op'[u] = op[u] /\ target'[u] = target[u]
           /\ new'[u] = new[u] /\ curr'[u] = curr[u] /\ idx'[u] = idx[u]
           /\ turns'[u] = turns[u] /\ steady'[u] = steady[u] /\ beaten'[u] = beaten[u]
  BY <1>1 DEF Return, Goto, TypeOK, HistoryTypes
<1>3. lost => /\ left_map' = [left_map EXCEPT ![n] = @ + 1] /\ freed' = freed \cup {n}
              /\ InFlight(t) /\ n \in Entries /\ n <= made /\ ~InTable(n)
              /\ n \notin retired \cup freed \cup shell /\ left_map[n] = 0
              /\ left_map'[n] = 1
              /\ \A e \in Entries : e # n => left_map'[e] = left_map[e]
  <2> SUFFICES ASSUME lost
               PROVE  /\ left_map' = [left_map EXCEPT ![n] = @ + 1] /\ freed' = freed \cup {n}
                      /\ InFlight(t) /\ n \in Entries /\ n <= made /\ ~InTable(n)
                      /\ n \notin retired \cup freed \cup shell /\ left_map[n] = 0
                      /\ left_map'[n] = 1
                      /\ \A e \in Entries : e # n => left_map'[e] = left_map[e]
    OBVIOUS
  <2>1. left_map' = [left_map EXCEPT ![n] = @ + 1] /\ freed' = freed \cup {n}
    BY DEF Return, Discard
  <2>2. InFlight(t) BY DEF InFlight
  <2>3. /\ n \in Entries /\ n <= made /\ ~InTable(n)
        /\ n \notin retired \cup freed \cup shell /\ left_map[n] = 0
    BY <1>1, <2>2 DEF ThreadState, HeldByInsert
  <2> QED BY <1>1, <2>1, <2>2, <2>3 DEF TypeOK
<1>4. ~lost => UNCHANGED <<left_map, freed>> /\ ~InFlight(t)
  BY <1>2 DEF Return, Discard, InFlight
<1>5. TypeOK' /\ HistoryTypes'
  <2>1. HistoryTypes' BY <1>1 DEF Return, HistoryTypes
  <2>2. left_map' \in [Entries -> 0 .. 2] /\ freed' \subseteq Entries
    BY <1>1, <1>3, <1>4 DEF TypeOK
  <2>3. 0 \in Slots /\ 0 \in 0 .. Capacity BY SomeSlot DEF Slots
  <2>4. guards' \subseteq Threads /\ waits' \in [Entries -> SUBSET Threads]
    BY <1>1, <1>2 DEF TypeOK
  <2>5. Null \in 0 .. MaxEntries + 1 BY DEF Null
  <2> QED BY <1>1, <2>1, <2>2, <2>3, <2>4, <2>5 DEF TypeOK, Return, Goto
<1>6. Active(t) BY <1>2 DEF Active
<1>7. /\ \A u \in Threads : u # t => (InFlight(u)' <=> InFlight(u))
      /\ ~InFlight(t)' /\ ~AllGone /\ ~AllGone' /\ (Undefined => Undefined')
      /\ \A u \in Threads : pc[u] # "gone"
  <2>1. ~AllGone /\ \A u \in Threads : pc[u] # "gone" BY <1>6, InUse
  <2> QED BY <1>2, <2>1 DEF InFlight, AllGone, Undefined
<1>8. \A e : InTable(e)' <=> InTable(e) BY <1>2 DEF InTable
<1>9. \A k : Holding(k)' = Holding(k) BY <1>2 DEF Holding
<1>10. \A i, k : Passable(i, k)' <=> Passable(i, k) BY <1>2 DEF Passable
<1>11. ProbePaths' BY <1>1, <1>2, <1>9, <1>10 DEF ProbePaths, Earlier
<1>12. ThreadState(t)' /\ Protected(t)' /\ Passed(t)' /\ Remaining(t)'
  BY <1>2, <1>7 DEF ThreadState, Protected, Passed, Remaining, Active, Looking
<1>13. ASSUME NEW u \in Threads, u # t
       PROVE  ThreadState(u)' /\ Protected(u)' /\ Passed(u)' /\ Remaining(u)'
  <2>1. ThreadState(u) /\ Protected(u) /\ Passed(u) /\ Remaining(u) BY DEF Inv
  <2>2. /\ Active(u)' <=> Active(u)
        /\ Looking(u)' <=> Looking(u)
        /\ Mismatch(u)' <=> Mismatch(u)
    BY <1>2, <1>13 DEF Active, Looking, Mismatch
  <2>3. ThreadState(u)' BY <1>2, <1>7, <1>13, <2>1, <2>2 DEF ThreadState
  <2>4. Protected(u)'
    <3>1. curr[u] \in Entries => (u \in waits'[curr[u]] <=> u \in waits[curr[u]])
      BY <1>2, <1>13
    <3>2. curr[u] \in freed => curr[u] \in freed' BY <1>3, <1>4
    <3> QED BY <1>2, <1>8, <1>13, <2>1, <2>2, <3>1, <3>2 DEF Protected, Looking
  <2>5. Passed(u)' BY <1>2, <1>7, <1>10, <1>13, <2>1, <2>2 DEF Passed, Earlier
  <2>6. Remaining(u)' BY <1>2, <1>9, <1>13, <2>1, <2>2 DEF Remaining, Earlier
  <2> QED BY <2>3, <2>4, <2>5, <2>6
<1>14. Ownership'
  <2>1. ASSUME NEW e \in Entries
        PROVE  (NotAllocated(e) /\ HeldByTable(e) /\ HeldByCollector(e))'
    <3>1. NotAllocated(e) /\ HeldByTable(e) /\ HeldByCollector(e)
      BY <1>1 DEF Ownership
    <3>2. lost /\ e > made => e # n BY <1>1, <1>3 DEF TypeOK, Entries
    <3> QED BY <1>2, <1>3, <1>4, <1>7, <1>8, <3>1, <3>2
            DEF NotAllocated, HeldByTable, HeldByCollector
  <2>2. ASSUME NEW u \in Threads PROVE HeldByInsert(u)'
    <3> SUFFICES ASSUME InFlight(u)' PROVE HeldByInsert(u)'
      BY DEF HeldByInsert
    <3>1. u # t /\ InFlight(u) BY <1>7
    <3>2. HeldByInsert(u) /\ new[u] \in Entries
      BY <1>1, <3>1 DEF Inv, Ownership, ThreadState
    <3>3. lost => new[u] # n BY <1>1, <1>3, <3>1 DEF Ownership
    <3> QED BY <1>2, <1>3, <1>4, <1>8, <3>1, <3>2, <3>3 DEF HeldByInsert
  <2>3. \A u, v \in Threads : InFlight(u)' /\ InFlight(v)' /\ u # v => new'[u] # new'[v]
    BY <1>1, <1>2, <1>7 DEF Ownership
  <2>4. ASSUME NEW e \in Entries, e <= made'
        PROVE  \/ InTable(e)' \/ e \in retired' \/ e \in freed' \/ Undefined'
               \/ \E u \in Threads : InFlight(u)' /\ new'[u] = e
    <3>1. \/ InTable(e) \/ e \in retired \/ e \in freed \/ Undefined
          \/ \E u \in Threads : InFlight(u) /\ new[u] = e
      BY <1>1, <1>2, <2>4 DEF Ownership
    <3>2. CASE InTable(e) \/ e \in retired \/ e \in freed \/ Undefined
      BY <1>2, <1>3, <1>4, <1>7, <1>8, <3>2
    <3>3. ASSUME NEW u \in Threads, InFlight(u), new[u] = e
          PROVE  e \in freed' \/ \E v \in Threads : InFlight(v)' /\ new'[v] = e
      <4>1. CASE u = t BY <1>3, <1>4, <3>3, <4>1
      <4>2. CASE u # t BY <1>2, <1>7, <3>3, <4>2
      <4> QED BY <4>1, <4>2
    <3> QED BY <3>1, <3>2, <3>3
  <2>5. \A e \in Entries : left_map'[e] \in {0, 1} /\ (e \in freed' => left_map'[e] = 1)
    BY <1>1, <1>3, <1>4 DEF Ownership
  <2>6. \A i, j \in Slots : table'[i] \in Entries /\ table'[i] = table'[j] => i = j
    BY <1>1, <1>2 DEF Ownership
  <2>7. shell' \subseteq retired' \cup freed'
    BY <1>1, <1>2, <1>3, <1>4 DEF Ownership
  <2>8. made' > 0 => Threads # {} OBVIOUS
  <2> QED BY <1>7, <2>1, <2>2, <2>3, <2>4, <2>5, <2>6, <2>7, <2>8 DEF Ownership
<1> QED BY <1>5, <1>11, <1>12, <1>13, <1>14 DEF Inv

\* The collector runs a destructor: nobody looks at the entry any more, or it
\* is freed too early.
LEMMA DestructorStep ==
  ASSUME Inv, NEW x \in Entries, Destructor(x)
  PROVE  Inv'
<1> USE EntriesAssumption DEF entries, collector
<1>1. TypeOK /\ HistoryTypes /\ Ownership /\ ProbePaths
  BY DEF Inv
<1>2. /\ x \in retired
      /\ early' = early \/ early' = early \cup {n \in {x} : waits[n] # {}}
      /\ waits[x] # {} => x \in early'
      /\ retired' = retired \ {x} /\ freed' = freed \cup {x}
      /\ UNCHANGED <<guards, waits, table, key, shell, made, op, pc, target, new, idx,
                     turns, curr, tombed, steady, beaten>>
  BY DEF Destructor, Collector!Free, Collector!FreeEarly
<1>3. HeldByCollector(x) /\ HeldByTable(x) /\ NotAllocated(x) BY <1>1 DEF Ownership
<1>4. /\ left_map'[x] = 1 /\ left_map' \in [Entries -> 0 .. 2]
      /\ \A e \in Entries : e # x => left_map'[e] = left_map[e]
  <2>1. left_map[x] = IF x \in shell THEN 1 ELSE 0 BY <1>2, <1>3 DEF HeldByCollector
  <2>2. left_map' = IF x \in shell THEN left_map ELSE [left_map EXCEPT ![x] = @ + 1]
    BY DEF Destructor
  <2> QED BY <1>1, <2>1, <2>2 DEF TypeOK
<1>5. TypeOK' /\ HistoryTypes'
  BY <1>1, <1>2, <1>4 DEF TypeOK, HistoryTypes
<1>6. /\ \A u \in Threads : /\ InFlight(u)' <=> InFlight(u)
                            /\ Active(u)' <=> Active(u)
                            /\ Looking(u)' <=> Looking(u)
                            /\ Mismatch(u)' <=> Mismatch(u)
      /\ (AllGone' <=> AllGone) /\ (Undefined' <=> Undefined)
  BY <1>2 DEF InFlight, Active, Looking, Mismatch, AllGone, Undefined
<1>7. \A e : InTable(e)' <=> InTable(e) BY <1>2 DEF InTable
<1>8. \A k : Holding(k)' = Holding(k) BY <1>2 DEF Holding
<1>9. \A i, k : Passable(i, k)' <=> Passable(i, k) BY <1>2 DEF Passable
<1>10. ProbePaths' BY <1>1, <1>2, <1>8, <1>9 DEF ProbePaths, Earlier
<1>11. ASSUME NEW u \in Threads
       PROVE  ThreadState(u)' /\ Protected(u)' /\ Passed(u)' /\ Remaining(u)'
  <2>1. ThreadState(u) /\ Protected(u) /\ Passed(u) /\ Remaining(u) BY DEF Inv
  <2>2. ThreadState(u)' BY <1>2, <1>6, <2>1 DEF ThreadState
  <2>3. Protected(u)' BY <1>2, <1>6, <1>7, <2>1 DEF Protected
  <2>4. Passed(u)' BY <1>2, <1>6, <1>9, <2>1 DEF Passed, Earlier
  <2>5. Remaining(u)' BY <1>2, <1>6, <1>8, <2>1 DEF Remaining, Earlier
  <2> QED BY <2>2, <2>3, <2>4, <2>5
<1>12. ~InTable(x) /\ x \notin freed /\ x <= made
  BY <1>1, <1>2, <1>3
     DEF HeldByTable, HeldByCollector, NotAllocated, TypeOK, Entries
<1>13. Ownership'
  <2>1. ASSUME NEW e \in Entries
        PROVE  (NotAllocated(e) /\ HeldByTable(e) /\ HeldByCollector(e))'
    <3>1. NotAllocated(e) /\ HeldByTable(e) /\ HeldByCollector(e)
      BY <1>1 DEF Ownership
    <3>2. e > made => e # x BY <1>1, <1>12 DEF TypeOK, Entries
    <3> QED BY <1>2, <1>4, <1>6, <1>7, <1>12, <3>1, <3>2
            DEF NotAllocated, HeldByTable, HeldByCollector
  <2>2. ASSUME NEW u \in Threads PROVE HeldByInsert(u)'
    <3> SUFFICES ASSUME InFlight(u)' PROVE HeldByInsert(u)'
      BY DEF HeldByInsert
    <3>1. HeldByInsert(u) /\ new[u] \in Entries /\ InFlight(u)
      BY <1>1, <1>6 DEF Inv, Ownership, ThreadState
    <3>2. new[u] # x BY <1>2, <3>1 DEF HeldByInsert
    <3> QED BY <1>2, <1>4, <1>7, <3>1, <3>2 DEF HeldByInsert
  <2>3. \A e \in Entries : left_map'[e] \in {0, 1} /\ (e \in freed' => left_map'[e] = 1)
    BY <1>1, <1>2, <1>4 DEF Ownership
  <2>4. shell' \subseteq retired' \cup freed'
    BY <1>1, <1>2 DEF Ownership
  <2>5. ASSUME NEW e \in Entries, e <= made'
        PROVE  \/ InTable(e)' \/ e \in retired' \/ e \in freed' \/ Undefined'
               \/ \E u \in Threads : InFlight(u)' /\ new'[u] = e
    <3>1. \/ InTable(e) \/ e \in retired \/ e \in freed \/ Undefined
          \/ \E u \in Threads : InFlight(u) /\ new[u] = e
      BY <1>1, <1>2, <2>5 DEF Ownership
    <3> QED BY <1>2, <1>6, <1>7, <3>1
  <2> QED BY <1>1, <1>2, <1>6, <1>7, <2>1, <2>2, <2>3, <2>4, <2>5 DEF Ownership
<1> QED BY <1>5, <1>10, <1>11, <1>13 DEF Inv

\* Drop of the map takes the values of the entries that are still in it.
LEMMA DropMapStep ==
  ASSUME Inv, DropMap
  PROVE  Inv'
<1> USE EntriesAssumption DEF entries, collector
<1> DEFINE held == {e \in Entries : \E i \in Slots : table[i] = e}
<1>1. TypeOK /\ HistoryTypes /\ Ownership /\ ProbePaths
  BY DEF Inv
<1>2. /\ \A t \in Threads : pc[t] = "idle"
      /\ pc' = [t \in Threads |-> "gone"]
      /\ left_map' = [e \in Entries |-> left_map[e] + IF e \in held THEN 1 ELSE 0]
      /\ freed' = freed \cup held
      /\ UNCHANGED <<table, key, shell, made, op, target, new, idx, turns, curr,
                     guards, retired, waits, early, tombed, steady, beaten>>
  BY DEF DropMap
<1>3. \A e \in Entries : e \in held <=> InTable(e) BY DEF InTable
<1>4. \A e \in Entries : /\ NotAllocated(e) /\ HeldByTable(e) /\ HeldByCollector(e)
                         /\ e \in freed => left_map[e] = 1
  BY <1>1 DEF Ownership
<1>5. \A e \in Entries : InTable(e) => e <= made
  BY <1>1, <1>4 DEF NotAllocated, TypeOK, Entries
<1>6. \A e \in Entries : InTable(e) => e \notin freed /\ left_map[e] = 0
  <2> SUFFICES ASSUME NEW e \in Entries, InTable(e) PROVE e \notin freed /\ left_map[e] = 0
    OBVIOUS
  <2>1. made > 0 BY <1>1, <1>5 DEF TypeOK, Entries
  <2>2. ~AllGone BY <1>1, <1>2, <2>1 DEF Ownership, AllGone
  <2> QED BY <1>4, <2>2 DEF HeldByTable
<1>7. \A e \in Entries : left_map'[e] = IF InTable(e) THEN 1 ELSE left_map[e]
  BY <1>1, <1>2, <1>3, <1>6 DEF TypeOK
<1> HIDE DEF held
<1>8. TypeOK' /\ HistoryTypes'
  <2>1. left_map' \in [Entries -> 0 .. 2]
    <3>1. \A e \in Entries : left_map'[e] \in 0 .. 2 BY <1>1, <1>7 DEF TypeOK
    <3> QED BY <1>2, <3>1
  <2>2. freed' \subseteq Entries BY <1>1, <1>2 DEF TypeOK, held
  <2> QED BY <1>1, <1>2, <2>1, <2>2 DEF TypeOK, HistoryTypes
<1>9. /\ \A u \in Threads : ~InFlight(u) /\ ~InFlight(u)' /\ ~Active(u)' /\ ~Looking(u)'
      /\ AllGone' /\ ~Undefined
  BY <1>2 DEF InFlight, Active, Looking, AllGone, Undefined
<1>10. \A e : InTable(e)' <=> InTable(e) BY <1>2 DEF InTable
<1>11. \A k : Holding(k)' = Holding(k) BY <1>2 DEF Holding
<1>12. \A i, k : Passable(i, k)' <=> Passable(i, k) BY <1>2 DEF Passable
<1>13. ProbePaths' BY <1>1, <1>2, <1>11, <1>12 DEF ProbePaths, Earlier
<1>14. \A u \in Threads : ThreadState(u)' /\ Protected(u)' /\ Passed(u)' /\ Remaining(u)'
  BY <1>2, <1>9 DEF ThreadState, Protected, Passed, Remaining
<1>15. Ownership'
  <2>1. ASSUME NEW e \in Entries
        PROVE  (NotAllocated(e) /\ HeldByTable(e) /\ HeldByCollector(e))'
    <3>1. NotAllocated(e)' BY <1>2, <1>3, <1>4, <1>7, <1>10 DEF NotAllocated
    <3>2. HeldByTable(e)' BY <1>2, <1>3, <1>4, <1>9, <1>10 DEF HeldByTable
    <3>3. HeldByCollector(e)'
      BY <1>2, <1>3, <1>4, <1>7 DEF HeldByCollector, HeldByTable
    <3> QED BY <3>1, <3>2, <3>3
  <2>2. \A u \in Threads : HeldByInsert(u)' BY <1>9 DEF HeldByInsert
  <2>3. \A e \in Entries : left_map'[e] \in {0, 1} /\ (e \in freed' => left_map'[e] = 1)
    BY <1>1, <1>2, <1>3, <1>4, <1>7 DEF Ownership
  <2>4. \A e \in Entries : InTable(e)' => e \in freed' BY <1>2, <1>3, <1>10
  <2>5. \A e \in Entries : e <= made' => InTable(e)' \/ e \in retired' \/ e \in freed'
    BY <1>1, <1>2, <1>9, <1>10 DEF Ownership
  <2> QED BY <1>1, <1>2, <1>9, <2>1, <2>2, <2>3, <2>4, <2>5 DEF Ownership
<1> QED BY <1>8, <1>13, <1>14, <1>15 DEF Inv

-----------------------------------------------------------------------------
(* Theorems *)

\* A step that changes nothing.
LEMMA StutterStep ==
  ASSUME Inv, UNCHANGED vars
  PROVE  Inv'
<1> USE DEF vars, entries, collector
<1>1. TypeOK' /\ HistoryTypes' BY DEF Inv, TypeOK, HistoryTypes
<1>2. /\ \A u \in Threads : /\ InFlight(u)' <=> InFlight(u)
                            /\ Active(u)' <=> Active(u)
                            /\ Looking(u)' <=> Looking(u)
                            /\ Mismatch(u)' <=> Mismatch(u)
      /\ (AllGone' <=> AllGone) /\ (Undefined' <=> Undefined)
  BY DEF InFlight, Active, Looking, Mismatch, AllGone, Undefined
<1>3. \A e : InTable(e)' <=> InTable(e) BY DEF InTable
<1>4. \A k : Holding(k)' = Holding(k) BY DEF Holding
<1>5. \A i, k : Passable(i, k)' <=> Passable(i, k) BY DEF Passable
<1>6. ProbePaths' BY <1>4, <1>5 DEF Inv, ProbePaths, Earlier
<1>7. ASSUME NEW u \in Threads
      PROVE  ThreadState(u)' /\ Protected(u)' /\ Passed(u)' /\ Remaining(u)'
  <2>1. ThreadState(u) /\ Protected(u) /\ Passed(u) /\ Remaining(u) BY DEF Inv
  <2>2. ThreadState(u)' BY <1>2, <2>1 DEF ThreadState
  <2>3. Protected(u)' BY <1>2, <1>3, <2>1 DEF Protected
  <2>4. Passed(u)' BY <1>2, <1>5, <2>1 DEF Passed, Earlier
  <2>5. Remaining(u)' BY <1>2, <1>4, <2>1 DEF Remaining, Earlier
  <2> QED BY <2>2, <2>3, <2>4, <2>5
<1>8. Ownership'
  BY <1>2, <1>3 DEF Inv, Ownership, NotAllocated, HeldByTable, HeldByCollector,
                    HeldByInsert
<1> QED BY <1>1, <1>6, <1>7, <1>8 DEF Inv

\* The invariant holds in every state of the map, whatever the threads, keys,
\* hash function, capacity and number of inserts are.
THEOREM MapInvariant == Spec => []Inv
<1>1. Init => Inv BY InitInv
<1>2. Inv /\ [Next]_vars => Inv'
  <2> SUFFICES ASSUME Inv, [Next]_vars PROVE Inv'
    OBVIOUS
  <2>1. CASE UNCHANGED vars BY <2>1, StutterStep
  <2>2. ASSUME NEW t \in Threads, NEW k \in Keys, Lookup(t, k) \/ Insert(t, k) PROVE Inv'
    BY <2>2, LookupStep, InsertStep
  <2>3. ASSUME NEW t \in Threads,
               \/ Load(t) \/ Look(t) \/ ReadDone(t) \/ CasFails(t) \/ InsertCas(t)
               \/ RemoveCas(t) \/ OutOfTurns(t) \/ Return(t) \/ Dangling(t)
        PROVE  Inv'
    BY <2>3, LoadStep, LookStep, ReadDoneStep, CasFailsStep, InsertCasStep, RemoveCasStep,
       OutOfTurnsStep, ReturnStep, DanglingStep
  <2>4. ASSUME NEW e \in Entries, Destructor(e) PROVE Inv' BY <2>4, DestructorStep
  <2>5. CASE DropMap BY <2>5, DropMapStep
  <2> QED BY <2>1, <2>2, <2>3, <2>4, <2>5 DEF Next
<1> QED BY <1>1, <1>2, PTL DEF Spec

\* Every variable keeps its type: no probe leaves the table, the loop counter
\* does not go below zero, and no value leaves the map a third time.
THEOREM MapTypes == Spec => []TypeOK
<1>1. Inv => TypeOK BY DEF Inv
<1> QED BY <1>1, MapInvariant, PTL

\* Inserts that race for a slot never give a key a second entry: only the
\* reuse of a tombstone does (map.rs:87).
THEOREM RacingInsertsDoNotDuplicate == Spec => []DuplicateOnlyOverTombstone
<1>1. Inv => DuplicateOnlyOverTombstone
  <2> SUFFICES ASSUME Inv, NEW k \in Keys, NEW i \in Holding(k), NEW j \in Holding(k),
                      Earlier(i, j, k)
               PROVE  i \in tombed
    BY DEF DuplicateOnlyOverTombstone
  <2>1. Passable(i, k) BY DEF Inv, ProbePaths, Holding
  <2> QED BY <2>1 DEF Passable, Holding
<1> QED BY <1>1, MapInvariant, PTL

\* Under its guard a thread looks at a freed entry only after an early free of
\* the collector (map.rs:66, 101, 147).
THEOREM GuardedEntriesLive == Spec => []OnlyRemoveTakesInUse
<1>1. Inv => OnlyRemoveTakesInUse
  <2> SUFFICES ASSUME Inv, NEW t \in Threads, Looking(t)
               PROVE  /\ curr[t] \in freed => curr[t] \in early
                      /\ left_map[curr[t]] = 0 \/ curr[t] \in shell \cup early
    BY DEF OnlyRemoveTakesInUse
  <2>1. Active(t) /\ curr[t] \in Entries BY DEF Looking, Active
  <2>2. CASE InTable(curr[t]) BY <2>1, <2>2, InUse DEF InTable
  <2>3. CASE curr[t] \in retired
    BY <2>1, <2>3 DEF Inv, Ownership, HeldByCollector
  <2>4. CASE curr[t] \in early BY <2>4
  <2> QED BY <2>2, <2>3, <2>4 DEF Inv, Protected
<1> QED BY <1>1, MapInvariant, PTL

\* No value of the map is dropped twice or lost.
THEOREM ValuesLeaveOnce == Spec => []OwnedOnce
<1>1. Inv => OwnedOnce
  <2> SUFFICES ASSUME Inv, NEW e \in Entries
               PROVE  /\ left_map[e] <= 1
                      /\ e \in freed => left_map[e] = 1 /\ e \notin retired
                      /\ (\E i \in Slots : table[i] = e) =>
                           /\ e \notin retired
                           /\ e \in freed => \A t \in Threads : pc[t] = "gone"
                      /\ \A t \in Threads :
                           (pc[t] = "gone" /\ e <= made) => e \in freed \cup retired
    BY DEF OwnedOnce
  <2>1. /\ TypeOK /\ Ownership /\ NotAllocated(e) /\ HeldByTable(e) /\ HeldByCollector(e)
        /\ e \in freed => left_map[e] = 1
    BY DEF Inv, Ownership
  <2>3. left_map[e] <= 1 BY <2>1 DEF Ownership
  <2>4. e \in freed => e \notin retired BY <2>1 DEF HeldByCollector
  <2>5. InTable(e) => e \notin retired /\ (e \in freed => AllGone)
    BY <2>1 DEF HeldByTable
  <2>6. ASSUME NEW t \in Threads, pc[t] = "gone", e <= made
        PROVE  e \in freed \cup retired
    <3>1. AllGone BY <2>6 DEF Inv, ThreadState
    <3>2. ~Undefined /\ \A u \in Threads : ~InFlight(u)
      BY <3>1 DEF AllGone, InFlight, Undefined
    <3>3. InTable(e) \/ e \in retired \/ e \in freed BY <2>1, <2>6, <3>2 DEF Ownership
    <3> QED BY <2>1, <3>1, <3>3 DEF Ownership
  <2> QED BY <2>1, <2>3, <2>4, <2>5, <2>6 DEF InTable, AllGone
<1> QED BY <1>1, MapInvariant, PTL

\* A search that gives up without having lost a compare-exchange has missed
\* nothing that was there all the time.
THEOREM SearchesAreComplete == Spec => []ProbesMissNothing
<1>1. Inv => ProbesMissNothing
  <2> SUFFICES ASSUME Inv, NEW t \in Threads, pc[t] = "miss", steady[t] # {}, ~beaten[t]
               PROVE  FALSE
    BY DEF ProbesMissNothing
  <2>1. Active(t) /\ Remaining(t) BY DEF Active, Inv
  <2> QED BY <2>1 DEF Remaining
<1> QED BY <1>1, MapInvariant, PTL
=============================================================================
