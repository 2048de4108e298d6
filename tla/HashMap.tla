------------------------------ MODULE HashMap -------------------------------
(***************************************************************************)
(* ConcurrentHashMap of tier2_concurrency/src/map.rs: open addressing with *)
(* linear probing, tombstones, and entries that are retired through the    *)
(* collector.  One action is one access to the table, or the look at the   *)
(* entry it led to.                                                        *)
(*                                                                         *)
(* The collector is taken by its promise, GracePeriod, with the early      *)
(* frees the code has: a retired entry may be freed under a guard at any   *)
(* time, be it by a defer whose bags are full (ebr.rs:202-204), the        *)
(* destroy of its retirer, two retirers that advance the epoch (see Ebr)   *)
(* or a get inside a get's callback that unpins the slot.  A thread that   *)
(* goes on with a pointer to a freed entry ends the behaviour.             *)
(*                                                                         *)
(* Entries are numbered in the order they are allocated and not reused; a  *)
(* value is named by its entry.  Accesses are sequentially consistent.     *)
(***************************************************************************)
EXTENDS Integers, FiniteSets

CONSTANTS
  Threads,
  Keys,
  Hash,       \* Hash[k]: the slot at which the search for k begins
  Capacity,   \* number of slots
  MaxEntries  \* bound: number of inserts

ASSUME MapCapacityAssumption == Capacity \in Nat \ {0} /\ \E n \in 0 .. Capacity : Capacity = 2 ^ n
ASSUME HashAssumption == Hash \in [Keys -> 0 .. Capacity - 1]
ASSUME EntriesAssumption == MaxEntries \in Nat

Slots == 0 .. Capacity - 1
Entries == 1 .. MaxEntries
Null == 0
Tombstone == MaxEntries + 1
Free == {Null, Tombstone}   \* what insert may put its entry over
NoKey == "none"

VARIABLES
  table,    \* table[i]: an entry, Null or Tombstone
  key,      \* key[e]
  left_map, \* left_map[e]: how often the value of e was dropped or handed out
  shell,    \* the entries to be freed without their value
  made,     \* number of entries allocated
  op,       \* op[t]: the operation of t
  pc,       \* pc[t]: where t is in it
  target,   \* target[t]: the key of the operation
  new,      \* new[t]: the entry insert brings
  idx,      \* idx[t]: the slot t looks at
  turns,    \* turns[t]: turns left in the loop over the slots
  curr,     \* curr[t]: the word t has loaded from the slot
  guards, retired, waits, freed, early,  \* the collector: see GracePeriod
  tombed,   \* history: the slots that ever held a tombstone
  steady,   \* history: steady[t], the slots that have held the key (for
            \* insert: that have been free) ever since t's operation began
  beaten    \* history: beaten[t], t's operation has lost a compare-exchange

Collector == INSTANCE GracePeriod WITH Nodes <- Entries

collector == <<guards, retired, waits, freed, early>>
entries == <<key, left_map, shell, made>>
vars == <<table, entries, op, pc, target, new, idx, turns, curr, collector,
          tombed, steady, beaten>>

TypeOK ==
  /\ table \in [Slots -> 0 .. MaxEntries + 1]
  /\ key \in [Entries -> Keys \cup {NoKey}]
  /\ left_map \in [Entries -> 0 .. 2]
  /\ shell \subseteq Entries /\ made \in 0 .. MaxEntries
  /\ op \in [Threads -> {"get", "insert", "remove"}]
  /\ pc \in [Threads -> {"idle", "load", "look", "cas", "read", "hit", "miss", "gone", "undefined"}]
  /\ target \in [Threads -> Keys \cup {NoKey}]
  /\ new \in [Threads -> Entries \cup {Null}]
  /\ idx \in [Threads -> Slots] /\ turns \in [Threads -> 0 .. Capacity]
  /\ curr \in [Threads -> 0 .. MaxEntries + 1]
  /\ guards \subseteq Threads
  /\ retired \subseteq Entries /\ freed \subseteq Entries /\ early \subseteq Entries
  /\ waits \in [Entries -> SUBSET Threads]

Goto(t, l) == pc' = [pc EXCEPT ![t] = l]

\* The slots that hold key k, and the ones an insert can take.
Holding(k) == {i \in Slots : table[i] \in Entries /\ key[table[i]] = k}
Open == {i \in Slots : table[i] \in Free}

\* What is left of steady[t] after a step that may have changed the table.
Watch(t) ==
  IF op[t] = "insert" THEN {i \in steady[t] : table'[i] \in Free}
  ELSE {i \in steady[t] : table'[i] \in Entries /\ key[table'[i]] = target[t]}

\* Slot i gets word w.
Store(i, w) ==
  /\ table' = [table EXCEPT ![i] = w]
  /\ tombed' = IF w = Tombstone THEN tombed \cup {i} ELSE tombed
  /\ steady' = [t \in Threads |-> Watch(t)]

-----------------------------------------------------------------------------
(* Faulty variants of definitions below, each a plausible slip *)

\* The probe is not wrapped round.
Advance_Unmasked(t) ==
  /\ idx' = [idx EXCEPT ![t] = @ + 1]
  /\ turns' = [turns EXCEPT ![t] = @ - 1]
  /\ Goto(t, "load")

\* A lost compare-exchange moves on to the next slot.
CasFails_Advances(t) ==
  /\ pc[t] = "cas" /\ table[idx[t]] # curr[t]
  /\ idx' = [idx EXCEPT ![t] = (@ + 1) % Capacity]
  /\ turns' = [turns EXCEPT ![t] = @ - 1]
  /\ beaten' = [beaten EXCEPT ![t] = TRUE]
  /\ Goto(t, "load")
  /\ UNCHANGED <<table, entries, op, target, new, curr, collector, tombed, steady>>

\* The replaced entry is dropped on the spot instead of deferred.
InsertCas_FreesAtOnce(t) ==
  /\ pc[t] = "cas" /\ op[t] = "insert"
  /\ table[idx[t]] = curr[t]
  /\ Store(idx[t], new[t])
  /\ IF curr[t] \in Free THEN UNCHANGED <<left_map, freed>>
     ELSE /\ left_map' = [left_map EXCEPT ![curr[t]] = @ + 1]
          /\ freed' = freed \cup {curr[t]}
  /\ Goto(t, "hit")
  /\ UNCHANGED <<key, shell, made, guards, retired, waits, early, op, target, new, idx,
                 turns, curr, beaten>>

\* remove retires the entry with drop_entry_node.
RemoveCas_DropsNode(t) ==
  /\ pc[t] = "cas" /\ op[t] = "remove"
  /\ table[idx[t]] = curr[t]
  /\ Store(idx[t], Tombstone)
  /\ left_map' = [left_map EXCEPT ![curr[t]] = @ + 1]
  /\ Collector!Retire(curr[t])
  /\ Goto(t, "hit")
  /\ UNCHANGED <<shell, key, made, op, target, new, idx, turns, curr, beaten>>

\* remove leaves an empty slot.
RemoveCas_StoresNull(t) ==
  /\ pc[t] = "cas" /\ op[t] = "remove"
  /\ table[idx[t]] = curr[t]
  /\ Store(idx[t], Null)
  /\ left_map' = [left_map EXCEPT ![curr[t]] = @ + 1]
  /\ shell' = shell \cup {curr[t]}
  /\ Collector!Retire(curr[t])
  /\ Goto(t, "hit")
  /\ UNCHANGED <<key, made, op, target, new, idx, turns, curr, beaten>>

-----------------------------------------------------------------------------
Init ==
  /\ table = [i \in Slots |-> Null]
  /\ key = [e \in Entries |-> NoKey]
  /\ left_map = [e \in Entries |-> 0]
  /\ shell = {} /\ made = 0
  /\ op = [t \in Threads |-> "get"]
  /\ pc = [t \in Threads |-> "idle"]
  /\ target = [t \in Threads |-> NoKey]
  /\ new = [t \in Threads |-> Null]
  /\ idx = [t \in Threads |-> 0]
  /\ turns = [t \in Threads |-> 0]
  /\ curr = [t \in Threads |-> Null]
  /\ Collector!Init
  /\ tombed = {}
  /\ steady = [t \in Threads |-> {}]
  /\ beaten = [t \in Threads |-> FALSE]

\* The guard is taken before the first load.
Begin(t, o, k) ==
  /\ pc[t] = "idle"
  /\ Collector!Pin(t)
  /\ op' = [op EXCEPT ![t] = o]
  /\ target' = [target EXCEPT ![t] = k]
  /\ idx' = [idx EXCEPT ![t] = Hash[k]]
  /\ turns' = [turns EXCEPT ![t] = Capacity]
  /\ steady' = [steady EXCEPT ![t] = IF o = "insert" THEN Open ELSE Holding(k)]
  /\ Goto(t, "load")
  /\ UNCHANGED <<table, curr, tombed, beaten>>

Lookup(t, k) ==
  /\ \E o \in {"get", "remove"} : Begin(t, o, k)
  /\ UNCHANGED <<entries, new>>

Insert(t, k) ==
  /\ Begin(t, "insert", k)
  /\ made < MaxEntries
  /\ made' = made + 1
  /\ new' = [new EXCEPT ![t] = made']
  /\ key' = [key EXCEPT ![made'] = k]
  /\ UNCHANGED <<left_map, shell>>

\* The next slot is for the next turn.
Advance(t) ==
  /\ idx' = [idx EXCEPT ![t] = (@ + 1) % Capacity]
  /\ turns' = [turns EXCEPT ![t] = @ - 1]
  /\ Goto(t, "load")

\* A turn of the loop begins with a load of the slot.
Load(t) ==
  LET e == table[idx[t]]
  IN  /\ pc[t] = "load" /\ turns[t] > 0
      /\ \/ /\ e = Null /\ op[t] # "insert"
            /\ Goto(t, "miss") /\ UNCHANGED <<idx, turns>>
         \/ /\ e = Tombstone /\ op[t] # "insert"
            /\ Advance(t)
         \/ /\ e \in Free /\ op[t] = "insert"
            /\ Goto(t, "cas") /\ UNCHANGED <<idx, turns>>
         \/ /\ e \in Entries
            /\ Goto(t, "look") /\ UNCHANGED <<idx, turns>>
      /\ curr' = [curr EXCEPT ![t] = IF pc'[t] \in {"cas", "look"} THEN e ELSE Null]
      /\ UNCHANGED <<table, entries, op, target, new, collector, tombed, steady, beaten>>

\* The pointer t has loaded is still good.
Valid(t) == curr[t] \notin freed

\* The entry is looked into for its key, which never changes.
Look(t) ==
  LET matches == key[curr[t]] = target[t]
  IN  /\ pc[t] = "look" /\ Valid(t)
      /\ \/ /\ matches
            /\ Goto(t, IF op[t] = "get" THEN "read" ELSE "cas")
            /\ UNCHANGED <<idx, turns, curr>>
         \/ /\ ~matches
            /\ Advance(t)
            /\ curr' = [curr EXCEPT ![t] = Null]
      /\ UNCHANGED <<table, entries, op, target, new, collector, tombed, steady, beaten>>

\* The entry was freed under the thread: what the key comparison, the callback
\* or the compare-exchange make of it, and everything after, is undefined.
Dangling(t) ==
  /\ pc[t] \in {"look", "read", "cas"} /\ ~Valid(t)
  /\ pc' = [u \in Threads |-> "undefined"]
  /\ UNCHANGED <<table, entries, op, target, new, idx, turns, curr, collector, tombed, steady, beaten>>

\* get has called f with the value.
ReadDone(t) ==
  /\ pc[t] = "read" /\ Valid(t)
  /\ Goto(t, "hit")
  /\ UNCHANGED <<table, entries, op, target, new, idx, turns, curr, collector, tombed, steady, beaten>>

\* The compare-exchange fails: the same slot again, in the next turn.
CasFails(t) ==
  /\ pc[t] = "cas" /\ Valid(t)
  /\ table[idx[t]] # curr[t]
  /\ turns' = [turns EXCEPT ![t] = @ - 1]
  /\ beaten' = [beaten EXCEPT ![t] = TRUE]
  /\ Goto(t, "load")
  /\ UNCHANGED <<table, entries, op, target, new, idx, curr, collector, tombed, steady>>

\* The old entry is retired with drop_entry_node.
InsertCas(t) ==
  /\ pc[t] = "cas" /\ op[t] = "insert"
  /\ table[idx[t]] = curr[t]
  /\ Store(idx[t], new[t])
  /\ IF curr[t] \in Free THEN UNCHANGED collector ELSE Collector!Retire(curr[t])
  /\ Goto(t, "hit")
  /\ UNCHANGED <<entries, op, target, new, idx, turns, curr, beaten>>

\* The value moves to the caller, the entry is retired with free_entry_shell.
RemoveCas(t) ==
  /\ pc[t] = "cas" /\ op[t] = "remove"
  /\ table[idx[t]] = curr[t]
  /\ Store(idx[t], Tombstone)
  /\ left_map' = [left_map EXCEPT ![curr[t]] = @ + 1]
  /\ shell' = shell \cup {curr[t]}
  /\ Collector!Retire(curr[t])
  /\ Goto(t, "hit")
  /\ UNCHANGED <<key, made, op, target, new, idx, turns, curr, beaten>>

\* The loop has run out of turns.
OutOfTurns(t) ==
  /\ pc[t] = "load" /\ turns[t] = 0
  /\ Goto(t, "miss")
  /\ UNCHANGED <<table, entries, op, target, new, idx, turns, curr, collector, tombed, steady, beaten>>

\* An insert that found no place drops its entry with the value.
Discard(t) ==
  IF op[t] = "insert" /\ pc[t] = "miss"
  THEN /\ left_map' = [left_map EXCEPT ![new[t]] = @ + 1]
       /\ freed' = freed \cup {new[t]}
  ELSE UNCHANGED <<left_map, freed>>

\* The guard is dropped.
Return(t) ==
  /\ pc[t] \in {"hit", "miss"}
  /\ Discard(t)
  /\ guards' = guards \ {t}
  /\ waits' = [e \in Entries |-> waits[e] \ {t}]
  /\ Goto(t, "idle")
  /\ op' = [op EXCEPT ![t] = "get"]
  /\ target' = [target EXCEPT ![t] = NoKey]
  /\ new' = [new EXCEPT ![t] = Null]
  /\ curr' = [curr EXCEPT ![t] = Null]
  /\ idx' = [idx EXCEPT ![t] = 0]
  /\ turns' = [turns EXCEPT ![t] = 0]
  /\ steady' = [steady EXCEPT ![t] = {}]
  /\ beaten' = [beaten EXCEPT ![t] = FALSE]
  /\ UNCHANGED <<table, key, shell, made, retired, early, tombed>>

\* The collector runs the destructor of a retired entry, in time or too early.
Destructor(e) ==
  /\ \A t \in Threads : pc[t] # "undefined"
  /\ Collector!Free({e}) \/ Collector!FreeEarly({e})
  /\ left_map' = IF e \in shell THEN left_map ELSE [left_map EXCEPT ![e] = @ + 1]
  /\ UNCHANGED <<table, key, shell, made, op, pc, target, new, idx, turns, curr,
                 tombed, steady, beaten>>

\* Drop of the map, which nobody uses any more.
DropMap ==
  LET held == {e \in Entries : \E i \in Slots : table[i] = e}
  IN  /\ \A t \in Threads : pc[t] = "idle"
      /\ pc' = [t \in Threads |-> "gone"]
      /\ left_map' = [e \in Entries |-> left_map[e] + IF e \in held THEN 1 ELSE 0]
      /\ freed' = freed \cup held
      /\ UNCHANGED <<table, key, shell, made, op, target, new, idx, turns, curr,
                     guards, retired, waits, early, tombed, steady, beaten>>

Next ==
  \/ \E t \in Threads :
       \/ \E k \in Keys : Lookup(t, k) \/ Insert(t, k)
       \/ Load(t) \/ Look(t) \/ ReadDone(t) \/ CasFails(t) \/ InsertCas(t) \/ RemoveCas(t)
       \/ OutOfTurns(t) \/ Return(t) \/ Dangling(t)
  \/ \E e \in Entries : Destructor(e)
  \/ DropMap

Spec == Init /\ [][Next]_vars

-----------------------------------------------------------------------------
(* Properties *)

\* Slot i comes before slot j on the way from the hash of k.
Earlier(i, j, k) ==
  (i + Capacity - Hash[k]) % Capacity < (j + Capacity - Hash[k]) % Capacity

\* A key sits in two slots only if the slot a search meets first once held a
\* tombstone.  insert takes the first free slot without looking for the key
\* further on (map.rs:87), so a reused tombstone gives the key a second entry
\* (and removing it brings the old value back); racing inserts never do.
DuplicateOnlyOverTombstone ==
  \A k \in Keys : \A i, j \in Holding(k) : Earlier(i, j, k) => i \in tombed

\* The word t took from the slot is an entry it goes on with.
Looking(t) == pc[t] \in {"look", "cas", "read"} /\ curr[t] \in Entries

\* An entry that somebody looks at under a guard (map.rs:66, 101, 147), whoever
\* replaces or removes it meanwhile, is freed under them only by one of the
\* collector's early frees; and if its value is gone before, it was moved out
\* by remove (map.rs:156), which waits for no reader.
OnlyRemoveTakesInUse ==
  \A t \in Threads : Looking(t) =>
    /\ curr[t] \in freed => curr[t] \in early
    /\ left_map[curr[t]] = 0 \/ curr[t] \in shell \cup early

\* The ManuallyDrop value of an entry leaves the map exactly once: to the
\* caller of remove, to the destructor of a replaced entry, back from an insert
\* without a place, or to the drop of the map; and no entry is lost or freed
\* while the table still holds it.
OwnedOnce ==
  \A e \in Entries :
    /\ left_map[e] <= 1
    /\ e \in freed => left_map[e] = 1 /\ e \notin retired
    /\ (\E i \in Slots : table[i] = e) =>
         e \notin retired /\ (e \in freed => \A t \in Threads : pc[t] = "gone")
    /\ \A t \in Threads : (pc[t] = "gone" /\ e <= made) => e \in freed \cup retired

\* An operation that gives up has not overlooked anything that was there all
\* the time: no slot with its key for get and remove, no free slot for insert.
\* The exception is the code's own: a lost compare-exchange uses up a turn of
\* the bounded loop (map.rs:96, 116, 163), so the last slots are never seen.
ProbesMissNothing ==
  \A t \in Threads :
    pc[t] = "miss" /\ steady[t] # {} => beaten[t]
=============================================================================
