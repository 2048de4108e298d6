-------------------------------- MODULE Ebr ---------------------------------
(***************************************************************************)
(* The three-epoch reclamation of tier2_concurrency/src/ebr.rs, one action *)
(* per access to shared memory, with a client that replaces the node of    *)
(* one shared pointer and retires the old node, as map.rs does.            *)
(*                                                                         *)
(* Atomic accesses are sequentially consistent, and nodes are not reused   *)
(* once freed.  Guards are counted by their slot: one may be moved to      *)
(* another thread and outlive the registration it was taken under, and     *)
(* dropping any of them unpins the slot.                                   *)
(***************************************************************************)
EXTENDS Integers, FiniteSets

CONSTANTS
  Threads,      \* the threads that use the collector
  Retirers,     \* those of them that unlink nodes, defer and flush
  MaxNodes,     \* bound: the number of nodes that are ever allocated
  MAX_THREADS,  \* slots of the registry
  BAG_CAPACITY, \* nodes a bag can hold
  MaxGuards     \* bound: guards of one slot that are alive at a time

ASSUME RetirersAssumption == Retirers \subseteq Threads
ASSUME NodesAssumption == MaxNodes \in Nat \ {0}
ASSUME RegistryAssumption == MAX_THREADS \in Nat /\ Cardinality(Threads) <= MAX_THREADS
ASSUME BagAssumption == BAG_CAPACITY \in Nat
ASSUME GuardsAssumption == MaxGuards \in Nat

UNPINNED == 3          \* any value that is not an epoch
Epochs == 0 .. 2
Nodes == 1 .. MaxNodes \* in the order they are allocated
NoNode == 0
Slots == 0 .. MAX_THREADS - 1
NoSlot == MAX_THREADS  \* the thread is not registered

VARIABLES
  global,   \* the global epoch
  epoch,    \* epoch[i]: the epoch slot i is pinned to, or UNPINNED
  active,   \* active[i]: slot i is registered
  held,     \* held[i]: the number of guards of slot i that are alive
  index,    \* index[t]: the slot of thread t, or NoSlot
  bags,     \* bags[t][e]: nodes t retired in epoch e
  pc,       \* pc[t]: where t is inside pin, defer, flush or destroy
  local,    \* local[t]: the epoch t has loaded, 0 when it is of no use
  scan,     \* scan[t]: the slot try_advance looks at next, 0 outside it
  hand,     \* hand[t]: the node t has unlinked and is deferring
  cur,      \* the node the shared pointer leads to
  made,     \* number of nodes allocated so far
  freed,    \* nodes whose destructor has run
  waits,    \* history: waits[n], the slots pinned since before n was unlinked
  early     \* history: nodes freed without a grace period that were waiting

shared == <<global, epoch, active, held>>
thread == <<index, bags, pc, local, scan, hand>>
client == <<cur, made, freed, waits, early>>
vars == <<shared, thread, client>>

EmptyBags == [e \in Epochs |-> {}]

PC == {"idle", "pin", "unregister", "defer", "retry", "load", "scan", "store", "reclaim"}

TypeOK ==
  /\ global \in Epochs
  /\ epoch \in [Slots -> Epochs \cup {UNPINNED}]
  /\ active \in [Slots -> BOOLEAN]
  /\ index \in [Threads -> Slots \cup {NoSlot}]
  /\ bags \in [Threads -> [Epochs -> SUBSET Nodes]]
  /\ pc \in [Threads -> PC]
  /\ local \in [Threads -> Epochs]
  /\ scan \in [Threads -> 0 .. MAX_THREADS]
  /\ hand \in [Threads -> Nodes \cup {NoNode}]
  /\ held \in [Slots -> 0 .. MaxGuards]
  /\ waits \in [Nodes -> SUBSET Slots]
  /\ cur \in Nodes
  /\ made \in Nodes /\ freed \in SUBSET Nodes /\ early \in SUBSET Nodes

Goto(t, l) == pc' = [pc EXCEPT ![t] = l]
Registered(t) == index[t] # NoSlot

\* try_advance returns: its locals are gone.
Forget(t) ==
  /\ local' = [local EXCEPT ![t] = 0]
  /\ scan' = [scan EXCEPT ![t] = 0]

Guarded == {i \in Slots : epoch[i] # UNPINNED}

\* The nodes of N that some slot has stayed pinned for.
Waiting(N) == {n \in N : waits[n] # {}}

\* Slot i is unpinned, or pinned again: it protects none of these nodes longer.
Unprotect(i) == waits' = [n \in Nodes |-> waits[n] \ {i}]

-----------------------------------------------------------------------------
(* Faulty variants of definitions below, each a plausible slip *)

\* A registered thread without a guard holds the epoch back.
Blocks_Unpinned(i, e) == active[i] /\ epoch[i] # e

\* The epoch is not taken modulo three.
AdvanceStore_Unwrapped(t) ==
  /\ pc[t] = "store"
  /\ global' = local[t] + 1
  /\ Forget(t)
  /\ Goto(t, "reclaim")
  /\ UNCHANGED <<epoch, active, held, index, bags, hand, client>>

\* The bag of the epoch just left is reclaimed.
Reclaim_OneEpochEarly(t) ==
  LET idx == (global + 2) % 3
  IN  /\ pc[t] = "reclaim"
      /\ freed' = freed \cup bags[t][idx]
      /\ bags' = [bags EXCEPT ![t][idx] = {}]
      /\ Goto(t, IF hand[t] # NoNode THEN "retry" ELSE "idle")
      /\ UNCHANGED <<shared, index, local, scan, hand, cur, made, waits, early>>

-----------------------------------------------------------------------------
(* Registration *)

Init ==
  /\ global = 0
  /\ epoch = [i \in Slots |-> UNPINNED]
  /\ active = [i \in Slots |-> FALSE]
  /\ index = [t \in Threads |-> NoSlot]
  /\ bags = [t \in Threads |-> EmptyBags]
  /\ pc = [t \in Threads |-> "idle"]
  /\ local = [t \in Threads |-> 0]
  /\ scan = [t \in Threads |-> 0]
  /\ hand = [t \in Threads |-> NoNode]
  /\ held = [i \in Slots |-> 0]
  /\ cur = 1 /\ made = 1
  /\ waits = [n \in Nodes |-> {}]
  /\ freed = {} /\ early = {}

\* A slot whose compare-exchange succeeds: any free one, since lower slots may
\* have been taken when the thread tried them.
Register(t) ==
  /\ ~Registered(t) /\ pc[t] = "idle"
  /\ \E i \in Slots :
       /\ ~active[i]
       /\ active' = [active EXCEPT ![i] = TRUE]
       /\ index' = [index EXCEPT ![t] = i]
  /\ UNCHANGED <<global, epoch, held, bags, pc, local, scan, hand, client>>

\* All bags of t, whoever is pinned.
ReclaimAll(t) ==
  LET N == UNION {bags[t][e] : e \in Epochs}
  IN  /\ freed' = freed \cup N
      /\ early' = early \cup Waiting(N)
      /\ bags' = [bags EXCEPT ![t] = EmptyBags]

\* destroy: every bag is reclaimed at once, whoever is pinned.
Destroy(t) ==
  /\ Registered(t) /\ pc[t] = "idle"
  /\ ReclaimAll(t)
  /\ Goto(t, "unregister")
  /\ UNCHANGED <<shared, index, local, scan, hand, cur, made, waits>>

\* Then the slot is given up.  Its guards may still be alive.
Unregister(t) ==
  /\ pc[t] = "unregister"
  /\ epoch' = [epoch EXCEPT ![index[t]] = UNPINNED]
  /\ active' = [active EXCEPT ![index[t]] = FALSE]
  /\ index' = [index EXCEPT ![t] = NoSlot]
  /\ Unprotect(index[t])
  /\ Goto(t, "idle")
  /\ UNCHANGED <<global, held, bags, local, scan, hand, cur, made, freed, early>>

\* Dropping the thread-local part without destroy reclaims the bags too, and
\* leaves the slot taken for ever.  Once every slot is lost, register panics.
DropLocal(t) ==
  /\ Registered(t) /\ pc[t] = "idle"
  /\ ReclaimAll(t)
  /\ index' = [index EXCEPT ![t] = NoSlot]
  /\ UNCHANGED <<shared, pc, local, scan, hand, cur, made, waits>>

-----------------------------------------------------------------------------
(* Guards *)

\* pin, also while other guards of the slot are alive.
PinLoad(t) ==
  /\ Registered(t) /\ pc[t] = "idle"
  /\ local' = [local EXCEPT ![t] = global]
  /\ Goto(t, "pin")
  /\ UNCHANGED <<shared, index, bags, scan, hand, client>>

\* The store overwrites the epoch an older guard of the slot was pinned to.
PinStore(t) ==
  /\ pc[t] = "pin"
  /\ held[index[t]] < MaxGuards
  /\ epoch' = [epoch EXCEPT ![index[t]] = local[t]]
  /\ held' = [held EXCEPT ![index[t]] = @ + 1]
  /\ Unprotect(index[t])
  /\ local' = [local EXCEPT ![t] = 0]
  /\ Goto(t, "idle")
  /\ UNCHANGED <<global, active, index, bags, scan, hand, cur, made, freed, early>>

\* Drop of a guard, at any time: its slot is unpinned, whoever has it by now
\* and whatever other guards it has.
DropGuard(i) ==
  /\ held[i] > 0
  /\ epoch' = [epoch EXCEPT ![i] = UNPINNED]
  /\ held' = [held EXCEPT ![i] = @ - 1]
  /\ Unprotect(i)
  /\ UNCHANGED <<global, active, thread, cur, made, freed, early>>

-----------------------------------------------------------------------------
(* Retiring *)

\* The client unlinks the current node by putting a new one in its place.  Any
\* thread that is pinned may have the old node.
Unlink(t) ==
  /\ t \in Retirers /\ Registered(t) /\ pc[t] = "idle"
  /\ hand' = [hand EXCEPT ![t] = cur]
  /\ made < MaxNodes
  /\ made' = made + 1 /\ cur' = made + 1
  /\ waits' = [waits EXCEPT ![cur] = Guarded]
  /\ Goto(t, "defer")
  /\ UNCHANGED <<shared, index, bags, local, scan, freed, early>>

Push(t, e) ==
  /\ Cardinality(bags[t][e]) < BAG_CAPACITY
  /\ bags' = [bags EXCEPT ![t][e] = @ \cup {hand[t]}]
  /\ hand' = [hand EXCEPT ![t] = NoNode]
  /\ Goto(t, "idle")

\* defer: the node goes to the bag of the epoch loaded now.
Defer(t) ==
  /\ pc[t] = "defer"
  /\ Push(t, global)
  /\ UNCHANGED <<shared, index, local, scan, client>>

\* That bag is full: try to advance first.
DeferFull(t) ==
  /\ pc[t] = "defer"
  /\ Cardinality(bags[t][global]) = BAG_CAPACITY
  /\ Goto(t, "load")
  /\ UNCHANGED <<shared, index, bags, local, scan, hand, client>>

\* The second attempt, in the bag of the epoch loaded again.
DeferRetry(t) ==
  /\ pc[t] = "retry"
  /\ Push(t, global)
  /\ UNCHANGED <<shared, index, local, scan, client>>

\* Full again: the destructor runs at once, whoever is pinned.
DeferFree(t) ==
  /\ pc[t] = "retry"
  /\ Cardinality(bags[t][global]) = BAG_CAPACITY
  /\ freed' = freed \cup {hand[t]}
  /\ early' = early \cup Waiting({hand[t]})
  /\ hand' = [hand EXCEPT ![t] = NoNode]
  /\ Goto(t, "idle")
  /\ UNCHANGED <<shared, index, bags, local, scan, cur, made, waits>>

Flush(t) ==
  /\ t \in Retirers /\ Registered(t) /\ pc[t] = "idle"
  /\ Goto(t, "load")
  /\ UNCHANGED <<shared, index, bags, local, scan, hand, client>>

-----------------------------------------------------------------------------
(* try_advance and what follows it.  It is called by flush, and by a defer  *)
(* that found its bag full and still has its node in hand.                  *)

After(t) == IF hand[t] # NoNode THEN "retry" ELSE "idle"

AdvanceLoad(t) ==
  /\ pc[t] = "load"
  /\ local' = [local EXCEPT ![t] = global]
  /\ scan' = [scan EXCEPT ![t] = 0]
  /\ Goto(t, "scan")
  /\ UNCHANGED <<shared, index, bags, hand, client>>

\* Slot i stands in the way of leaving epoch e.
Blocks(i, e) == active[i] /\ epoch[i] # UNPINNED /\ epoch[i] # e

\* The loads of active and epoch are one step: a slot read as inactive is passed
\* over at that load, and one read as active is judged by its epoch alone, since
\* unregister stores UNPINNED before it clears active.
AdvanceScan(t) ==
  /\ pc[t] = "scan"
  /\ scan[t] < MAX_THREADS
  /\ IF Blocks(scan[t], local[t])
     THEN Goto(t, After(t)) /\ Forget(t)
     ELSE /\ scan' = [scan EXCEPT ![t] = @ + 1]
          /\ Goto(t, IF scan[t] + 1 = MAX_THREADS THEN "store" ELSE "scan")
          /\ UNCHANGED local
  /\ UNCHANGED <<shared, index, bags, hand, client>>

AdvanceStore(t) ==
  /\ pc[t] = "store"
  /\ global' = (local[t] + 1) % 3
  /\ Forget(t)
  /\ Goto(t, "reclaim")
  /\ UNCHANGED <<epoch, active, held, index, bags, hand, client>>

\* The epoch is loaded again and the bag after it is reclaimed.
Reclaim(t) ==
  LET idx == (global + 1) % 3
  IN  /\ pc[t] = "reclaim"
      /\ freed' = freed \cup bags[t][idx]
      /\ bags' = [bags EXCEPT ![t][idx] = {}]
      /\ Goto(t, After(t))
      /\ UNCHANGED <<shared, index, local, scan, hand, cur, made, waits, early>>

Advance(t) ==
  AdvanceLoad(t) \/ AdvanceScan(t) \/ AdvanceStore(t) \/ Reclaim(t)

\* The steps of a thread inside pin, defer, flush or destroy.
Inside(t) ==
  Unregister(t) \/ PinStore(t) \/ Defer(t) \/ DeferFull(t) \/ DeferRetry(t) \/ DeferFree(t) \/ Advance(t)

Next ==
  \/ \E t \in Threads :
       \/ Register(t) \/ Destroy(t) \/ DropLocal(t)
       \/ PinLoad(t) \/ Unlink(t) \/ Flush(t)
       \/ Inside(t)
  \/ \E i \in Slots : DropGuard(i)

Spec == Init /\ [][Next]_vars

\* Threads inside an operation keep running, a guard is dropped in the end (it
\* lives for one scope), and a retirer flushes again and again.
Fairness ==
  /\ \A t \in Threads : WF_vars(Inside(t))
  /\ \A i \in Slots : WF_vars(DropGuard(i))
  /\ \A t \in Retirers : SF_vars(Flush(t))

FairSpec == Spec /\ Fairness

-----------------------------------------------------------------------------
(* Properties *)

\* ebr_test.rs line 78, "Node should NOT be reclaimed while reader is pinned
\* to old epoch": a bag is reclaimed after an advance only when every slot that
\* was pinned before its nodes were unlinked has been unpinned or pinned again.
NoUseAfterFree == \A n \in freed \ early : waits[n] = {}

Retired ==
  {n \in Nodes : \E t \in Threads : hand[t] = n \/ \E e \in Epochs : n \in bags[t][e]}

Promise == INSTANCE GracePeriod WITH
  Threads <- Slots, guards <- Guarded, retired <- Retired

\* The epochs and bags keep the promise of GracePeriod, as long as one thread
\* retires: each node is retired once and freed once, and no advance frees it
\* while a slot is pinned that was pinned at its unlinking.  The frees that may
\* come earlier are those of a defer that found two bags full (ebr.rs line 203),
\* of destroy (177-183) and of the drop of the thread-local part (217-222), and
\* every one of those that a pinned slot was waiting for is recorded in early.
\* A slot that is pinned again, or of which one guard is dropped, protects
\* nothing of before (lines 115-121 and 154-160).
ImplementsGracePeriod == Promise!Spec

\* ebr_test.rs line 90, "Node MUST be reclaimed after reader unpins": every
\* retired node is freed in the end.
RetiredIsFreed ==
  \A n \in Nodes :
    (\E t \in Threads : \E e \in Epochs : n \in bags[t][e]) ~> (n \in freed)
=============================================================================
