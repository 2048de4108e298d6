----------------------------- MODULE EbrProofs ------------------------------
(***************************************************************************)
(* Proofs about Ebr for any threads, nodes, slots and bag capacity.  The   *)
(* grace period is proved for one retiring thread, which is when it holds: *)
(* MCEbrTwoRetirers shows how two retirers break it.                       *)
(***************************************************************************)
EXTENDS Ebr, TLAPS

-----------------------------------------------------------------------------
(* The inductive invariants *)

\* A thread that is about to push a node has it in hand.
HasNode == \A t \in Threads : pc[t] \in {"defer", "retry"} => hand[t] # NoNode

\* With any number of retirers.
TypeInv == TypeOK /\ HasNode

\* A registered thread has an active slot of its own.
OwnSlot ==
  /\ \A t \in Threads : pc[t] # "idle" => index[t] \in Slots
  /\ \A t \in Threads : index[t] \in Slots => active[index[t]]
  /\ \A t, u \in Threads : index[t] \in Slots /\ index[t] = index[u] => t = u

\* A slot that is pinned is not passed over as inactive.
Pinned == \A i \in Slots : epoch[i] # UNPINNED => active[i]

\* Where a thread is that neither retires nor advances.
Outside == {"idle", "pin", "unregister"}

\* Only the retirer w has nodes to free and moves the epoch.
OneRetirer(w) ==
  /\ \A t \in Threads : t # w => pc[t] \in Outside /\ bags[t] = EmptyBags
  /\ \A t \in Threads : pc[t] \in Outside => hand[t] = NoNode

\* A retired node is in one place, and the shared pointer has left it.
OnePlace(w) ==
  /\ cur = made
  /\ hand[w] # NoNode => hand[w] < made
  /\ \A e \in Epochs : \A n \in bags[w][e] : n < made /\ n # hand[w]
  /\ \A e, f \in Epochs : \A n \in bags[w][e] : n \in bags[w][f] => e = f
  /\ \A n \in freed \cup early : n < made

\* A node waits only for slots that are pinned.
WaitsForGuards == \A n \in Nodes : \A i \in waits[n] : i \in Slots /\ epoch[i] # UNPINNED

\* The epoch does not change while the retirer looks at the slots.
Looking(w) ==
  /\ pc[w] \in {"scan", "store"} => local[w] = global
  /\ pc[w] = "store" => scan[w] = MAX_THREADS

\* A slot that a node of a bag waits for and that was passed over is pinned to
\* the epoch that is about to be left.
Passed(w) ==
  pc[w] \in {"scan", "store"} =>
    \A e \in Epochs : \A n \in bags[w][e] : \A i \in waits[n] :
      i < scan[w] => epoch[i] = global

\* A slot that a node of bag e waits for has kept the epoch at e, or let it go
\* on by one because it is pinned to e itself.
Holds(w) ==
  \A e \in Epochs : \A n \in bags[w][e] : \A i \in waits[n] :
    global = e \/ (global = (e + 1) % 3 /\ epoch[i] = e)

\* No node was freed early, unless by a free that looks at nobody.
FreedLate == \A n \in freed : n \in early \/ waits[n] = {}

Inv(w) ==
  /\ TypeInv /\ OwnSlot /\ Pinned /\ OneRetirer(w) /\ OnePlace(w) /\ WaitsForGuards
  /\ Looking(w) /\ Passed(w) /\ Holds(w) /\ FreedLate

-----------------------------------------------------------------------------
(* Lemmas *)

\* Counting epochs modulo three: three steps lead back, fewer do not.
LEMMA EpochArithmetic ==
  /\ \A e \in Epochs : (e + 1) % 3 \in Epochs /\ (e + 1) % 3 # e
  /\ \A e \in Epochs : (((e + 1) % 3) + 1) % 3 \in Epochs /\ (((e + 1) % 3) + 1) % 3 # e
  /\ \A e, f \in Epochs : (e + 1) % 3 = (f + 1) % 3 => e = f
  /\ UNPINNED \notin Epochs /\ 0 \in Epochs
  <1>1. (0 + 1) % 3 = 1 /\ (1 + 1) % 3 = 2 /\ (2 + 1) % 3 = 0
    OBVIOUS
  <1>2. \A e \in Epochs : e = 0 \/ e = 1 \/ e = 2
    BY DEF Epochs
  <1>. QED
    BY <1>1, <1>2 DEF Epochs, UNPINNED

\* Nodes and slots are numbers, and none of them is the missing one.
LEMMA Names ==
  /\ \A n \in Nodes : n \in Nat /\ n # NoNode
  /\ \A i \in Slots : i \in Nat /\ i < MAX_THREADS /\ i # NoSlot
  /\ MAX_THREADS \in Nat /\ 1 \in Nodes
  BY NodesAssumption, RegistryAssumption DEF Nodes, NoNode, Slots, NoSlot

\* A thread is registered if it has a slot.
LEMMA RegisteredSlot == TypeOK => \A t \in Threads : Registered(t) <=> index[t] \in Slots
  BY Names DEF TypeOK, Registered

-----------------------------------------------------------------------------
(* Types, with any number of retirers *)

\* Nothing is registered, pinned or retired.
LEMMA InitTypes == Init => TypeInv
  BY Names, EpochArithmetic, GuardsAssumption DEF Init, TypeInv, TypeOK, HasNode, PC, EmptyBags, NoSlot

\* Every step keeps the types.
LEMMA NextTypes == TypeInv /\ [Next]_vars => TypeInv'
  <1>. SUFFICES ASSUME TypeInv, [Next]_vars PROVE TypeInv'
    OBVIOUS
  <1>. USE DEF TypeInv
  <1>1. CASE UNCHANGED vars
    BY <1>1 DEF vars, shared, thread, client, TypeOK, HasNode
  <1>2. ASSUME NEW t \in Threads, Register(t) PROVE TypeInv'
    BY <1>2 DEF Register, client, TypeOK, HasNode
  <1>3. ASSUME NEW t \in Threads, Destroy(t) \/ DropLocal(t) PROVE TypeInv'
    <2>. DEFINE N == UNION {bags[t][e] : e \in Epochs}
    <2>1. N \subseteq Nodes
      BY DEF TypeOK
    <2>3. freed' = freed \cup N /\ early' = early \cup Waiting(N)
      BY <1>3 DEF Destroy, DropLocal, ReclaimAll
    <2>2. freed' \in SUBSET Nodes /\ early' \in SUBSET Nodes
      BY <2>1, <2>3 DEF TypeOK, Waiting
    <2>. QED
      BY <2>2, <1>3 DEF Destroy, DropLocal, ReclaimAll, Goto, shared, TypeOK, HasNode, EmptyBags, PC
  <1>4. ASSUME NEW t \in Threads, Unregister(t) PROVE TypeInv'
    BY <1>4 DEF Unregister, Unprotect, Goto, TypeOK, HasNode, PC
  <1>5. ASSUME NEW t \in Threads, PinLoad(t) PROVE TypeInv'
    BY <1>5 DEF PinLoad, Goto, shared, client, TypeOK, HasNode, PC
  <1>6. ASSUME NEW t \in Threads, PinStore(t) PROVE TypeInv'
    <2>1. held' \in [Slots -> 0 .. MaxGuards]
      <3>1. index[t] \in Slots => held[index[t]] + 1 \in 0 .. MaxGuards
        BY <1>6, GuardsAssumption DEF PinStore, TypeOK
      <3>. QED
        BY <3>1, <1>6 DEF PinStore, TypeOK
    <2>2. epoch' \in [Slots -> Epochs \cup {UNPINNED}] /\ waits' \in [Nodes -> SUBSET Slots]
      BY <1>6 DEF PinStore, Unprotect, TypeOK
    <2>. QED
      BY <2>1, <2>2, <1>6, EpochArithmetic DEF PinStore, Goto, TypeOK, HasNode, PC
  <1>7. ASSUME NEW i \in Slots, DropGuard(i) PROVE TypeInv'
    <2>1. held' \in [Slots -> 0 .. MaxGuards]
      BY <1>7, GuardsAssumption DEF DropGuard, TypeOK
    <2>. QED
      BY <2>1, <1>7 DEF DropGuard, Unprotect, thread, TypeOK, HasNode
  <1>8. ASSUME NEW t \in Threads, Unlink(t) PROVE TypeInv'
    <2>1. made + 1 \in Nodes
      BY <1>8, NodesAssumption DEF Unlink, TypeOK, Nodes
    <2>. QED
      BY <2>1, <1>8, Names DEF Unlink, Goto, shared, TypeOK, HasNode, PC, Guarded
  <1>9. ASSUME NEW t \in Threads, Defer(t) \/ DeferRetry(t) PROVE TypeInv'
    <2>1. hand[t] \in Nodes
      BY <1>9 DEF Defer, DeferRetry, TypeOK, HasNode
    <2>2. /\ bags' = [bags EXCEPT ![t][global] = @ \cup {hand[t]}]
          /\ hand' = [hand EXCEPT ![t] = NoNode]
          /\ pc' = [pc EXCEPT ![t] = "idle"]
          /\ UNCHANGED <<global, epoch, active, held, index, local, scan,
                         cur, made, freed, waits, early>>
      BY <1>9 DEF Defer, DeferRetry, Push, Goto, shared, client
    <2>3. bags' \in [Threads -> [Epochs -> SUBSET Nodes]]
      BY <2>1, <2>2 DEF TypeOK
    <2>. QED
      BY <2>2, <2>3 DEF TypeOK, HasNode, PC
  <1>10. ASSUME NEW t \in Threads, DeferFull(t) PROVE TypeInv'
    BY <1>10 DEF DeferFull, Goto, shared, client, TypeOK, HasNode, PC
  <1>11. ASSUME NEW t \in Threads, DeferFree(t) PROVE TypeInv'
    <2>1. hand[t] \in Nodes
      BY <1>11 DEF DeferFree, TypeOK, HasNode
    <2>. QED
      BY <2>1, <1>11 DEF DeferFree, Waiting, Goto, shared, TypeOK, HasNode, PC
  <1>12. ASSUME NEW t \in Threads, Flush(t) PROVE TypeInv'
    BY <1>12 DEF Flush, Goto, shared, client, TypeOK, HasNode, PC
  <1>13. ASSUME NEW t \in Threads, AdvanceLoad(t) PROVE TypeInv'
    BY <1>13, Names DEF AdvanceLoad, Goto, shared, client, TypeOK, HasNode, PC
  <1>14. ASSUME NEW t \in Threads, AdvanceScan(t) PROVE TypeInv'
    <2>1. scan[t] + 1 \in 0 .. MAX_THREADS
      BY <1>14, Names DEF AdvanceScan, TypeOK
    <2>2. pc[t] = "scan" /\ UNCHANGED <<global, epoch, active, held, index, bags, hand,
                                        cur, made, freed, waits, early>>
      BY <1>14 DEF AdvanceScan, shared, client
    <2>3. \/ pc' = [pc EXCEPT ![t] = After(t)]
          \/ pc' = [pc EXCEPT ![t] = "store"]
          \/ pc' = [pc EXCEPT ![t] = "scan"]
      BY <1>14 DEF AdvanceScan, Goto
    <2>4. \/ local' = [local EXCEPT ![t] = 0] /\ scan' = [scan EXCEPT ![t] = 0]
          \/ UNCHANGED local /\ scan' = [scan EXCEPT ![t] = scan[t] + 1]
      BY <1>14 DEF AdvanceScan, Forget
    <2>6. 0 \in Epochs /\ 0 \in 0 .. MAX_THREADS
      BY EpochArithmetic, Names
    <2>7. local \in [Threads -> Epochs] /\ scan \in [Threads -> 0 .. MAX_THREADS]
      BY DEF TypeOK
    <2>8. local' \in [Threads -> Epochs]
      BY <2>4, <2>6, <2>7
    <2>9. scan' \in [Threads -> 0 .. MAX_THREADS]
      BY <2>1, <2>4, <2>6, <2>7
    <2>. QED
      BY <2>2, <2>3, <2>8, <2>9 DEF After, TypeOK, HasNode, PC
  <1>15. ASSUME NEW t \in Threads, AdvanceStore(t) PROVE TypeInv'
    BY <1>15, EpochArithmetic, Names DEF AdvanceStore, Forget, Goto, client, TypeOK, HasNode, PC
  <1>16. ASSUME NEW t \in Threads, Reclaim(t) PROVE TypeInv'
    <2>. DEFINE idx == (global + 1) % 3
    <2>1. idx \in Epochs
      BY EpochArithmetic DEF TypeOK
    <2>2. freed' \in SUBSET Nodes /\ bags' \in [Threads -> [Epochs -> SUBSET Nodes]]
      BY <2>1, <1>16 DEF Reclaim, TypeOK
    <2>. QED
      BY <2>2, <1>16 DEF Reclaim, After, Goto, shared, TypeOK, HasNode, PC
  <1>. QED
    BY <1>1, <1>2, <1>3, <1>4, <1>5, <1>6, <1>7, <1>8, <1>9, <1>10, <1>11, <1>12,
       <1>13, <1>14, <1>15, <1>16
    DEF Next, Inside, Advance

\* ebr.rs lines 65-223: every variable keeps its type, for any set of retirers;
\* the epoch stays within three, and a bag never gets a node that is missing.
THEOREM EbrTypes == Spec => []TypeOK
  <1>1. TypeInv => TypeOK
    BY DEF TypeInv
  <1>. QED
    BY <1>1, InitTypes, NextTypes, PTL DEF Spec

-----------------------------------------------------------------------------
(* Registration and guards, with one retirer *)

\* A step that leaves the bags and the epoch alone, and in which no slot that
\* a node waits for moves, keeps what the nodes rely on.
LEMMA NodesKept ==
  ASSUME NEW w \in Threads, Inv(w), TypeInv',
         UNCHANGED <<global, bags, scan, hand, cur, made, freed, early>>,
         pc'[w] \in {"scan", "store"} => pc'[w] = pc[w] /\ local'[w] = local[w],
         \A u \in Threads : pc'[u] \in Outside <=> pc[u] \in Outside,
         \A n \in Nodes : waits'[n] \subseteq waits[n],
         \A n \in Nodes : \A i \in waits'[n] : epoch'[i] = epoch[i]
  PROVE  /\ OneRetirer(w)' /\ OnePlace(w)' /\ WaitsForGuards'
         /\ Looking(w)' /\ Passed(w)' /\ Holds(w)' /\ FreedLate'
  <1>1. /\ TypeOK /\ OneRetirer(w) /\ OnePlace(w) /\ WaitsForGuards
        /\ Looking(w) /\ Passed(w) /\ Holds(w) /\ FreedLate
    BY DEF Inv, TypeInv
  <1>2. \A e \in Epochs : bags[w][e] \subseteq Nodes
    BY <1>1 DEF TypeOK
  <1>3. OneRetirer(w)'
    BY <1>1 DEF OneRetirer
  <1>4. OnePlace(w)'
    BY <1>1 DEF OnePlace
  <1>5. WaitsForGuards'
    BY <1>1 DEF WaitsForGuards
  <1>6. Looking(w)'
    BY <1>1 DEF Looking
  <1>7. Passed(w)'
    BY <1>1, <1>2 DEF Passed
  <1>8. Holds(w)'
    BY <1>1, <1>2 DEF Holds
  <1>9. FreedLate'
    BY <1>1 DEF FreedLate, TypeOK
  <1>. QED
    BY <1>3, <1>4, <1>5, <1>6, <1>7, <1>8, <1>9

\* A free slot is nobody's.
LEMMA RegisterStep ==
  ASSUME NEW w \in Threads, Inv(w), TypeInv', NEW t \in Threads, Register(t)
  PROVE  Inv(w)'
  <1>1. TypeOK /\ OwnSlot /\ Pinned
    BY DEF Inv, TypeInv
  <1>2. PICK i \in Slots :
          ~active[i] /\ active' = [active EXCEPT ![i] = TRUE] /\ index' = [index EXCEPT ![t] = i]
    BY DEF Register
  <1>3. /\ index[t] \notin Slots /\ pc[t] = "idle"
        /\ UNCHANGED <<global, epoch, bags, pc, local, scan, hand, cur, made, freed, waits, early>>
    BY <1>1, RegisteredSlot DEF Register, client
  <1>4. \A u \in Threads : u # t => index'[u] = index[u]
    BY <1>1, <1>2 DEF TypeOK
  <1>5. index'[t] = i /\ active'[i] /\ \A j \in Slots : active[j] => active'[j]
    BY <1>1, <1>2 DEF TypeOK
  <1>6. \A u \in Threads : index[u] \in Slots => index[u] # i
    BY <1>1, <1>2 DEF OwnSlot
  <1>7. OwnSlot'
    BY <1>1, <1>3, <1>4, <1>5, <1>6 DEF OwnSlot
  <1>8. Pinned'
    BY <1>1, <1>3, <1>5 DEF Pinned
  <1>. QED
    BY <1>3, <1>7, <1>8, NodesKept DEF Inv

\* What destroy and Drop take from under a pinned slot is recorded.
LEMMA DestroyStep ==
  ASSUME NEW w \in Threads, Inv(w), TypeInv', NEW t \in Threads, Destroy(t) \/ DropLocal(t)
  PROVE  Inv(w)'
  <1>. DEFINE N == UNION {bags[t][e] : e \in Epochs}
  <1>1. /\ TypeOK /\ OwnSlot /\ Pinned /\ OneRetirer(w) /\ OnePlace(w) /\ WaitsForGuards
        /\ Looking(w) /\ Passed(w) /\ Holds(w) /\ FreedLate
    BY DEF Inv, TypeInv
  <1>2. /\ index[t] \in Slots /\ pc[t] = "idle"
        /\ freed' = freed \cup N /\ early' = early \cup Waiting(N)
        /\ bags' = [bags EXCEPT ![t] = EmptyBags]
        /\ \/ pc' = [pc EXCEPT ![t] = "unregister"] /\ index' = index
           \/ pc' = pc /\ index' = [index EXCEPT ![t] = NoSlot]
        /\ UNCHANGED <<global, epoch, active, local, scan, hand, cur, made, waits>>
    BY <1>1, RegisteredSlot DEF Destroy, DropLocal, ReclaimAll, Goto, shared
  <1>3. /\ \A u \in Threads : u # t => index'[u] = index[u] /\ bags'[u] = bags[u] /\ pc'[u] = pc[u]
        /\ bags'[t] = EmptyBags
        /\ \/ pc'[t] = "unregister" /\ index'[t] = index[t]
           \/ pc'[t] = "idle" /\ index'[t] \notin Slots
    BY <1>1, <1>2, Names DEF TypeOK, NoSlot, Slots
  <1>4. OwnSlot'
    BY <1>1, <1>2, <1>3 DEF OwnSlot
  <1>5. Pinned'
    BY <1>1, <1>2 DEF Pinned
  <1>6. OneRetirer(w)'
    BY <1>1, <1>2, <1>3 DEF OneRetirer, Outside
  <1>7. \A e \in Epochs : bags'[w][e] \subseteq bags[w][e]
    BY <1>3 DEF EmptyBags
  <1>8. OnePlace(w)'
    <2>1. \A e \in Epochs : \A n \in bags[t][e] : n < made
      BY <1>1 DEF OnePlace, OneRetirer, EmptyBags
    <2>2. \A n \in freed' \cup early' : n < made
      BY <2>1, <1>1, <1>2 DEF OnePlace, Waiting
    <2>. QED
      BY <2>2, <1>1, <1>2, <1>7 DEF OnePlace
  <1>9. WaitsForGuards' /\ FreedLate'
    BY <1>1, <1>2 DEF WaitsForGuards, FreedLate, Waiting
  <1>10. Looking(w)'
    BY <1>1, <1>2, <1>3 DEF Looking
  <1>11. Passed(w)' /\ Holds(w)'
    BY <1>1, <1>2, <1>3, <1>7 DEF Passed, Holds
  <1>. QED
    BY <1>4, <1>5, <1>6, <1>8, <1>9, <1>10, <1>11 DEF Inv

\* A slot that is unpinned is waited for no longer.
LEMMA UnregisterStep ==
  ASSUME NEW w \in Threads, Inv(w), TypeInv', NEW t \in Threads, Unregister(t)
  PROVE  Inv(w)'
  <1>1. TypeOK /\ OwnSlot /\ Pinned /\ WaitsForGuards
    BY DEF Inv, TypeInv
  <1>2. /\ pc[t] = "unregister" /\ index[t] \in Slots
        /\ epoch' = [epoch EXCEPT ![index[t]] = UNPINNED]
        /\ active' = [active EXCEPT ![index[t]] = FALSE]
        /\ index' = [index EXCEPT ![t] = NoSlot]
        /\ waits' = [n \in Nodes |-> waits[n] \ {index[t]}]
        /\ pc' = [pc EXCEPT ![t] = "idle"]
        /\ UNCHANGED <<global, bags, local, scan, hand, cur, made, freed, early>>
    BY <1>1 DEF Unregister, Unprotect, Goto, OwnSlot
  <1>3. /\ \A u \in Threads : u # t => index'[u] = index[u] /\ pc'[u] = pc[u]
        /\ index'[t] \notin Slots /\ pc'[t] = "idle"
    BY <1>1, <1>2, Names DEF TypeOK, NoSlot, Slots
  <1>4. /\ \A i \in Slots : i # index[t] => active'[i] = active[i] /\ epoch'[i] = epoch[i]
        /\ epoch'[index[t]] = UNPINNED
    BY <1>1, <1>2 DEF TypeOK
  <1>5. OwnSlot'
    BY <1>1, <1>2, <1>3, <1>4 DEF OwnSlot
  <1>6. Pinned'
    BY <1>1, <1>4 DEF Pinned
  <1>7. \A n \in Nodes : waits'[n] \subseteq waits[n] /\ \A i \in waits'[n] : epoch'[i] = epoch[i]
    BY <1>1, <1>2, <1>4 DEF WaitsForGuards
  <1>8. \A u \in Threads : pc'[u] \in Outside <=> pc[u] \in Outside
    BY <1>2, <1>3 DEF Outside
  <1>9. pc'[w] \in {"scan", "store"} => pc'[w] = pc[w] /\ local'[w] = local[w]
    BY <1>2, <1>3
  <1>. QED
    BY <1>2, <1>5, <1>6, <1>7, <1>8, <1>9, NodesKept DEF Inv

\* The epoch a thread has loaded does not matter until it stores it.
LEMMA PinLoadStep ==
  ASSUME NEW w \in Threads, Inv(w), TypeInv', NEW t \in Threads, PinLoad(t)
  PROVE  Inv(w)'
  <1>1. TypeOK /\ OwnSlot /\ Pinned
    BY DEF Inv, TypeInv
  <1>2. /\ index[t] \in Slots /\ pc[t] = "idle"
        /\ local' = [local EXCEPT ![t] = global]
        /\ pc' = [pc EXCEPT ![t] = "pin"]
        /\ UNCHANGED <<global, epoch, active, index, bags, scan, hand,
                       cur, made, freed, waits, early>>
    BY <1>1, RegisteredSlot DEF PinLoad, Goto, shared, client
  <1>3. /\ \A u \in Threads : u # t => pc'[u] = pc[u] /\ local'[u] = local[u]
        /\ pc'[t] = "pin"
    BY <1>1, <1>2 DEF TypeOK
  <1>4. OwnSlot' /\ Pinned'
    BY <1>1, <1>2, <1>3 DEF OwnSlot, Pinned
  <1>5. pc'[w] \in {"scan", "store"} => pc'[w] = pc[w] /\ local'[w] = local[w]
    BY <1>3
  <1>6. \A u \in Threads : pc'[u] \in Outside <=> pc[u] \in Outside
    BY <1>2, <1>3 DEF Outside
  <1>. QED
    BY <1>2, <1>4, <1>5, <1>6, NodesKept DEF Inv

\* Nodes do not wait for a slot that is only now pinned, in whatever epoch.
LEMMA PinStoreStep ==
  ASSUME NEW w \in Threads, Inv(w), TypeInv', NEW t \in Threads, PinStore(t)
  PROVE  Inv(w)'
  <1>1. TypeOK /\ OwnSlot /\ Pinned /\ WaitsForGuards
    BY DEF Inv, TypeInv
  <1>2. /\ pc[t] = "pin" /\ index[t] \in Slots
        /\ epoch' = [epoch EXCEPT ![index[t]] = local[t]]
        /\ waits' = [n \in Nodes |-> waits[n] \ {index[t]}]
        /\ local' = [local EXCEPT ![t] = 0]
        /\ pc' = [pc EXCEPT ![t] = "idle"]
        /\ UNCHANGED <<global, active, index, bags, scan, hand, cur, made, freed, early>>
    BY <1>1 DEF PinStore, Unprotect, Goto, OwnSlot
  <1>3. /\ \A u \in Threads : u # t => pc'[u] = pc[u] /\ local'[u] = local[u]
        /\ pc'[t] = "idle"
    BY <1>1, <1>2 DEF TypeOK
  <1>4. \A i \in Slots : i # index[t] => epoch'[i] = epoch[i]
    BY <1>1, <1>2 DEF TypeOK
  <1>5. OwnSlot'
    BY <1>1, <1>2, <1>3 DEF OwnSlot
  <1>6. Pinned'
    BY <1>1, <1>2, <1>4 DEF OwnSlot, Pinned
  <1>7. \A n \in Nodes : waits'[n] \subseteq waits[n] /\ \A i \in waits'[n] : epoch'[i] = epoch[i]
    BY <1>1, <1>2, <1>4 DEF WaitsForGuards
  <1>8. \A u \in Threads : pc'[u] \in Outside <=> pc[u] \in Outside
    BY <1>2, <1>3 DEF Outside
  <1>9. pc'[w] \in {"scan", "store"} => pc'[w] = pc[w] /\ local'[w] = local[w]
    BY <1>3
  <1>. QED
    BY <1>2, <1>5, <1>6, <1>7, <1>8, <1>9, NodesKept DEF Inv

\* A guard that is dropped unpins its slot.
LEMMA DropGuardStep ==
  ASSUME NEW w \in Threads, Inv(w), TypeInv', NEW j \in Slots, DropGuard(j)
  PROVE  Inv(w)'
  <1>1. TypeOK /\ OwnSlot /\ Pinned /\ WaitsForGuards
    BY DEF Inv, TypeInv
  <1>2. /\ epoch' = [epoch EXCEPT ![j] = UNPINNED]
        /\ waits' = [n \in Nodes |-> waits[n] \ {j}]
        /\ UNCHANGED <<global, active, index, bags, pc, local, scan, hand, cur, made, freed, early>>
    BY DEF DropGuard, Unprotect, thread
  <1>3. epoch'[j] = UNPINNED /\ \A i \in Slots : i # j => epoch'[i] = epoch[i]
    BY <1>1, <1>2 DEF TypeOK
  <1>4. OwnSlot'
    BY <1>1, <1>2 DEF OwnSlot
  <1>5. Pinned'
    BY <1>1, <1>2, <1>3 DEF Pinned
  <1>6. \A n \in Nodes : waits'[n] \subseteq waits[n] /\ \A i \in waits'[n] : epoch'[i] = epoch[i]
    BY <1>1, <1>2, <1>3 DEF WaitsForGuards
  <1>. QED
    BY <1>2, <1>4, <1>5, <1>6, NodesKept DEF Inv

-----------------------------------------------------------------------------
(* The steps of the retirer *)

\* A step of the retirer leaves the slots alone.
LEMMA SlotsKept ==
  ASSUME NEW w \in Threads, Inv(w), UNCHANGED <<epoch, active, index>>,
         index[w] \in Slots,
         \A u \in Threads : u # w => pc'[u] = pc[u]
  PROVE  OwnSlot' /\ Pinned'
  <1>1. OwnSlot /\ Pinned
    BY DEF Inv
  <1>. QED
    BY <1>1 DEF OwnSlot, Pinned

\* Only the retirer is ever inside defer or try_advance.
LEMMA RetirerIs ==
  ASSUME NEW w \in Threads, Inv(w), NEW t \in Threads, pc[t] \notin Outside
  PROVE  t = w /\ index[w] \in Slots
  BY DEF Inv, OneRetirer, OwnSlot, Outside

\* The node the shared pointer leaves is in no bag yet.
LEMMA UnlinkStep ==
  ASSUME NEW w \in Threads, Inv(w), TypeInv', Unlink(w)
  PROVE  Inv(w)'
  <1>1. /\ TypeOK /\ OneRetirer(w) /\ OnePlace(w) /\ WaitsForGuards
        /\ Looking(w) /\ Passed(w) /\ Holds(w) /\ FreedLate
    BY DEF Inv, TypeInv
  <1>2. /\ index[w] \in Slots /\ pc[w] = "idle"
        /\ hand' = [hand EXCEPT ![w] = cur]
        /\ made' = made + 1 /\ cur' = made + 1
        /\ waits' = [waits EXCEPT ![cur] = Guarded]
        /\ pc' = [pc EXCEPT ![w] = "defer"]
        /\ UNCHANGED <<global, epoch, active, index, bags, local, scan, freed, early>>
    BY <1>1, RegisteredSlot DEF Unlink, Goto, shared
  <1>3. cur = made /\ made \in Nat /\ cur \in Nodes
    BY <1>1, Names DEF OnePlace, TypeOK
  <1>4. hand'[w] = cur /\ pc'[w] = "defer"
    BY <1>1, <1>2 DEF TypeOK
  <1>5. \A u \in Threads : u # w => pc'[u] = pc[u] /\ hand'[u] = hand[u]
    BY <1>1, <1>2 DEF TypeOK
  <1>6. /\ \A n \in Nodes : n # cur => waits'[n] = waits[n]
        /\ waits'[cur] = Guarded
    BY <1>1, <1>2 DEF TypeOK
  <1>7. \A e \in Epochs : \A n \in bags[w][e] : n \in Nodes /\ n \in Nat /\ n < made /\ n # cur
    BY <1>1, <1>3, Names DEF OnePlace, TypeOK
  <1>8. \A n \in freed \cup early : n \in Nodes /\ n \in Nat /\ n < made /\ n # cur
    BY <1>1, <1>3, Names DEF OnePlace, TypeOK
  <1>9. OneRetirer(w)'
    BY <1>1, <1>2, <1>4, <1>5 DEF OneRetirer, Outside
  <1>10. OnePlace(w)'
    BY <1>1, <1>2, <1>3, <1>4, <1>7, <1>8 DEF OnePlace
  <1>11. WaitsForGuards'
    BY <1>1, <1>2, <1>6 DEF WaitsForGuards, Guarded
  <1>12. Looking(w)' /\ Passed(w)'
    BY <1>4 DEF Looking, Passed
  <1>13. Holds(w)'
    BY <1>1, <1>2, <1>6, <1>7 DEF Holds
  <1>14. FreedLate'
    BY <1>1, <1>2, <1>6, <1>8 DEF FreedLate
  <1>15. OwnSlot' /\ Pinned'
    BY <1>2, <1>4, <1>5, SlotsKept
  <1>. QED
    BY <1>9, <1>10, <1>11, <1>12, <1>13, <1>14, <1>15 DEF Inv

\* The bag of the current epoch is the one whose nodes wait longest.
LEMMA DeferStep ==
  ASSUME NEW w \in Threads, Inv(w), TypeInv', NEW t \in Threads, Defer(t) \/ DeferRetry(t)
  PROVE  Inv(w)'
  <1>1. /\ TypeInv /\ TypeOK /\ OneRetirer(w) /\ OnePlace(w) /\ WaitsForGuards
        /\ Looking(w) /\ Passed(w) /\ Holds(w) /\ FreedLate
    BY DEF Inv, TypeInv
  <1>2. t = w /\ index[w] \in Slots
    BY RetirerIs DEF Defer, DeferRetry, Outside
  <1>3. /\ pc[w] \in {"defer", "retry"}
        /\ bags' = [bags EXCEPT ![w][global] = @ \cup {hand[w]}]
        /\ hand' = [hand EXCEPT ![w] = NoNode]
        /\ pc' = [pc EXCEPT ![w] = "idle"]
        /\ UNCHANGED <<global, epoch, active, index, local, scan,
                       cur, made, freed, waits, early>>
    BY <1>2 DEF Defer, DeferRetry, Push, Goto, shared, client
  <1>4. hand[w] \in Nodes /\ hand[w] # NoNode /\ hand[w] < made /\ global \in Epochs
    BY <1>1, <1>3 DEF TypeInv, HasNode, TypeOK, OnePlace
  <1>5. hand'[w] = NoNode /\ pc'[w] = "idle"
    BY <1>1, <1>3 DEF TypeOK
  <1>6. \A u \in Threads : u # w => pc'[u] = pc[u] /\ hand'[u] = hand[u] /\ bags'[u] = bags[u]
    BY <1>1, <1>3 DEF TypeOK
  <1>7. /\ \A e \in Epochs : e # global => bags'[w][e] = bags[w][e]
        /\ bags'[w][global] = bags[w][global] \cup {hand[w]}
    BY <1>1, <1>3, <1>4 DEF TypeOK
  <1>8. \A e \in Epochs : \A n \in bags'[w][e] : n \in bags[w][e] \/ (n = hand[w] /\ e = global)
    BY <1>7
  <1>9. OneRetirer(w)'
    BY <1>1, <1>3, <1>5, <1>6 DEF OneRetirer, Outside
  <1>10. OnePlace(w)'
    <2>1. \A e \in Epochs : \A n \in bags'[w][e] : n < made' /\ n # hand'[w]
      <3>1. \A e \in Epochs : \A n \in bags[w][e] : n \in Nodes /\ n < made
        BY <1>1 DEF OnePlace, TypeOK
      <3>. QED
        BY <3>1, <1>3, <1>4, <1>5, <1>8, Names
    <2>2. \A e, f \in Epochs : \A n \in bags'[w][e] : n \in bags'[w][f] => e = f
      BY <1>1, <1>8 DEF OnePlace
    <2>. QED
      BY <2>1, <2>2, <1>1, <1>3, <1>5 DEF OnePlace
  <1>11. WaitsForGuards' /\ FreedLate'
    BY <1>1, <1>3 DEF WaitsForGuards, FreedLate
  <1>12. Looking(w)' /\ Passed(w)'
    BY <1>5 DEF Looking, Passed
  <1>13. Holds(w)'
    BY <1>1, <1>3, <1>8 DEF Holds
  <1>14. OwnSlot' /\ Pinned'
    BY <1>2, <1>3, <1>5, <1>6, SlotsKept
  <1>. QED
    BY <1>9, <1>10, <1>11, <1>12, <1>13, <1>14 DEF Inv

\* The node that finds no room leaves the hand.
LEMMA DeferFreeStep ==
  ASSUME NEW w \in Threads, Inv(w), TypeInv', NEW t \in Threads, DeferFree(t)
  PROVE  Inv(w)'
  <1>1. /\ TypeInv /\ TypeOK /\ OneRetirer(w) /\ OnePlace(w) /\ WaitsForGuards
        /\ Looking(w) /\ Passed(w) /\ Holds(w) /\ FreedLate
    BY DEF Inv, TypeInv
  <1>2. t = w /\ index[w] \in Slots
    BY RetirerIs DEF DeferFree, Outside
  <1>3. /\ pc[w] = "retry"
        /\ freed' = freed \cup {hand[w]} /\ early' = early \cup Waiting({hand[w]})
        /\ hand' = [hand EXCEPT ![w] = NoNode]
        /\ pc' = [pc EXCEPT ![w] = "idle"]
        /\ UNCHANGED <<global, epoch, active, index, bags, local, scan, cur, made, waits>>
    BY <1>2 DEF DeferFree, Goto, shared
  <1>4. hand[w] \in Nodes /\ hand[w] # NoNode /\ hand[w] < made
    BY <1>1, <1>3 DEF TypeInv, HasNode, TypeOK, OnePlace
  <1>5. hand'[w] = NoNode /\ pc'[w] = "idle"
    BY <1>1, <1>3 DEF TypeOK
  <1>6. \A u \in Threads : u # w => pc'[u] = pc[u] /\ hand'[u] = hand[u]
    BY <1>1, <1>3 DEF TypeOK
  <1>7. OneRetirer(w)'
    BY <1>1, <1>3, <1>5, <1>6 DEF OneRetirer, Outside
  <1>8. OnePlace(w)'
    <2>1. \A e \in Epochs : \A n \in bags[w][e] : n < made /\ n # NoNode
      BY <1>1, Names DEF OnePlace, TypeOK
    <2>. QED
      BY <2>1, <1>1, <1>3, <1>4, <1>5 DEF OnePlace, Waiting
  <1>9. WaitsForGuards' /\ FreedLate'
    BY <1>1, <1>3 DEF WaitsForGuards, FreedLate, Waiting
  <1>10. Looking(w)' /\ Passed(w)'
    BY <1>5 DEF Looking, Passed
  <1>11. Holds(w)'
    BY <1>1, <1>3 DEF Holds
  <1>12. OwnSlot' /\ Pinned'
    BY <1>2, <1>3, <1>5, <1>6, SlotsKept
  <1>. QED
    BY <1>7, <1>8, <1>9, <1>10, <1>11, <1>12 DEF Inv

\* Going on to try_advance, and its load of the epoch.
LEMMA AdvanceBegins ==
  ASSUME NEW w \in Threads, Inv(w), TypeInv',
         DeferFull(w) \/ Flush(w) \/ AdvanceLoad(w)
  PROVE  Inv(w)'
  <1>1. /\ TypeOK /\ OwnSlot /\ OneRetirer(w) /\ OnePlace(w) /\ WaitsForGuards
        /\ Looking(w) /\ Passed(w) /\ Holds(w) /\ FreedLate
    BY DEF Inv, TypeInv
  <1>2. /\ \/ pc' = [pc EXCEPT ![w] = "load"]
           \/ /\ pc' = [pc EXCEPT ![w] = "scan"]
              /\ local' = [local EXCEPT ![w] = global] /\ scan' = [scan EXCEPT ![w] = 0]
        /\ UNCHANGED <<global, epoch, active, index, bags, hand,
                       cur, made, freed, waits, early>>
    BY DEF DeferFull, Flush, AdvanceLoad, Goto, shared, client
  <1>3. index[w] \in Slots
    BY <1>1, RegisteredSlot DEF DeferFull, Flush, AdvanceLoad, OwnSlot
  <1>4. \A u \in Threads : u # w => pc'[u] = pc[u]
    BY <1>1, <1>2 DEF TypeOK
  <1>5. \/ pc'[w] = "load"
        \/ pc'[w] = "scan" /\ local'[w] = global /\ scan'[w] = 0
    BY <1>1, <1>2 DEF TypeOK
  <1>6. OneRetirer(w)'
    BY <1>1, <1>2, <1>4, <1>5 DEF OneRetirer, Outside
  <1>7. OnePlace(w)' /\ WaitsForGuards' /\ Holds(w)' /\ FreedLate'
    BY <1>1, <1>2 DEF OnePlace, WaitsForGuards, Holds, FreedLate
  <1>8. Looking(w)'
    BY <1>2, <1>5 DEF Looking
  <1>9. Passed(w)'
    <2>1. \A e \in Epochs : \A n \in bags[w][e] : \A i \in waits[n] : i \in Nat
      <3>1. \A e \in Epochs : bags[w][e] \subseteq Nodes
        BY <1>1 DEF TypeOK
      <3>. QED
        BY <3>1, <1>1, Names DEF WaitsForGuards
    <2>. QED
      BY <2>1, <1>2, <1>5 DEF Passed
  <1>10. OwnSlot' /\ Pinned'
    BY <1>2, <1>3, <1>4, <1>5, SlotsKept
  <1>. QED
    BY <1>6, <1>7, <1>8, <1>9, <1>10 DEF Inv

\* A slot that does not block is not pinned to another epoch.
LEMMA AdvanceScanStep ==
  ASSUME NEW w \in Threads, Inv(w), TypeInv', AdvanceScan(w)
  PROVE  Inv(w)'
  <1>1. /\ TypeOK /\ OwnSlot /\ Pinned /\ OneRetirer(w) /\ OnePlace(w) /\ WaitsForGuards
        /\ Looking(w) /\ Passed(w) /\ Holds(w) /\ FreedLate
    BY DEF Inv, TypeInv
  <1>2. /\ pc[w] = "scan" /\ scan[w] < MAX_THREADS
        /\ UNCHANGED <<global, epoch, active, index, bags, hand,
                       cur, made, freed, waits, early>>
    BY DEF AdvanceScan, shared, client
  <1>3. \/ pc' = [pc EXCEPT ![w] = After(w)]
        \/ /\ ~Blocks(scan[w], local[w]) /\ UNCHANGED local
           /\ scan' = [scan EXCEPT ![w] = @ + 1]
           /\ pc' = [pc EXCEPT ![w] = IF scan[w] + 1 = MAX_THREADS THEN "store" ELSE "scan"]
    BY DEF AdvanceScan, Goto
  <1>4. \A u \in Threads : u # w => pc'[u] = pc[u]
    BY <1>1, <1>3 DEF TypeOK
  <1>5. \/ pc'[w] = After(w)
        \/ /\ ~Blocks(scan[w], local[w]) /\ UNCHANGED local /\ scan'[w] = scan[w] + 1
           /\ pc'[w] = IF scan[w] + 1 = MAX_THREADS THEN "store" ELSE "scan"
    BY <1>1, <1>3 DEF TypeOK
  <1>6. After(w) = "retry" \/ (After(w) = "idle" /\ hand[w] = NoNode)
    BY DEF After
  <1>7. OneRetirer(w)'
    BY <1>1, <1>2, <1>4, <1>5, <1>6 DEF OneRetirer, Outside
  <1>8. OnePlace(w)' /\ WaitsForGuards' /\ Holds(w)' /\ FreedLate'
    BY <1>1, <1>2 DEF OnePlace, WaitsForGuards, Holds, FreedLate
  <1>9. Looking(w)'
    BY <1>1, <1>2, <1>5, <1>6 DEF Looking
  <1>10. Passed(w)'
    <2>1. CASE pc'[w] = After(w)
      BY <2>1, <1>6 DEF Passed
    <2>2. CASE ~Blocks(scan[w], local[w]) /\ scan'[w] = scan[w] + 1
      <3>1. ASSUME NEW e \in Epochs, NEW n \in bags[w][e], NEW i \in waits[n], i < scan[w] + 1
            PROVE  epoch[i] = global
        <4>1. i \in Slots /\ epoch[i] # UNPINNED
          BY <1>1 DEF WaitsForGuards, TypeOK
        <4>2. active[i]
          BY <4>1, <1>1 DEF Pinned
        <4>3. i \in Nat /\ scan[w] \in Nat
          BY <4>1, <1>1, Names DEF TypeOK
        <4>4. CASE i < scan[w]
          BY <4>4, <1>1, <1>2 DEF Passed
        <4>5. CASE i = scan[w]
          BY <4>1, <4>2, <4>5, <2>2, <1>1, <1>2 DEF Blocks, Looking
        <4>. QED
          BY <3>1, <4>3, <4>4, <4>5
      <3>. QED
        BY <3>1, <2>2, <1>2 DEF Passed
    <2>. QED
      BY <2>1, <2>2, <1>5
  <1>11. index[w] \in Slots
    BY <1>1, <1>2 DEF OwnSlot
  <1>12. OwnSlot' /\ Pinned'
    BY <1>2, <1>4, <1>5, <1>6, <1>11, SlotsKept
  <1>. QED
    BY <1>7, <1>8, <1>9, <1>10, <1>12 DEF Inv

\* When every slot was passed over, each slot that a node of a bag waits for
\* is pinned to the epoch that is left, and so the node is of that epoch.
LEMMA AdvanceStoreStep ==
  ASSUME NEW w \in Threads, Inv(w), TypeInv', AdvanceStore(w)
  PROVE  Inv(w)'
  <1>1. /\ TypeOK /\ OwnSlot /\ Pinned /\ OneRetirer(w) /\ OnePlace(w) /\ WaitsForGuards
        /\ Looking(w) /\ Passed(w) /\ Holds(w) /\ FreedLate
    BY DEF Inv, TypeInv
  <1>2. /\ pc[w] = "store" /\ global' = (local[w] + 1) % 3
        /\ pc' = [pc EXCEPT ![w] = "reclaim"]
        /\ UNCHANGED <<epoch, active, index, bags, hand,
                       cur, made, freed, waits, early>>
    BY DEF AdvanceStore, Goto, client
  <1>3. local[w] = global /\ scan[w] = MAX_THREADS /\ global \in Epochs
    BY <1>1, <1>2 DEF Looking, TypeOK
  <1>4. \A u \in Threads : u # w => pc'[u] = pc[u]
    BY <1>1, <1>2 DEF TypeOK
  <1>5. pc'[w] = "reclaim"
    BY <1>1, <1>2 DEF TypeOK
  <1>6. OneRetirer(w)'
    BY <1>1, <1>2, <1>4, <1>5 DEF OneRetirer, Outside
  <1>7. OnePlace(w)' /\ WaitsForGuards' /\ FreedLate'
    BY <1>1, <1>2 DEF OnePlace, WaitsForGuards, FreedLate
  <1>8. Looking(w)' /\ Passed(w)'
    BY <1>5 DEF Looking, Passed
  <1>9. Holds(w)'
    <2>1. ASSUME NEW e \in Epochs, NEW n \in bags[w][e], NEW i \in waits[n]
          PROVE  global' = (e + 1) % 3 /\ epoch[i] = e
      <3>1. i \in Slots
        BY <1>1 DEF WaitsForGuards, TypeOK
      <3>3. epoch[i] = global
        BY <3>1, <1>1, <1>2, <1>3, Names DEF Passed
      <3>4. global = e
        BY <3>3, <1>1, EpochArithmetic DEF Holds
      <3>. QED
        BY <3>3, <3>4, <1>2, <1>3
    <2>. QED
      BY <2>1, <1>2 DEF Holds
  <1>10. index[w] \in Slots
    BY <1>1, <1>2 DEF OwnSlot
  <1>11. OwnSlot' /\ Pinned'
    BY <1>2, <1>4, <1>5, <1>10, SlotsKept
  <1>. QED
    BY <1>6, <1>7, <1>8, <1>9, <1>11 DEF Inv

\* The nodes of the bag that is reclaimed wait for nobody.
LEMMA ReclaimedWaitForNobody ==
  ASSUME NEW w \in Threads, Inv(w), NEW n \in bags[w][(global + 1) % 3]
  PROVE  n \in Nodes /\ waits[n] = {}
  <1>1. TypeOK /\ Holds(w)
    BY DEF Inv, TypeInv
  <1>. DEFINE idx == (global + 1) % 3
  <1>2. global \in Epochs /\ idx \in Epochs /\ idx # global /\ (idx + 1) % 3 # global
    BY <1>1, EpochArithmetic DEF TypeOK
  <1>3. n \in Nodes
    BY <1>1, <1>2 DEF TypeOK
  <1>4. waits[n] \subseteq {}
    BY <1>1, <1>2 DEF Holds
  <1>. QED
    BY <1>3, <1>4

\* Reclaiming empties one bag.
LEMMA ReclaimStep ==
  ASSUME NEW w \in Threads, Inv(w), TypeInv', Reclaim(w)
  PROVE  Inv(w)'
  <1>. DEFINE idx == (global + 1) % 3
  <1>1. /\ TypeOK /\ OwnSlot /\ Pinned /\ OneRetirer(w) /\ OnePlace(w) /\ WaitsForGuards
        /\ Holds(w) /\ FreedLate
    BY DEF Inv, TypeInv
  <1>2. /\ pc[w] = "reclaim"
        /\ freed' = freed \cup bags[w][idx]
        /\ bags' = [bags EXCEPT ![w][idx] = {}]
        /\ pc' = [pc EXCEPT ![w] = After(w)]
        /\ UNCHANGED <<global, epoch, active, index, local, scan, hand,
                       cur, made, waits, early>>
    BY DEF Reclaim, Goto, shared
  <1>3. idx \in Epochs
    BY <1>1, EpochArithmetic DEF TypeOK
  <1>4. \A u \in Threads : u # w => pc'[u] = pc[u] /\ bags'[u] = bags[u]
    BY <1>1, <1>2 DEF TypeOK
  <1>5. pc'[w] = After(w) /\ (After(w) = "retry" \/ (After(w) = "idle" /\ hand[w] = NoNode))
    BY <1>1, <1>2 DEF TypeOK, After
  <1>6. \A e \in Epochs : bags'[w][e] \subseteq bags[w][e]
    BY <1>1, <1>2, <1>3 DEF TypeOK
  <1>7. OneRetirer(w)'
    BY <1>1, <1>2, <1>4, <1>5 DEF OneRetirer, Outside
  <1>8. OnePlace(w)'
    <2>1. \A n \in freed' : n < made
      BY <1>1, <1>2, <1>3 DEF OnePlace
    <2>. QED
      BY <2>1, <1>1, <1>2, <1>6 DEF OnePlace
  <1>9. WaitsForGuards'
    BY <1>1, <1>2 DEF WaitsForGuards
  <1>10. FreedLate'
    BY <1>1, <1>2, ReclaimedWaitForNobody DEF FreedLate
  <1>11. Looking(w)' /\ Passed(w)'
    BY <1>5 DEF Looking, Passed
  <1>12. Holds(w)'
    BY <1>1, <1>2, <1>6 DEF Holds
  <1>13. index[w] \in Slots
    BY <1>1, <1>2 DEF OwnSlot
  <1>14. OwnSlot' /\ Pinned'
    BY <1>2, <1>4, <1>5, <1>13, SlotsKept
  <1>. QED
    BY <1>7, <1>8, <1>9, <1>10, <1>11, <1>12, <1>14 DEF Inv

-----------------------------------------------------------------------------
(* The invariant with one retirer *)

\* Nothing is registered, pinned or retired.
LEMMA InitInv == \A w \in Threads : Init => Inv(w)
  <1>. SUFFICES ASSUME NEW w \in Threads, Init PROVE Inv(w)
    OBVIOUS
  <1>1. TypeInv
    BY InitTypes
  <1>2. OwnSlot /\ Pinned
    BY Names DEF Init, OwnSlot, Pinned, NoSlot
  <1>3. OneRetirer(w) /\ OnePlace(w)
    BY DEF Init, OneRetirer, OnePlace, Outside, EmptyBags
  <1>4. WaitsForGuards /\ Looking(w) /\ Passed(w) /\ FreedLate
    BY DEF Init, WaitsForGuards, Looking, Passed, FreedLate
  <1>5. Holds(w)
    BY DEF Init, Holds, EmptyBags
  <1>. QED
    BY <1>1, <1>2, <1>3, <1>4, <1>5 DEF Inv

\* No step breaks it when w is the only retirer.
LEMMA NextInv ==
  \A w \in Threads : Retirers = {w} /\ Inv(w) /\ [Next]_vars => Inv(w)'
  <1>. SUFFICES ASSUME NEW w \in Threads, Retirers = {w}, Inv(w), [Next]_vars
                PROVE  Inv(w)'
    OBVIOUS
  <1>1. TypeInv'
    BY NextTypes DEF Inv
  <1>2. CASE UNCHANGED vars
    <2>1. UNCHANGED <<global, epoch, active, index, bags, pc, local, scan, hand,
                      cur, made, freed, waits, early>>
      BY <1>2 DEF vars, shared, thread, client
    <2>2. OwnSlot' /\ Pinned' /\ OneRetirer(w)' /\ OnePlace(w)' /\ WaitsForGuards'
      BY <2>1 DEF Inv, OwnSlot, Pinned, OneRetirer, OnePlace, WaitsForGuards
    <2>3. Looking(w)' /\ Passed(w)' /\ Holds(w)' /\ FreedLate'
      BY <2>1 DEF Inv, Looking, Passed, Holds, FreedLate
    <2>. QED
      BY <1>1, <2>2, <2>3 DEF Inv
  <1>3. ASSUME NEW t \in Threads,
               \/ Register(t) \/ Destroy(t) \/ DropLocal(t) \/ Unregister(t)
               \/ PinLoad(t) \/ PinStore(t)
        PROVE  Inv(w)'
    BY <1>1, <1>3, RegisterStep, DestroyStep, UnregisterStep, PinLoadStep, PinStoreStep
  <1>7. ASSUME NEW i \in Slots, DropGuard(i) PROVE Inv(w)'
    BY <1>1, <1>7, DropGuardStep
  <1>4. ASSUME NEW t \in Threads, Unlink(t) \/ Flush(t)
        PROVE  Inv(w)'
    <2>1. t = w
      BY <1>4 DEF Unlink, Flush
    <2>. QED
      BY <1>1, <1>4, <2>1, UnlinkStep, AdvanceBegins
  <1>5. ASSUME NEW t \in Threads, Defer(t) \/ DeferRetry(t) \/ DeferFree(t)
        PROVE  Inv(w)'
    BY <1>1, <1>5, DeferStep, DeferFreeStep
  <1>6. ASSUME NEW t \in Threads, DeferFull(t) \/ Advance(t)
        PROVE  Inv(w)'
    <2>1. pc[t] \notin Outside
      BY <1>6 DEF DeferFull, Advance, AdvanceLoad, AdvanceScan, AdvanceStore, Reclaim, Outside
    <2>2. t = w
      BY <2>1, RetirerIs
    <2>. QED
      BY <1>1, <1>6, <2>2, AdvanceBegins, AdvanceScanStep, AdvanceStoreStep, ReclaimStep
      DEF Advance
  <1>. QED
    BY <1>2, <1>3, <1>4, <1>5, <1>6, <1>7 DEF Next, Inside

\* ebr.rs lines 65-223 with one retiring thread: what holds of slots, bags and
\* epochs in every state.
THEOREM RetirerInvariant ==
  ASSUME NEW w \in Threads, Retirers = {w}
  PROVE  Spec => []Inv(w)
  <1>1. Init => Inv(w)
    BY InitInv
  <1>2. Inv(w) /\ [Next]_vars => Inv(w)'
    BY NextInv
  <1>. QED
    BY <1>1, <1>2, PTL DEF Spec

\* ebr_test.rs line 78, with one retiring thread: what an advance of the epoch
\* reclaims was waited for by no slot any more.  A node freed while one that was
\* pinned at its unlinking still is, was freed by a defer without room (ebr.rs
\* line 203), by destroy (177-183) or by the drop of its owner (217-222).
THEOREM FreedAfterGuards ==
  ASSUME NEW w \in Threads, Retirers = {w}
  PROVE  Spec => []NoUseAfterFree
  <1>1. Inv(w) => NoUseAfterFree
    BY DEF Inv, FreedLate, NoUseAfterFree
  <1>. QED
    BY <1>1, RetirerInvariant, PTL

-----------------------------------------------------------------------------
(* The promise *)

\* What is retired is in the retirer's hand or bags.
LEMMA RetiredIs ==
  \A w \in Threads : Inv(w) =>
    Retired = {n \in Nodes : hand[w] = n \/ \E e \in Epochs : n \in bags[w][e]}
  <1>. SUFFICES ASSUME NEW w \in Threads, Inv(w)
                PROVE  Retired = {n \in Nodes : hand[w] = n \/ \E e \in Epochs : n \in bags[w][e]}
    OBVIOUS
  <1>1. \A t \in Threads : t # w => hand[t] = NoNode /\ \A e \in Epochs : bags[t][e] = {}
    BY DEF Inv, OneRetirer, EmptyBags
  <1>. QED
    BY <1>1, Names DEF Retired

\* The same of the state after a step.
LEMMA RetiredIsNext ==
  \A w \in Threads : Inv(w)' =>
    Retired' = {n \in Nodes : hand'[w] = n \/ \E e \in Epochs : n \in bags'[w][e]}
  <1>. SUFFICES ASSUME NEW w \in Threads, Inv(w)'
                PROVE  Retired' = {n \in Nodes : hand'[w] = n \/ \E e \in Epochs : n \in bags'[w][e]}
    OBVIOUS
  <1>1. \A t \in Threads : t # w => hand'[t] = NoNode /\ \A e \in Epochs : bags'[t][e] = {}
    BY DEF Inv, OneRetirer, EmptyBags
  <1>. QED
    BY <1>1, Names DEF Retired

\* A step that moves no slot, no node and no history is not seen.
LEMMA NotSeen ==
  ASSUME UNCHANGED <<epoch, waits, early, freed>>, Retired' = Retired
  PROVE  UNCHANGED Promise!vars
  BY DEF Promise!vars, Guarded

\* Steps that leave the hand and the bags alone retire and free nothing.
LEMMA SameRetired ==
  ASSUME UNCHANGED <<hand, bags>>
  PROVE  Retired' = Retired
  BY DEF Retired

\* destroy and the drop of the thread-local part free bags and look at nobody.
LEMMA DestroyFrees ==
  ASSUME NEW w \in Threads, Inv(w), Inv(w)', NEW t \in Threads, Destroy(t) \/ DropLocal(t)
  PROVE  Promise!Next
  <1>. DEFINE N == UNION {bags[t][e] : e \in Epochs}
  <1>1. TypeOK /\ OneRetirer(w) /\ OnePlace(w)
    BY DEF Inv, TypeInv
  <1>2. /\ pc[t] = "idle"
        /\ freed' = freed \cup N /\ early' = early \cup {n \in N : waits[n] # {}}
        /\ bags' = [bags EXCEPT ![t] = EmptyBags]
        /\ UNCHANGED <<epoch, hand, waits>>
    BY DEF Destroy, DropLocal, ReclaimAll, Waiting, shared
  <1>3. N \subseteq Nodes /\ N \subseteq Retired
    BY <1>1 DEF TypeOK, Retired
  <1>4. /\ \A e \in Epochs : bags'[t][e] = {}
        /\ \A u \in Threads : u # t => bags'[u] = bags[u]
    BY <1>1, <1>2 DEF TypeOK, EmptyBags
  <1>5. \A n \in N : \A u \in Threads : hand[u] # n
    BY <1>1, <1>2, <1>3, Names DEF OneRetirer, OnePlace, EmptyBags
  <1>6. Retired' = Retired \ N
    <2>1. ASSUME NEW n \in N PROVE n \notin Retired'
      <3>1. \A u \in Threads : u # t => \A e \in Epochs : n \notin bags[u][e]
        BY <1>1 DEF OneRetirer, EmptyBags
      <3>. QED
        BY <2>1, <3>1, <1>2, <1>4, <1>5 DEF Retired
    <2>2. ASSUME NEW n \in Retired, n \notin N PROVE n \in Retired'
      BY <2>2, <1>2, <1>4 DEF Retired
    <2>3. ASSUME NEW n \in Retired' PROVE n \in Retired
      BY <2>3, <1>2, <1>4 DEF Retired
    <2>. QED
      BY <2>1, <2>2, <2>3
  <1>7. Guarded' = Guarded
    BY <1>2 DEF Guarded
  <1>8. Promise!FreeEarly(N)
    BY <1>2, <1>3, <1>6, <1>7 DEF Promise!FreeEarly
  <1>. QED
    BY <1>3, <1>8 DEF Promise!Next

\* A slot is pinned at the store of its epoch.
LEMMA PinStorePins ==
  ASSUME NEW w \in Threads, Inv(w), NEW t \in Threads, PinStore(t)
  PROVE  Promise!Next
  <1>1. TypeOK /\ OwnSlot
    BY DEF Inv, TypeInv
  <1>2. /\ index[t] \in Slots /\ local[t] \in Epochs
        /\ epoch' = [epoch EXCEPT ![index[t]] = local[t]]
        /\ waits' = [n \in Nodes |-> waits[n] \ {index[t]}]
        /\ UNCHANGED <<hand, bags, freed, early>>
    BY <1>1 DEF PinStore, Unprotect, OwnSlot, TypeOK
  <1>3. /\ epoch'[index[t]] # UNPINNED
        /\ \A i \in Slots : i # index[t] => epoch'[i] = epoch[i]
    BY <1>1, <1>2, EpochArithmetic DEF TypeOK
  <1>4. Guarded' = Guarded \cup {index[t]}
    BY <1>2, <1>3 DEF Guarded
  <1>5. Retired' = Retired
    BY <1>2, SameRetired
  <1>6. Promise!Pin(index[t])
    BY <1>2, <1>4, <1>5 DEF Promise!Pin
  <1>. QED
    BY <1>2, <1>6 DEF Promise!Next

\* A slot is unpinned, or was already.
LEMMA UnpinsSlot ==
  ASSUME NEW w \in Threads, Inv(w), NEW j \in Slots,
         epoch' = [epoch EXCEPT ![j] = UNPINNED],
         waits' = [n \in Nodes |-> waits[n] \ {j}],
         UNCHANGED <<hand, bags, freed, early>>
  PROVE  [Promise!Next]_(Promise!vars)
  <1>1. TypeOK /\ WaitsForGuards
    BY DEF Inv, TypeInv
  <1>2. epoch'[j] = UNPINNED /\ \A i \in Slots : i # j => epoch'[i] = epoch[i]
    BY <1>1 DEF TypeOK
  <1>3. Guarded' = Guarded \ {j}
    BY <1>2 DEF Guarded
  <1>4. Retired' = Retired
    BY SameRetired
  <1>5. CASE j \in Guarded
    <2>1. Promise!Unpin(j)
      BY <1>3, <1>4, <1>5 DEF Promise!Unpin
    <2>. QED
      BY <2>1 DEF Promise!Next
  <1>6. CASE j \notin Guarded
    <2>1. \A n \in Nodes : j \notin waits[n]
      BY <1>1, <1>6 DEF WaitsForGuards, Guarded
    <2>2. waits = [n \in Nodes |-> waits[n]]
      BY <1>1 DEF TypeOK
    <2>3. \A n \in Nodes : waits[n] \ {j} = waits[n]
      BY <2>1
    <2>4. waits' = waits
      BY <2>2, <2>3
    <2>. QED
      BY <2>4, <1>3, <1>4, <1>6 DEF Promise!vars
  <1>. QED
    BY <1>5, <1>6

\* Giving a slot up and dropping a guard unpin the slot.
LEMMA UnpinUnpins ==
  ASSUME NEW w \in Threads, Inv(w),
         \/ \E t \in Threads : Unregister(t)
         \/ \E i \in Slots : DropGuard(i)
  PROVE  [Promise!Next]_(Promise!vars)
  <1>1. ASSUME NEW t \in Threads, Unregister(t)
        PROVE  [Promise!Next]_(Promise!vars)
    <2>1. index[t] \in Slots
      BY <1>1 DEF Unregister, Inv, OwnSlot
    <2>. QED
      BY <1>1, <2>1, UnpinsSlot DEF Unregister, Unprotect
  <1>2. ASSUME NEW i \in Slots, DropGuard(i)
        PROVE  [Promise!Next]_(Promise!vars)
    BY <1>2, UnpinsSlot DEF DropGuard, Unprotect, thread
  <1>. QED
    BY <1>1, <1>2

\* A node is retired when the shared pointer leaves it.
LEMMA UnlinkRetires ==
  ASSUME NEW w \in Threads, Inv(w), Inv(w)', Unlink(w)
  PROVE  Promise!Next
  <1>1. TypeOK /\ OneRetirer(w) /\ OnePlace(w)
    BY DEF Inv, TypeInv
  <1>2. /\ pc[w] = "idle" /\ hand' = [hand EXCEPT ![w] = cur]
        /\ waits' = [waits EXCEPT ![cur] = Guarded]
        /\ UNCHANGED <<bags, epoch, early, freed>>
    BY DEF Unlink, shared
  <1>3. cur \in Nodes /\ cur = made /\ made \in Nat /\ hand[w] = NoNode
    BY <1>1, <1>2, Names DEF OneRetirer, OnePlace, Outside, TypeOK
  <1>4. cur \notin freed
    BY <1>1, <1>3 DEF OnePlace
  <1>5. cur \notin Retired
    BY <1>1, <1>3, RetiredIs, Names DEF OnePlace
  <1>6. hand'[w] = cur /\ \A u \in Threads : u # w => hand'[u] = hand[u]
    BY <1>1, <1>2 DEF TypeOK
  <1>7. Retired' = Retired \cup {cur}
    BY <1>2, <1>3, <1>6, Names DEF Retired
  <1>8. Guarded' = Guarded
    BY <1>2 DEF Guarded
  <1>10. PICK n \in Nodes : n = cur
    BY <1>3
  <1>11. Promise!Retire(n)
    BY <1>2, <1>4, <1>5, <1>7, <1>8, <1>10 DEF Promise!Retire
  <1>. QED
    BY <1>11 DEF Promise!Next

\* A node that goes from the hand to a bag stays retired.
LEMMA DeferNotSeen ==
  ASSUME NEW w \in Threads, Inv(w), Inv(w)', NEW t \in Threads, Defer(t) \/ DeferRetry(t)
  PROVE  UNCHANGED Promise!vars
  <1>1. TypeOK
    BY DEF Inv, TypeInv
  <1>2. t = w
    BY RetirerIs DEF Defer, DeferRetry, Outside
  <1>3. /\ bags' = [bags EXCEPT ![w][global] = @ \cup {hand[w]}]
        /\ hand' = [hand EXCEPT ![w] = NoNode]
        /\ UNCHANGED <<epoch, waits, early, freed>>
    BY <1>2 DEF Defer, DeferRetry, Push, shared, client
  <1>4. global \in Epochs
    BY <1>1 DEF TypeOK
  <1>5. /\ \A e \in Epochs : e # global => bags'[w][e] = bags[w][e]
        /\ bags'[w][global] = bags[w][global] \cup {hand[w]}
        /\ hand'[w] = NoNode
    BY <1>1, <1>3, <1>4 DEF TypeOK
  <1>6. \A n \in Nodes :
          (hand'[w] = n \/ \E e \in Epochs : n \in bags'[w][e])
            <=> (hand[w] = n \/ \E e \in Epochs : n \in bags[w][e])
    BY <1>4, <1>5, Names
  <1>7. Retired = {n \in Nodes : hand[w] = n \/ \E e \in Epochs : n \in bags[w][e]}
    BY RetiredIs
  <1>8. Retired' = {n \in Nodes : hand'[w] = n \/ \E e \in Epochs : n \in bags'[w][e]}
    BY RetiredIsNext
  <1>9. Retired' = Retired
    BY <1>6, <1>7, <1>8
  <1>. QED
    BY <1>3, <1>9, NotSeen

\* The node that finds no room is freed whoever looks at it.
LEMMA DeferFreeFrees ==
  ASSUME NEW w \in Threads, Inv(w), Inv(w)', NEW t \in Threads, DeferFree(t)
  PROVE  Promise!Next
  <1>1. TypeInv /\ TypeOK /\ OnePlace(w)
    BY DEF Inv, TypeInv
  <1>2. t = w
    BY RetirerIs DEF DeferFree, Outside
  <1>3. /\ pc[w] = "retry"
        /\ freed' = freed \cup {hand[w]}
        /\ early' = early \cup {n \in {hand[w]} : waits[n] # {}}
        /\ hand' = [hand EXCEPT ![w] = NoNode]
        /\ UNCHANGED <<bags, epoch, waits>>
    BY <1>2 DEF DeferFree, Waiting, shared
  <1>4. hand[w] \in Nodes
    BY <1>1, <1>3 DEF TypeInv, HasNode, TypeOK
  <1>5. hand'[w] = NoNode /\ \A u \in Threads : u # w => hand'[u] = hand[u]
    BY <1>1, <1>3 DEF TypeOK
  <1>6. Retired = {n \in Nodes : hand[w] = n \/ \E e \in Epochs : n \in bags[w][e]}
    BY RetiredIs
  <1>7. Retired' = {n \in Nodes : hand'[w] = n \/ \E e \in Epochs : n \in bags'[w][e]}
    BY RetiredIsNext
  <1>8. hand[w] \in Retired /\ Retired' = Retired \ {hand[w]}
    BY <1>1, <1>3, <1>4, <1>5, <1>6, <1>7, Names DEF OnePlace
  <1>9. Guarded' = Guarded
    BY <1>3 DEF Guarded
  <1>10. Promise!FreeEarly({hand[w]})
    BY <1>3, <1>8, <1>9 DEF Promise!FreeEarly
  <1>. QED
    BY <1>8, <1>10 DEF Promise!Next

\* A bag is reclaimed.
LEMMA ReclaimFrees ==
  ASSUME NEW w \in Threads, Inv(w), Inv(w)', Reclaim(w)
  PROVE  Promise!Next
  <1>. DEFINE idx == (global + 1) % 3
  <1>. DEFINE N == bags[w][idx]
  <1>1. TypeOK /\ OnePlace(w)
    BY DEF Inv, TypeInv
  <1>2. /\ freed' = freed \cup N
        /\ bags' = [bags EXCEPT ![w][idx] = {}]
        /\ UNCHANGED <<hand, epoch, waits, early>>
    BY DEF Reclaim, shared
  <1>3. idx \in Epochs
    BY <1>1, EpochArithmetic DEF TypeOK
  <1>4. N \subseteq Nodes /\ \A n \in N : waits[n] = {}
    BY ReclaimedWaitForNobody
  <1>6. bags'[w][idx] = {} /\ \A e \in Epochs : e # idx => bags'[w][e] = bags[w][e]
    BY <1>1, <1>2, <1>3 DEF TypeOK
  <1>7. Retired = {n \in Nodes : hand[w] = n \/ \E e \in Epochs : n \in bags[w][e]}
    BY RetiredIs
  <1>8. Retired' = {n \in Nodes : hand'[w] = n \/ \E e \in Epochs : n \in bags'[w][e]}
    BY RetiredIsNext
  <1>9. N \subseteq Retired
    BY <1>3, <1>4, <1>7
  <1>10. Retired' = Retired \ N
    <2>1. \A n \in N : hand[w] # n /\ \A e \in Epochs : n \in bags[w][e] => e = idx
      BY <1>1, <1>3 DEF OnePlace
    <2>2. \A n \in Nodes : (\E e \in Epochs : n \in bags'[w][e])
                             <=> (\E e \in Epochs : n \in bags[w][e]) /\ n \notin N
      BY <2>1, <1>3, <1>6
    <2>. QED
      BY <2>1, <2>2, <1>2, <1>7, <1>8
  <1>11. Guarded' = Guarded
    BY <1>2 DEF Guarded
  <1>12. Promise!Free(N)
    BY <1>2, <1>4, <1>9, <1>10, <1>11 DEF Promise!Free
  <1>. QED
    BY <1>9, <1>12 DEF Promise!Next

\* ebr.rs lines 65-223 keep the promise of GracePeriod, for any number of
\* readers, guards, slots and nodes, as long as one thread retires: a node is
\* retired once and freed once; an advance frees it when no slot is pinned that
\* has been since its unlinking; and what a defer without room, destroy or Drop
\* frees before that is recorded in early.
THEOREM KeepsGracePeriod ==
  ASSUME NEW w \in Threads, Retirers = {w}
  PROVE  Spec => ImplementsGracePeriod
  <1>1. Init => Promise!Init
    <2>. SUFFICES ASSUME Init PROVE Promise!Init
      OBVIOUS
    <2>1. Guarded = {} /\ freed = {} /\ early = {} /\ waits = [n \in Nodes |-> {}]
      BY DEF Init, Guarded
    <2>2. Retired = {}
      BY Names DEF Init, Retired, EmptyBags
    <2>. QED
      BY <2>1, <2>2 DEF Promise!Init
  <1>2. Inv(w) /\ Inv(w)' /\ [Next]_vars => [Promise!Next]_(Promise!vars)
    <2>. SUFFICES ASSUME Inv(w), Inv(w)', [Next]_vars
                  PROVE  [Promise!Next]_(Promise!vars)
      OBVIOUS
    <2>1. CASE UNCHANGED vars
      <3>1. UNCHANGED <<epoch, waits, early, freed, hand, bags>>
        BY <2>1 DEF vars, shared, thread, client
      <3>. QED
        BY <3>1, SameRetired, NotSeen
    <2>2. ASSUME NEW t \in Threads,
                 \/ Register(t) \/ PinLoad(t) \/ DeferFull(t) \/ Flush(t)
                 \/ AdvanceLoad(t) \/ AdvanceScan(t) \/ AdvanceStore(t)
          PROVE  [Promise!Next]_(Promise!vars)
      <3>1. UNCHANGED <<epoch, waits, early, freed, hand, bags>>
        BY <2>2 DEF Register, PinLoad, DeferFull, Flush, AdvanceLoad, AdvanceScan,
                    AdvanceStore, shared, client
      <3>. QED
        BY <3>1, SameRetired, NotSeen
    <2>3. ASSUME NEW t \in Threads,
                 Destroy(t) \/ DropLocal(t) \/ PinStore(t) \/ DeferFree(t)
          PROVE  [Promise!Next]_(Promise!vars)
      BY <2>3, DestroyFrees, PinStorePins, DeferFreeFrees
    <2>7. CASE \/ \E t \in Threads : Unregister(t)
               \/ \E i \in Slots : DropGuard(i)
      BY <2>7, UnpinUnpins
    <2>4. ASSUME NEW t \in Threads, Defer(t) \/ DeferRetry(t)
          PROVE  [Promise!Next]_(Promise!vars)
      BY <2>4, DeferNotSeen
    <2>5. ASSUME NEW t \in Threads, Unlink(t)
          PROVE  [Promise!Next]_(Promise!vars)
      <3>1. t = w
        BY <2>5 DEF Unlink
      <3>. QED
        BY <2>5, <3>1, UnlinkRetires
    <2>6. ASSUME NEW t \in Threads, Reclaim(t)
          PROVE  [Promise!Next]_(Promise!vars)
      <3>1. t = w
        BY <2>6, RetirerIs DEF Reclaim, Outside
      <3>. QED
        BY <2>6, <3>1, ReclaimFrees
    <2>. QED
      BY <2>1, <2>2, <2>3, <2>4, <2>5, <2>6, <2>7 DEF Next, Inside, Advance
  <1>3. Spec => []Inv(w)
    BY RetirerInvariant
  <1>. QED
    BY <1>1, <1>2, <1>3, PTL DEF Spec, ImplementsGracePeriod, Promise!Spec
=============================================================================
