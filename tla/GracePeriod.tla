---------------------------- MODULE GracePeriod -----------------------------
(***************************************************************************)
(* What the collector of tier2_concurrency/src/ebr.rs promises to its      *)
(* clients: a node that was retired is freed only when every holder of a   *)
(* guard at that time has dropped it or pinned again.  Guards that come    *)
(* later cannot reach the node, because it was unlinked before.            *)
(*                                                                         *)
(* The promise has the exceptions the code has: frees that look at nobody. *)
(* What they take from under a guard is recorded in early.                 *)
(***************************************************************************)
EXTENDS FiniteSets

CONSTANTS
  Threads,  \* who holds guards
  Nodes

VARIABLES
  guards,   \* those that are pinned
  retired,  \* the nodes that were retired and are not freed yet
  waits,    \* waits[n]: those who may still look at n
  freed,    \* the nodes whose destructor has run
  early     \* those of them that were freed while somebody might look

vars == <<guards, retired, waits, freed, early>>

Init ==
  /\ guards = {} /\ retired = {} /\ freed = {} /\ early = {}
  /\ waits = [n \in Nodes |-> {}]

\* Pinning again gives up what was protected before.
Pin(t) ==
  /\ guards' = guards \cup {t}
  /\ waits' = [n \in Nodes |-> waits[n] \ {t}]
  /\ UNCHANGED <<retired, freed, early>>

Unpin(t) ==
  /\ t \in guards
  /\ guards' = guards \ {t}
  /\ waits' = [n \in Nodes |-> waits[n] \ {t}]
  /\ UNCHANGED <<retired, freed, early>>

\* The client has unlinked n.
Retire(n) ==
  /\ n \notin retired \cup freed
  /\ retired' = retired \cup {n}
  /\ waits' = [waits EXCEPT ![n] = guards]
  /\ UNCHANGED <<guards, freed, early>>

\* A bag of retired nodes is reclaimed after an advance of the epoch.
Free(N) ==
  /\ N \subseteq retired
  /\ \A n \in N : waits[n] = {}
  /\ retired' = retired \ N
  /\ freed' = freed \cup N
  /\ UNCHANGED <<guards, waits, early>>

\* The bags are full, or their owner goes away: nodes are freed whoever looks.
FreeEarly(N) ==
  /\ N \subseteq retired
  /\ retired' = retired \ N
  /\ freed' = freed \cup N
  /\ early' = early \cup {n \in N : waits[n] # {}}
  /\ UNCHANGED <<guards, waits>>

Next ==
  \/ \E t \in Threads : Pin(t) \/ Unpin(t)
  \/ \E n \in Nodes : Retire(n)
  \/ \E N \in SUBSET retired : Free(N) \/ FreeEarly(N)

Spec == Init /\ [][Next]_vars
=============================================================================
