--------------------------- MODULE SkipListProofs ---------------------------
(***************************************************************************)
(* Proofs about SkipList for any threads, keys, tower heights and number   *)
(* of inserts.                                                             *)
(***************************************************************************)
EXTENDS SkipList, FiniteSetTheorems, TLAPS

-----------------------------------------------------------------------------
(* The inductive invariant *)

Inserting(t) == pc[t] \in {"raise", "find", "link"}

\* The head, or a node whose insert has linked it in level l.
OnLevel(p, l) == p = Head \/ (p \in Nodes /\ LinkedBy(p, l))

\* Nothing of p's key follows p in level l.
LastOfKey(p, l) == next[p][l] # Null => key[next[p][l]] > key[p]

\* Allocated nodes have a key, the head has none.
Keyed ==
  /\ key[Head] = NoKey
  /\ \A n \in Nodes : n <= made => key[n] \in Keys

\* Every insert has a node of its own.
OwnNode ==
  /\ \A t \in Threads :
       Inserting(t) => /\ node[t] \in Nodes /\ node[t] <= made
                       /\ target[t] = key[node[t]]
                       /\ level[t] <= height[node[t]]
  /\ \A t, u \in Threads :
       Inserting(t) /\ Inserting(u) /\ node[t] = node[u] => t = u

\* What a node points at is in the level, even if the node itself is not yet.
PointsIntoLevel ==
  \A l \in Levels, p \in Nodes \cup {Head} :
    next[p][l] # Null => LinkedBy(next[p][l], l)

\* Every node of a level has one predecessor in it.
HasPredecessor ==
  \A l \in Levels, n \in Nodes :
    LinkedBy(n, l) => \E p \in Nodes \cup {Head} : OnLevel(p, l) /\ next[p][l] = n

OnePredecessor ==
  \A l \in Levels : \A p, q \in Nodes \cup {Head} :
    OnLevel(p, l) /\ OnLevel(q, l) /\ next[p][l] # Null /\ next[p][l] = next[q][l] => p = q

\* Keys do not decrease along a level.
Sorted ==
  \A l \in Levels, p \in Nodes \cup {Head} :
    OnLevel(p, l) /\ next[p][l] # Null => key[p] <= key[next[p][l]]

\* No link jumps over a node of the level.
NoGap ==
  \A l \in Levels : \A p \in Nodes \cup {Head}, n \in Nodes :
    OnLevel(p, l) /\ LinkedBy(n, l) /\ key[p] < key[n] =>
      next[p][l] # Null /\ key[next[p][l]] <= key[n]

\* The nodes of one key are one run: only one of them is its last.
OneRun ==
  \A l \in Levels : \A p, q \in Nodes \cup {Head} :
    /\ OnLevel(p, l) /\ OnLevel(q, l) /\ key[p] = key[q]
    /\ LastOfKey(p, l) /\ LastOfKey(q, l)
    => p = q

Chain ==
  /\ PointsIntoLevel /\ HasPredecessor /\ OnePredecessor
  /\ Sorted /\ NoGap /\ OneRun

\* A pair of neighbours that was found may be out of date, but not wrong.
FoundBy(t) ==
  pc[t] = "link" =>
    /\ OnLevel(pred[t], level[t])
    /\ key[pred[t]] < target[t]
    /\ succ[t] # Null => LinkedBy(succ[t], level[t]) /\ key[succ[t]] >= target[t]
    /\ next[node[t]][level[t]] = succ[t]

\* get stays in the level, before the key.
WalksBefore(t) ==
  pc[t] = "walk" =>
    /\ OnLevel(pred[t], level[t]) /\ key[pred[t]] < target[t]
    /\ \A n \in before[t] : LinkedBy(n, 1) /\ key[n] = target[t]

\* get does not answer that there is none when there was one.
ReturnsOne(t) == pc[t] = "return" /\ before[t] # {} => node[t] # Null

Positions == \A t \in Threads : FoundBy(t) /\ WalksBefore(t) /\ ReturnsOne(t)

\* The nodes whose insert is done are the ones that are counted.
Finished == {n \in Nodes : n <= made /\ \A t \in Threads : Inserting(t) => node[t] # n}

Counted == size = Cardinality(Finished)

Inv ==
  TypeOK /\ Keyed /\ OwnNode /\ Chain /\ Positions /\ Counted

-----------------------------------------------------------------------------
(* Lemmas *)

\* The head, Null and the nodes are all different.
LEMMA Names ==
  /\ Head \notin Nodes /\ Null \notin Nodes /\ Head # Null
  /\ \A n \in Nodes : n \in Nat /\ n # Head /\ n # Null
  /\ Null \in Int /\ Head \in Int
  /\ 1 \in Levels
  /\ \A l \in Levels : l \in Nat /\ l >= 1 /\ l <= MAX_HEIGHT
  /\ \A k \in Keys : k \in Nat /\ k >= 1
  /\ 1 \in Keys
  BY NodesAssumption, HeightAssumption, ListKeysAssumption
  DEF Nodes, Head, Null, Levels, Keys

\* Keys, of nodes and of the head, are numbers.
LEMMA KeysAreInts == TypeOK => \A p \in Nodes \cup {Head} : key[p] \in Int
  <1>1. Keys \cup {NoKey} \subseteq Int
    BY ListKeysAssumption DEF Keys, NoKey
  <1>. QED
    BY <1>1 DEF TypeOK

\* A pointer is Null or a node.
LEMMA PointersAreNodes ==
  TypeOK => \A p \in Nodes \cup {Head}, l \in Levels : next[p][l] # Null => next[p][l] \in Nodes
  BY DEF TypeOK

\* The finished nodes are finitely many, at most MaxNodes.
LEMMA FinishedFinite ==
  \A S : S \subseteq Nodes => IsFiniteSet(S) /\ Cardinality(S) \in 0 .. MaxNodes
  <1>1. IsFiniteSet(Nodes) /\ Cardinality(Nodes) = MaxNodes
    BY FS_Interval, NodesAssumption DEF Nodes
  <1>. QED
    BY <1>1, FS_Subset, FS_CardinalityType, NodesAssumption

\* A step that leaves the inserts in progress alone leaves the levels and the
\* finished nodes as they are.
LEMMA SameMembers ==
  ASSUME UNCHANGED <<made, height>>,
         \A u \in Threads : Inserting(u)' <=> Inserting(u),
         \A u \in Threads : Inserting(u) => node'[u] = node[u] /\ level'[u] = level[u]
  PROVE  /\ \A n \in Nodes, l \in Levels : LinkedBy(n, l)' <=> LinkedBy(n, l)
         /\ \A p \in Nodes \cup {Head}, l \in Levels : OnLevel(p, l)' <=> OnLevel(p, l)
         /\ Finished' = Finished
  <1>1. \A n \in Nodes, l \in Levels : LinkedBy(n, l)' <=> LinkedBy(n, l)
    BY DEF LinkedBy, Inserting
  <1>2. \A p \in Nodes \cup {Head}, l \in Levels : OnLevel(p, l)' <=> OnLevel(p, l)
    BY <1>1 DEF OnLevel, Head, Nodes
  <1>3. Finished' = Finished
    BY DEF Finished, Inserting
  <1>. QED
    BY <1>1, <1>2, <1>3

\* A step that moves no pointer, and changes neither the levels nor a key in
\* them, keeps the chains.
LEMMA SameChain ==
  ASSUME Inv, UNCHANGED next,
         \A n \in Nodes, l \in Levels : LinkedBy(n, l)' <=> LinkedBy(n, l),
         \A p \in Nodes \cup {Head}, l \in Levels : OnLevel(p, l)' <=> OnLevel(p, l),
         \A p \in Nodes \cup {Head} : p = Head \/ p <= made => key'[p] = key[p]
  PROVE  Chain'
  <1>1. TypeOK /\ Chain
    BY DEF Inv
  <1>2. \A p \in Nodes \cup {Head}, l \in Levels : OnLevel(p, l) => key'[p] = key[p]
    BY DEF OnLevel, LinkedBy
  <1>3. \A n \in Nodes, l \in Levels : LinkedBy(n, l) => key'[n] = key[n]
    BY DEF LinkedBy
  <1>4. \A p \in Nodes \cup {Head}, l \in Levels :
          next[p][l] # Null => next[p][l] \in Nodes /\ LinkedBy(next[p][l], l)
                               /\ key'[next[p][l]] = key[next[p][l]]
    BY <1>1, <1>3, PointersAreNodes DEF Chain, PointsIntoLevel
  <1>5. PointsIntoLevel'
    BY <1>4 DEF PointsIntoLevel
  <1>6. HasPredecessor'
    BY <1>1 DEF Chain, HasPredecessor
  <1>7. OnePredecessor'
    BY <1>1 DEF Chain, OnePredecessor
  <1>8. Sorted'
    BY <1>1, <1>2, <1>4 DEF Chain, Sorted
  <1>9. NoGap'
    BY <1>1, <1>2, <1>3, <1>4 DEF Chain, NoGap
  <1>10. \A p \in Nodes \cup {Head}, l \in Levels :
          OnLevel(p, l) => (LastOfKey(p, l)' <=> LastOfKey(p, l))
    BY <1>2, <1>4 DEF LastOfKey
  <1>11. OneRun'
    BY <1>1, <1>2, <1>10 DEF Chain, OneRun
  <1>. QED
    BY <1>5, <1>6, <1>7, <1>8, <1>9, <1>11 DEF Chain

\* A node is in the level below, too.
LEMMA LowerLevel ==
  ASSUME TypeOK, NEW p \in Nodes \cup {Head}, NEW l \in Levels, l > 1, OnLevel(p, l)
  PROVE  l - 1 \in Levels /\ OnLevel(p, l - 1)
  <1>1. l - 1 \in Levels
    BY HeightAssumption DEF Levels
  <1>2. CASE p = Head
    BY <1>1, <1>2 DEF OnLevel
  <1>3. CASE p \in Nodes
    <2>1. LinkedBy(p, l) /\ height[p] \in Int
      BY <1>3, Names, HeightAssumption DEF OnLevel, TypeOK, Levels
    <2>2. \A t \in Threads : level[t] \in Int
      BY HeightAssumption DEF TypeOK, Levels
    <2>3. LinkedBy(p, l - 1)
      BY <2>1, <2>2, Names DEF LinkedBy
    <2>. QED
      BY <1>1, <1>3, <2>3 DEF OnLevel
  <1>. QED
    BY <1>2, <1>3

\* A step of another thread does not move a thread's position in the list.
LEMMA PositionKept ==
  ASSUME Inv, NEW u \in Threads,
         pc'[u] = pc[u], node'[u] = node[u], level'[u] = level[u], pred'[u] = pred[u],
         succ'[u] = succ[u], target'[u] = target[u], before'[u] = before[u],
         \A n \in Nodes, l \in Levels : LinkedBy(n, l) => LinkedBy(n, l)',
         \A p \in Nodes \cup {Head} : p = Head \/ p <= made => key'[p] = key[p],
         pc[u] = "link" => next'[node[u]][level[u]] = next[node[u]][level[u]]
  PROVE  FoundBy(u)' /\ WalksBefore(u)' /\ ReturnsOne(u)'
  <1>1. TypeOK /\ FoundBy(u) /\ WalksBefore(u) /\ ReturnsOne(u)
    BY DEF Inv, Positions
  <1>2. /\ pred[u] \in Nodes \cup {Head} /\ level[u] \in Levels
        /\ succ[u] # Null => succ[u] \in Nodes
        /\ before[u] \subseteq Nodes
    BY <1>1 DEF TypeOK
  <1>3. OnLevel(pred[u], level[u]) => OnLevel(pred[u], level[u])' /\ key'[pred[u]] = key[pred[u]]
    <2>1. CASE pred[u] = Head
      BY <2>1 DEF OnLevel
    <2>2. CASE pred[u] \in Nodes
      <3>1. LinkedBy(pred[u], level[u]) => LinkedBy(pred[u], level[u])' /\ pred[u] <= made
        BY <2>2, <1>2 DEF LinkedBy
      <3>. QED
        BY <2>2, <3>1 DEF OnLevel
    <2>. QED
      BY <2>1, <2>2, <1>2
  <1>4. succ[u] # Null /\ LinkedBy(succ[u], level[u]) =>
          LinkedBy(succ[u], level[u])' /\ key'[succ[u]] = key[succ[u]]
    BY <1>2 DEF LinkedBy
  <1>5. FoundBy(u)'
    BY <1>1, <1>3, <1>4 DEF FoundBy
  <1>6. \A n \in before[u] : LinkedBy(n, 1) => LinkedBy(n, 1)' /\ key'[n] = key[n]
    BY <1>2, Names DEF LinkedBy
  <1>7. WalksBefore(u)'
    BY <1>1, <1>3, <1>6 DEF WalksBefore
  <1>8. ReturnsOne(u)'
    BY <1>1 DEF ReturnsOne
  <1>. QED
    BY <1>5, <1>7, <1>8

-----------------------------------------------------------------------------
(* insert *)

\* A new node is in no level.
LEMMA InsertStep ==
  ASSUME Inv, NEW t \in Threads, NEW k \in Keys, NEW h \in Levels, Insert(t, k, h)
  PROVE  Inv'
  <1>. DEFINE n == made + 1
  <1>1. TypeOK /\ Keyed /\ OwnNode /\ Chain /\ Positions /\ Counted
    BY DEF Inv
  <1>2. /\ pc[t] = "idle" /\ made < MaxNodes /\ made' = n
        /\ key' = [key EXCEPT ![n] = k]
        /\ height' = [height EXCEPT ![n] = h]
        /\ node' = [node EXCEPT ![t] = n]
        /\ seen' = [seen EXCEPT ![t] = max_height]
        /\ level' = [level EXCEPT ![t] = 1]
        /\ target' = [target EXCEPT ![t] = k]
        /\ pc' = [pc EXCEPT ![t] = IF h > max_height THEN "raise" ELSE "find"]
        /\ UNCHANGED <<next, max_height, size, pred, succ, before>>
    BY DEF Insert, Goto
  <1>3. n \in Nodes /\ ~(n <= made) /\ made \in Nat
    BY <1>1, <1>2, NodesAssumption DEF TypeOK, Nodes
  <1>4. TypeOK'
    BY <1>1, <1>2, <1>3, Names, NodesAssumption DEF TypeOK
  <1>5. \A m \in Nodes : m # n => key'[m] = key[m] /\ height'[m] = height[m]
    BY <1>1, <1>2, <1>3 DEF TypeOK
  <1>6. key'[n] = k /\ height'[n] = h /\ key'[Head] = key[Head]
    BY <1>1, <1>2, <1>3, Names DEF TypeOK
  <1>7. Inserting(t)' /\ ~Inserting(t) /\ node'[t] = n /\ level'[t] = 1 /\ target'[t] = k
    BY <1>1, <1>2 DEF Inserting, TypeOK
  <1>8. \A u \in Threads : u # t =>
          /\ pc'[u] = pc[u] /\ node'[u] = node[u] /\ level'[u] = level[u]
          /\ target'[u] = target[u]
          /\ (Inserting(u)' <=> Inserting(u))
    BY <1>1, <1>2 DEF Inserting, TypeOK
  <1>9. \A m \in Nodes : m # n => (m <= made' <=> m <= made)
    BY <1>2, <1>3, Names
  <1>10. \A m \in Nodes, l \in Levels : LinkedBy(m, l)' <=> LinkedBy(m, l)
    <2>. SUFFICES ASSUME NEW m \in Nodes, NEW l \in Levels
                  PROVE  LinkedBy(m, l)' <=> LinkedBy(m, l)
      OBVIOUS
    <2>1. CASE m = n
      <3>1. ~LinkedBy(m, l)
        BY <2>1, <1>3 DEF LinkedBy
      <3>2. ~(l < level'[t])
        BY <1>7, Names
      <3>3. ~LinkedBy(m, l)'
        BY <2>1, <3>2, <1>7 DEF LinkedBy, Inserting
      <3>. QED
        BY <3>1, <3>3
    <2>2. CASE m # n
      BY <2>2, <1>5, <1>7, <1>8, <1>9 DEF LinkedBy, Inserting
    <2>. QED
      BY <2>1, <2>2
  <1>11. \A p \in Nodes \cup {Head}, l \in Levels : OnLevel(p, l)' <=> OnLevel(p, l)
    BY <1>10 DEF OnLevel
  <1>12. \A p \in Nodes \cup {Head} : p = Head \/ p <= made => key'[p] = key[p]
    BY <1>3, <1>5, <1>6
  <1>13. Chain'
    BY <1>2, <1>10, <1>11, <1>12, SameChain
  <1>14. Keyed'
    BY <1>1, <1>5, <1>6, <1>9 DEF Keyed
  <1>15. OwnNode'
    <2>1. ASSUME NEW u \in Threads, Inserting(u)'
          PROVE  /\ node'[u] \in Nodes /\ node'[u] <= made'
                 /\ target'[u] = key'[node'[u]]
                 /\ level'[u] <= height'[node'[u]]
      <3>1. CASE u = t
        BY <3>1, <1>2, <1>3, <1>6, <1>7, Names
      <3>2. CASE u # t
        <4>1. /\ node[u] \in Nodes /\ node[u] <= made /\ target[u] = key[node[u]]
              /\ level[u] <= height[node[u]]
          BY <3>2, <2>1, <1>1, <1>8 DEF OwnNode
        <4>. QED
          BY <3>2, <4>1, <1>3, <1>5, <1>8, <1>9
      <3>. QED
        BY <3>1, <3>2
    <2>2. ASSUME NEW u \in Threads, NEW v \in Threads,
                 Inserting(u)', Inserting(v)', node'[u] = node'[v]
          PROVE  u = v
      <3>1. \A x \in Threads : x # t /\ Inserting(x) => node[x] # n
        BY <1>1, <1>3 DEF OwnNode
      <3>. QED
        BY <2>2, <3>1, <1>1, <1>7, <1>8 DEF OwnNode
    <2>. QED
      BY <2>1, <2>2 DEF OwnNode
  <1>16. Positions'
    <2>1. ASSUME NEW u \in Threads, u # t
          PROVE  FoundBy(u)' /\ WalksBefore(u)' /\ ReturnsOne(u)'
      <3>1. pred'[u] = pred[u] /\ succ'[u] = succ[u] /\ before'[u] = before[u] /\ next' = next
        BY <1>2
      <3>. QED
        BY <2>1, <3>1, <1>8, <1>10, <1>12, PositionKept
    <2>2. FoundBy(t)' /\ WalksBefore(t)' /\ ReturnsOne(t)'
      BY <1>1, <1>2 DEF FoundBy, WalksBefore, ReturnsOne, TypeOK
    <2>. QED
      BY <2>1, <2>2 DEF Positions
  <1>17. Finished' = Finished
    <2>1. n \notin Finished /\ n \notin Finished'
      BY <1>3, <1>7 DEF Finished
    <2>2. \A m \in Nodes : m # n => (m \in Finished' <=> m \in Finished)
      BY <1>7, <1>8, <1>9 DEF Finished
    <2>. QED
      BY <2>1, <2>2 DEF Finished
  <1>18. Counted'
    BY <1>1, <1>2, <1>17 DEF Counted
  <1>. QED
    BY <1>4, <1>13, <1>14, <1>15, <1>16, <1>18 DEF Inv

\* max_height stays within the levels.
LEMMA RaiseMaxHeightStep ==
  ASSUME Inv, NEW t \in Threads, RaiseMaxHeight(t)
  PROVE  Inv'
  <1>1. TypeOK /\ Keyed /\ OwnNode /\ Chain /\ Positions /\ Counted
    BY DEF Inv
  <1>2. /\ pc[t] = "raise" /\ pc' = [pc EXCEPT ![t] = "find"]
        /\ max_height' = max_height \/ max_height' = height[node[t]]
        /\ UNCHANGED <<next, key, height, size, made, node, seen, level, pred, succ, target, before>>
    BY DEF RaiseMaxHeight, Goto, Raised
  <1>3. TypeOK'
    <2>1. height[node[t]] \in Levels
      BY <1>1, <1>2 DEF OwnNode, TypeOK, Inserting
    <2>. QED
      BY <2>1, <1>1, <1>2 DEF TypeOK
  <1>4. \A u \in Threads : Inserting(u)' <=> Inserting(u)
    BY <1>1, <1>2 DEF Inserting, TypeOK
  <1>5. /\ \A n \in Nodes, l \in Levels : LinkedBy(n, l)' <=> LinkedBy(n, l)
        /\ \A p \in Nodes \cup {Head}, l \in Levels : OnLevel(p, l)' <=> OnLevel(p, l)
        /\ Finished' = Finished
    BY <1>2, <1>4, SameMembers
  <1>6. Chain'
    BY <1>2, <1>5, SameChain
  <1>7. Keyed' /\ OwnNode' /\ Counted'
    BY <1>1, <1>2, <1>4, <1>5 DEF Keyed, OwnNode, Counted
  <1>8. Positions'
    <2>1. ASSUME NEW u \in Threads, u # t
          PROVE  FoundBy(u)' /\ WalksBefore(u)' /\ ReturnsOne(u)'
      <3>1. pc'[u] = pc[u]
        BY <2>1, <1>1, <1>2 DEF TypeOK
      <3>. QED
        BY <3>1, <1>2, <1>5, PositionKept
    <2>2. FoundBy(t)' /\ WalksBefore(t)' /\ ReturnsOne(t)'
      BY <1>1, <1>2 DEF FoundBy, WalksBefore, ReturnsOne, TypeOK
    <2>. QED
      BY <2>1, <2>2 DEF Positions
  <1>. QED
    BY <1>3, <1>6, <1>7, <1>8 DEF Inv

\* The node of an insert is not in the level it is linked into next.
LEMMA NotYetLinked ==
  ASSUME Inv, NEW t \in Threads, Inserting(t)
  PROVE  node[t] \in Nodes /\ level[t] \in Levels /\ ~LinkedBy(node[t], level[t]) /\ ~OnLevel(node[t], level[t])
  <1>1. node[t] \in Nodes /\ level[t] \in Levels
    BY DEF Inv, OwnNode, TypeOK
  <1>2. ~LinkedBy(node[t], level[t])
    BY <1>1, Names DEF LinkedBy, Inserting
  <1>. QED
    BY <1>1, <1>2, Names DEF OnLevel

\* Storing the successor in a node that is not in the level changes no chain.
LEMMA FindStep ==
  ASSUME Inv, NEW t \in Threads, Find(t)
  PROVE  Inv'
  <1>. DEFINE n == node[t]
  <1>. DEFINE l == level[t]
  <1>1. TypeOK /\ Keyed /\ OwnNode /\ Chain /\ Positions /\ Counted
    BY DEF Inv
  <1>2. PICK p \in Nodes \cup {Head} :
          /\ Precedes(p, target[t], l)
          /\ pred' = [pred EXCEPT ![t] = p]
          /\ succ' = [succ EXCEPT ![t] = next[p][l]]
          /\ next' = [next EXCEPT ![n][l] = next[p][l]]
    BY DEF Find
  <1>3. /\ pc[t] = "find" /\ pc' = [pc EXCEPT ![t] = "link"]
        /\ UNCHANGED <<key, height, max_height, size, made, node, seen, level, target, before>>
    BY DEF Find, Goto
  <1>4. Inserting(t) /\ n \in Nodes /\ l \in Levels /\ ~LinkedBy(n, l) /\ ~OnLevel(n, l)
    BY <1>3, NotYetLinked DEF Inserting
  <1>5. next[p][l] \in Nodes \cup {Null}
    BY <1>1, <1>4 DEF TypeOK
  <1>6. TypeOK'
    BY <1>1, <1>2, <1>3, <1>4, <1>5 DEF TypeOK
  <1>7. \A u \in Threads : Inserting(u)' <=> Inserting(u)
    BY <1>1, <1>3 DEF Inserting, TypeOK
  <1>8. /\ \A m \in Nodes, j \in Levels : LinkedBy(m, j)' <=> LinkedBy(m, j)
        /\ \A q \in Nodes \cup {Head}, j \in Levels : OnLevel(q, j)' <=> OnLevel(q, j)
        /\ Finished' = Finished
    BY <1>3, <1>7, SameMembers
  <1>9. /\ \A q \in Nodes \cup {Head}, j \in Levels : q # n \/ j # l => next'[q][j] = next[q][j]
        /\ next'[n][l] = next[p][l]
    BY <1>1, <1>2, <1>4 DEF TypeOK
  <1>10. \A q \in Nodes \cup {Head}, j \in Levels : OnLevel(q, j) => next'[q][j] = next[q][j]
    BY <1>4, <1>9
  <1>11. Chain'
    <2>1. PointsIntoLevel'
      <3>1. ASSUME NEW j \in Levels, NEW q \in Nodes \cup {Head}, next'[q][j] # Null
            PROVE  next'[q][j] \in Nodes /\ LinkedBy(next'[q][j], j)
        <4>1. CASE q = n /\ j = l
          BY <3>1, <4>1, <1>1, <1>4, <1>5, <1>9 DEF Chain, PointsIntoLevel
        <4>2. CASE q # n \/ j # l
          BY <3>1, <4>2, <1>1, <1>9, PointersAreNodes DEF Chain, PointsIntoLevel
        <4>. QED
          BY <4>1, <4>2
      <3>. QED
        BY <3>1, <1>8 DEF PointsIntoLevel
    <2>2. HasPredecessor'
      BY <1>1, <1>8, <1>10 DEF Chain, HasPredecessor
    <2>3. OnePredecessor'
      BY <1>1, <1>8, <1>10 DEF Chain, OnePredecessor
    <2>4. Sorted'
      BY <1>1, <1>3, <1>8, <1>10 DEF Chain, Sorted
    <2>5. NoGap'
      BY <1>1, <1>3, <1>8, <1>10 DEF Chain, NoGap
    <2>6. \A q \in Nodes \cup {Head}, j \in Levels : OnLevel(q, j) => (LastOfKey(q, j)' <=> LastOfKey(q, j))
      BY <1>3, <1>10 DEF LastOfKey
    <2>7. OneRun'
      BY <1>1, <1>3, <1>8, <2>6 DEF Chain, OneRun
    <2>. QED
      BY <2>1, <2>2, <2>3, <2>4, <2>5, <2>7 DEF Chain
  <1>12. Keyed' /\ OwnNode' /\ Counted'
    BY <1>1, <1>3, <1>7, <1>8 DEF Keyed, OwnNode, Counted
  <1>13. Positions'
    <2>1. ASSUME NEW u \in Threads, u # t
          PROVE  FoundBy(u)' /\ WalksBefore(u)' /\ ReturnsOne(u)'
      <3>1. pc'[u] = pc[u] /\ pred'[u] = pred[u] /\ succ'[u] = succ[u]
        BY <2>1, <1>1, <1>2, <1>3 DEF TypeOK
      <3>2. pc[u] = "link" => next'[node[u]][level[u]] = next[node[u]][level[u]]
        <4>1. pc[u] = "link" => node[u] \in Nodes /\ node[u] # n /\ level[u] \in Levels
          BY <2>1, <1>1, <1>4 DEF OwnNode, TypeOK, Inserting
        <4>. QED
          BY <4>1, <1>9
      <3>. QED
        BY <3>1, <3>2, <1>3, <1>8, PositionKept
    <2>2. FoundBy(t)'
      <3>1. pred'[t] = p /\ succ'[t] = next[p][l] /\ next'[n][l] = next[p][l]
        BY <1>1, <1>2, <1>9 DEF TypeOK
      <3>2. p \in Linked(l) \cup {Head} /\ key[p] < target[t] /\ (next[p][l] # Null => key[next[p][l]] >= target[t])
        BY <1>2 DEF Precedes
      <3>3. p \in Linked(l) => LinkedBy(p, l)
        <4>1. ASSUME p \in Linked(l) PROVE LinkedBy(p, l)
          <5>1. PICK q \in Nodes \cup {Head} : next[q][l] = p
            BY <4>1 DEF Linked
          <5>2. p \in Nodes
            BY <4>1 DEF Linked
          <5>. QED
            BY <5>1, <5>2, <1>1, <1>4, Names DEF Chain, PointsIntoLevel
        <4>. QED
          BY <4>1
      <3>4. OnLevel(p, l)
        BY <3>2, <3>3, <1>2 DEF OnLevel, Linked
      <3>5. next[p][l] # Null => next[p][l] \in Nodes /\ LinkedBy(next[p][l], l)
        BY <1>1, <1>4, <1>5 DEF Chain, PointsIntoLevel
      <3>6. OnLevel(pred[t], level[t])'
        BY <3>1, <3>4, <1>3, <1>4, <1>8 DEF OnLevel, LinkedBy
      <3>7. succ'[t] # Null => LinkedBy(succ[t], level[t])'
        BY <3>1, <3>5, <1>3, <1>4, <1>8 DEF LinkedBy
      <3>. QED
        BY <3>1, <3>2, <3>6, <3>7, <1>3 DEF FoundBy
    <2>3. WalksBefore(t)' /\ ReturnsOne(t)'
      BY <1>1, <1>3 DEF WalksBefore, ReturnsOne, TypeOK
    <2>. QED
      BY <2>1, <2>2, <2>3 DEF Positions
  <1>. QED
    BY <1>6, <1>11, <1>12, <1>13 DEF Inv

\* Linking a node between two neighbours adds it to the level, and moves no
\* pointer but the one of its predecessor.
LEMMA LinkMembers ==
  ASSUME Inv, NEW t \in Threads, Link(t)
  PROVE  /\ \A m \in Nodes, j \in Levels :
              LinkedBy(m, j)' <=> LinkedBy(m, j) \/ (m = node[t] /\ j = level[t])
         /\ \A q \in Nodes \cup {Head}, j \in Levels :
              OnLevel(q, j)' <=> OnLevel(q, j) \/ (q = node[t] /\ j = level[t])
         /\ \A u \in Threads : u # t =>
              pc'[u] = pc[u] /\ node'[u] = node[u] /\ level'[u] = level[u] /\ (Inserting(u)' <=> Inserting(u))
         /\ pc'[t] \in {"find", "idle"}
         /\ pc'[t] = "find" => /\ level'[t] = level[t] + 1 /\ level[t] < height[node[t]]
                               /\ node'[t] = node[t]
  <1>. DEFINE n == node[t]
  <1>. DEFINE l == level[t]
  <1>1. TypeOK /\ OwnNode
    BY DEF Inv
  <1>2. pc[t] = "link" /\ UNCHANGED <<height, made>>
    BY DEF Link
  <1>3. Inserting(t) /\ n \in Nodes /\ l \in Levels /\ n <= made /\ l <= height[n] /\ height[n] \in Levels
    BY <1>1, <1>2 DEF OwnNode, TypeOK, Inserting
  <1>4. \/ /\ l < height[n]
           /\ level' = [level EXCEPT ![t] = @ + 1] /\ pc' = [pc EXCEPT ![t] = "find"]
           /\ UNCHANGED node
        \/ /\ ~(l < height[n])
           /\ pc' = [pc EXCEPT ![t] = "idle"] /\ node' = [node EXCEPT ![t] = Null]
           /\ UNCHANGED level
    BY DEF Link, Goto
  <1>5. \A u \in Threads : u # t =>
          pc'[u] = pc[u] /\ node'[u] = node[u] /\ level'[u] = level[u]
    BY <1>1, <1>4 DEF TypeOK
  <1>6. \A u \in Threads : u # t => (Inserting(u)' <=> Inserting(u))
    BY <1>5 DEF Inserting
  <1>7. /\ pc'[t] \in {"find", "idle"}
        /\ pc'[t] = "find" => level'[t] = l + 1 /\ l < height[n] /\ node'[t] = n
        /\ pc'[t] = "idle" => ~(l < height[n])
    BY <1>1, <1>4 DEF TypeOK
  <1>8. \A u \in Threads : Inserting(u) /\ node[u] = n => u = t
    BY <1>1, <1>3 DEF OwnNode
  <1>9. \A u \in Threads : u # t => ~(Inserting(u)' /\ node'[u] = n)
    BY <1>5, <1>6, <1>8
  <1>10. ASSUME NEW m \in Nodes, NEW j \in Levels
         PROVE  LinkedBy(m, j)' <=> LinkedBy(m, j) \/ (m = n /\ j = l)
    <2>1. CASE m # n
      BY <2>1, <1>2, <1>5, <1>7 DEF LinkedBy
    <2>2. CASE m = n
      <3>1. LinkedBy(m, j) <=> j < l
        <4>1. j < l => j <= height[n]
          BY <1>3, Names
        <4>. QED
          BY <2>2, <4>1, <1>3, <1>8 DEF LinkedBy, Inserting
      <3>2. CASE pc'[t] = "find"
        <4>1. LinkedBy(m, j)' <=> j <= height[n] /\ j < l + 1
          BY <2>2, <3>2, <1>2, <1>3, <1>7, <1>9 DEF LinkedBy, Inserting
        <4>. QED
          BY <2>2, <3>1, <3>2, <4>1, <1>3, <1>7, Names
      <3>3. CASE pc'[t] = "idle"
        <4>1. LinkedBy(m, j)' <=> j <= height[n]
          BY <2>2, <3>3, <1>2, <1>3, <1>7, <1>9 DEF LinkedBy, Inserting
        <4>. QED
          BY <2>2, <3>1, <3>3, <4>1, <1>3, <1>7, Names
      <3>. QED
        BY <3>2, <3>3, <1>7
    <2>. QED
      BY <2>1, <2>2
  <1>11. \A q \in Nodes \cup {Head}, j \in Levels :
           OnLevel(q, j)' <=> OnLevel(q, j) \/ (q = n /\ j = l)
    BY <1>3, <1>10, Names DEF OnLevel
  <1>. QED
    BY <1>5, <1>6, <1>7, <1>10, <1>11

\* The compare-exchange succeeds only between neighbours around the key, so
\* the level stays one sorted chain.
LEMMA LinkChain ==
  ASSUME Inv, NEW t \in Threads, Link(t)
  PROVE  Chain'
  <1>. DEFINE n == node[t]
  <1>. DEFINE l == level[t]
  <1>. DEFINE p == pred[t]
  <1>. DEFINE s == succ[t]
  <1>. DEFINE All == Nodes \cup {Head}
  <1>1. TypeOK /\ Keyed /\ OwnNode /\ Chain /\ Positions
    BY DEF Inv
  <1>2. /\ pc[t] = "link" /\ next[p][l] = s
        /\ next' = [next EXCEPT ![p][l] = n] /\ UNCHANGED key
    BY DEF Link, MayLink
  <1>3. n \in Nodes /\ l \in Levels /\ ~LinkedBy(n, l) /\ ~OnLevel(n, l)
    BY <1>2, NotYetLinked DEF Inserting
  <1>4. p \in All /\ s \in Nodes \cup {Null}
    BY <1>1 DEF TypeOK
  <1>5. /\ OnLevel(p, l) /\ key[p] < key[n]
        /\ s # Null => s \in Nodes /\ LinkedBy(s, l) /\ key[s] >= key[n]
        /\ next[n][l] = s
    <2>1. target[t] = key[n]
      BY <1>1, <1>2 DEF OwnNode, Inserting
    <2>. QED
      BY <2>1, <1>1, <1>2, <1>4 DEF Positions, FoundBy
  <1>6. p # n /\ s # n
    BY <1>3, <1>5, Names
  <1>7. \A q \in All : key[q] \in Int
    BY <1>1, KeysAreInts
  <1>8. /\ \A q \in All, j \in Levels : q # p \/ j # l => next'[q][j] = next[q][j]
        /\ next'[p][l] = n
    BY <1>1, <1>2, <1>3, <1>4 DEF TypeOK
  <1>9. next'[n][l] = s
    BY <1>3, <1>5, <1>6, <1>8
  <1>10. \A m \in Nodes, j \in Levels : LinkedBy(m, j)' <=> LinkedBy(m, j) \/ (m = n /\ j = l)
    BY LinkMembers
  <1>11. \A q \in All, j \in Levels : OnLevel(q, j)' <=> OnLevel(q, j) \/ (q = n /\ j = l)
    BY LinkMembers
  <1>12. \A q \in All, j \in Levels : next[q][j] # Null => next[q][j] \in Nodes /\ LinkedBy(next[q][j], j)
    BY <1>1, PointersAreNodes DEF Chain, PointsIntoLevel
  <1>13. \A q \in All : next[q][l] # n
    BY <1>3, <1>12, Names
  <1>14. PointsIntoLevel'
    <2>1. ASSUME NEW j \in Levels, NEW q \in All, next'[q][j] # Null
          PROVE  next'[q][j] \in Nodes /\ LinkedBy(next[q][j], j)'
      <3>1. CASE q = p /\ j = l
        BY <3>1, <1>3, <1>8, <1>10 DEF LinkedBy
      <3>2. CASE q # p \/ j # l
        BY <2>1, <3>2, <1>8, <1>10, <1>12 DEF LinkedBy
      <3>. QED
        BY <3>1, <3>2
    <2>. QED
      BY <2>1 DEF PointsIntoLevel
  <1>15. HasPredecessor'
    <2>1. ASSUME NEW j \in Levels, NEW m \in Nodes, LinkedBy(m, j)'
          PROVE  \E q \in All : OnLevel(q, j)' /\ next'[q][j] = m
      <3>1. CASE m = n /\ j = l
        BY <3>1, <1>4, <1>5, <1>8, <1>11
      <3>2. CASE m = s /\ j = l
        BY <3>2, <1>3, <1>9, <1>11
      <3>3. CASE LinkedBy(m, j) /\ ~(m = s /\ j = l)
        <4>1. PICK q \in All : OnLevel(q, j) /\ next[q][j] = m
          BY <3>3, <1>1 DEF Chain, HasPredecessor
        <4>2. q # p \/ j # l
          BY <4>1, <3>3, <1>2
        <4>. QED
          BY <4>1, <4>2, <1>8, <1>11
      <3>. QED
        BY <2>1, <3>1, <3>2, <3>3, <1>10
    <2>. QED
      BY <2>1 DEF HasPredecessor
  <1>16. OnePredecessor'
    <2>1. ASSUME NEW j \in Levels, NEW q \in All, NEW r \in All,
                 OnLevel(q, j)', OnLevel(r, j)', next'[q][j] # Null, next'[q][j] = next'[r][j]
          PROVE  q = r
      <3>1. CASE j # l
        BY <2>1, <3>1, <1>1, <1>8, <1>11 DEF Chain, OnePredecessor
      <3>2. CASE j = l /\ (q = p \/ r = p)
        BY <2>1, <3>2, <1>8, <1>13
      <3>3. CASE j = l /\ q # p /\ r # p
        <4>1. next'[q][l] = next[q][l] /\ next'[r][l] = next[r][l]
          BY <3>3, <1>8
        <4>2. \A x \in All : OnLevel(x, l) /\ x # p => next[x][l] = Null \/ next[x][l] # s
          BY <1>1, <1>2, <1>3, <1>4, <1>5 DEF Chain, OnePredecessor
        <4>3. next[n][l] = s
          BY <1>5
        <4>. QED
          BY <2>1, <3>3, <4>1, <4>2, <4>3, <1>1, <1>11 DEF Chain, OnePredecessor
      <3>. QED
        BY <3>1, <3>2, <3>3
    <2>. QED
      BY <2>1 DEF OnePredecessor
  <1>17. Sorted'
    <2>1. ASSUME NEW j \in Levels, NEW q \in All, OnLevel(q, j)', next'[q][j] # Null
          PROVE  key[q] <= key[next'[q][j]]
      <3>1. CASE j = l /\ q = p
        BY <3>1, <1>3, <1>4, <1>5, <1>7, <1>8
      <3>2. CASE j = l /\ q = n
        BY <2>1, <3>2, <1>3, <1>5, <1>7, <1>9
      <3>3. CASE ~(j = l /\ q = p) /\ ~(j = l /\ q = n)
        BY <2>1, <3>3, <1>1, <1>8, <1>11 DEF Chain, Sorted
      <3>. QED
        BY <3>1, <3>2, <3>3
    <2>. QED
      BY <2>1, <1>2 DEF Sorted
  <1>18. \A q \in All : OnLevel(q, l) /\ q # p /\ key[q] < key[n] =>
           next[q][l] # Null /\ key[next[q][l]] <= key[n]
    <2>. SUFFICES ASSUME NEW q \in All, OnLevel(q, l), q # p, key[q] < key[n]
                  PROVE  next[q][l] # Null /\ key[next[q][l]] <= key[n]
      OBVIOUS
    <2>1. key[q] \in Int /\ key[p] \in Int /\ key[n] \in Int
      BY <1>3, <1>4, <1>7
    <2>2. next[q][l] # Null => key[next[q][l]] \in Int
      BY <1>3, <1>7, <1>12
    <2>3. s # Null => key[s] \in Int
      BY <1>5, <1>7
    <2>4. CASE key[q] < key[p]
      <3>1. p \in Nodes /\ LinkedBy(p, l)
        <4>1. p # Head
          BY <2>4, <1>1, <1>7, ListKeysAssumption DEF OnLevel, LinkedBy, Keyed, NoKey, Keys
        <4>. QED
          BY <4>1, <1>5 DEF OnLevel
      <3>2. next[q][l] # Null /\ key[next[q][l]] <= key[p]
        BY <2>4, <3>1, <1>1, <1>3 DEF Chain, NoGap
      <3>. QED
        BY <3>2, <2>1, <2>2, <1>5
    <2>5. CASE key[p] < key[q]
      <3>1. q \in Nodes /\ LinkedBy(q, l)
        <4>1. q # Head
          BY <2>5, <1>1, <1>5, <1>7, ListKeysAssumption DEF OnLevel, LinkedBy, Keyed, NoKey, Keys
        <4>. QED
          BY <4>1 DEF OnLevel
      <3>2. s # Null /\ key[s] <= key[q]
        BY <2>5, <3>1, <1>1, <1>2, <1>3, <1>4, <1>5 DEF Chain, NoGap
      <3>. QED
        BY <3>2, <2>1, <2>3, <1>5
    <2>6. CASE key[p] = key[q]
      <3>1. LastOfKey(p, l)
        BY <2>1, <2>3, <1>2, <1>5 DEF LastOfKey
      <3>2. ~LastOfKey(q, l)
        BY <2>6, <3>1, <1>1, <1>3, <1>4, <1>5 DEF Chain, OneRun
      <3>. QED
        BY <3>2, <2>1, <2>2 DEF LastOfKey
    <2>. QED
      BY <2>1, <2>4, <2>5, <2>6
  <1>19. NoGap'
    <2>1. ASSUME NEW j \in Levels, NEW q \in All, NEW m \in Nodes,
                 OnLevel(q, j)', LinkedBy(m, j)', key[q] < key[m]
          PROVE  next'[q][j] # Null /\ key[next'[q][j]] <= key[m]
      <3>1. CASE j # l
        BY <2>1, <3>1, <1>1, <1>8, <1>10, <1>11 DEF Chain, NoGap
      <3>2. CASE j = l /\ q = p
        <4>1. m = n \/ (LinkedBy(m, l) /\ s # Null /\ key[s] <= key[m])
          BY <2>1, <3>2, <1>1, <1>2, <1>3, <1>5, <1>10 DEF Chain, NoGap
        <4>2. key[m] \in Int /\ key[n] \in Int /\ (s # Null => key[s] \in Int)
          BY <1>3, <1>5, <1>7
        <4>3. key[n] <= key[m]
          BY <4>1, <4>2, <1>5
        <4>. QED
          BY <3>2, <4>3, <1>3, <1>8, Names
      <3>3. CASE j = l /\ q = n
        <4>1. LinkedBy(m, l) /\ key[p] < key[m]
          <5>1. key[m] \in Int /\ key[n] \in Int /\ key[p] \in Int
            BY <1>3, <1>4, <1>7
          <5>. QED
            BY <2>1, <3>3, <5>1, <1>5, <1>10
        <4>2. s # Null /\ key[s] <= key[m]
          BY <4>1, <1>1, <1>2, <1>3, <1>4, <1>5 DEF Chain, NoGap
        <4>. QED
          BY <3>3, <4>2, <1>9
      <3>4. CASE j = l /\ q # p /\ q # n
        <4>1. OnLevel(q, l) /\ next'[q][l] = next[q][l]
          BY <2>1, <3>4, <1>3, <1>8, <1>11
        <4>2. CASE m = n
          BY <2>1, <3>4, <4>1, <4>2, <1>18
        <4>3. CASE m # n
          BY <2>1, <3>4, <4>1, <4>3, <1>1, <1>10 DEF Chain, NoGap
        <4>. QED
          BY <4>2, <4>3
      <3>. QED
        BY <3>1, <3>2, <3>3, <3>4
    <2>. QED
      BY <2>1, <1>2 DEF NoGap
  <1>20. \A q \in All : OnLevel(q, l) /\ key[q] = key[n] /\ LastOfKey(q, l) =>
           ~LastOfKey(n, l)
    <2>. SUFFICES ASSUME NEW q \in All, OnLevel(q, l), key[q] = key[n]
                  PROVE  ~LastOfKey(n, l)
      OBVIOUS
    <2>1. key[q] \in Int /\ key[p] \in Int /\ key[n] \in Int
      BY <1>3, <1>4, <1>7
    <2>2. q \in Nodes /\ LinkedBy(q, l)
      <3>1. q # Head
        BY <1>1, <1>3, <1>5, <1>7, ListKeysAssumption DEF OnLevel, LinkedBy, Keyed, NoKey, Keys
      <3>. QED
        BY <3>1 DEF OnLevel
    <2>3. s # Null /\ key[s] <= key[q]
      BY <2>2, <1>1, <1>2, <1>3, <1>4, <1>5 DEF Chain, NoGap
    <2>4. key[s] \in Int
      BY <2>3, <1>5, <1>7
    <2>. QED
      BY <2>1, <2>3, <2>4, <1>5 DEF LastOfKey
  <1>21. \A q \in All, j \in Levels : OnLevel(q, j)' /\ LastOfKey(q, j)' => LastOfKey(q, j)
    <2>. SUFFICES ASSUME NEW q \in All, NEW j \in Levels, LastOfKey(q, j)'
                  PROVE  LastOfKey(q, j)
      OBVIOUS
    <2>1. CASE j = l /\ q = p
      <3>1. key[p] \in Int /\ key[n] \in Int /\ (s # Null => key[s] \in Int)
        BY <1>3, <1>4, <1>5, <1>7
      <3>. QED
        BY <2>1, <3>1, <1>2, <1>5 DEF LastOfKey
    <2>2. CASE ~(j = l /\ q = p)
      BY <2>2, <1>2, <1>8 DEF LastOfKey
    <2>. QED
      BY <2>1, <2>2
  <1>22. OneRun'
    <2>1. ASSUME NEW j \in Levels, NEW q \in All, NEW r \in All,
                 OnLevel(q, j)', OnLevel(r, j)', key[q] = key[r],
                 LastOfKey(q, j)', LastOfKey(r, j)'
          PROVE  q = r
      <3>1. LastOfKey(q, j) /\ LastOfKey(r, j)
        BY <2>1, <1>21
      <3>2. CASE OnLevel(q, j) /\ OnLevel(r, j)
        BY <2>1, <3>1, <3>2, <1>1 DEF Chain, OneRun
      <3>3. CASE j = l /\ (q = n \/ r = n)
        BY <2>1, <3>1, <3>3, <1>11, <1>20
      <3>. QED
        BY <2>1, <3>2, <3>3, <1>11
    <2>. QED
      BY <2>1, <1>2 DEF OneRun
  <1>. QED
    BY <1>14, <1>15, <1>16, <1>17, <1>19, <1>22 DEF Chain

\* A node that is linked in its last level is counted.
LEMMA LinkCounted ==
  ASSUME Inv, NEW t \in Threads, Link(t)
  PROVE  Counted' /\ size' \in 0 .. MaxNodes
  <1>1. TypeOK /\ OwnNode /\ Counted
    BY DEF Inv
  <1>2. pc[t] = "link" /\ UNCHANGED made
    BY DEF Link
  <1>3. Inserting(t) /\ node[t] \in Nodes /\ node[t] <= made
    BY <1>1, <1>2 DEF OwnNode, Inserting
  <1>4. \A u \in Threads : u # t =>
          node'[u] = node[u] /\ (Inserting(u)' <=> Inserting(u))
    BY LinkMembers
  <1>5. \A u \in Threads : Inserting(u) /\ node[u] = node[t] => u = t
    BY <1>1, <1>3 DEF OwnNode
  <1>6. CASE pc'[t] = "find"
    <2>1. Inserting(t)' /\ node'[t] = node[t]
      BY <1>6, LinkMembers DEF Inserting
    <2>2. Finished' = Finished
      BY <2>1, <1>2, <1>3, <1>4 DEF Finished
    <2>3. size' = size
      BY <1>1, <1>2, <1>6 DEF Link, Goto, TypeOK
    <2>. QED
      BY <2>2, <2>3, <1>1 DEF Counted, TypeOK
  <1>7. CASE pc'[t] = "idle"
    <2>1. ~Inserting(t)'
      BY <1>7 DEF Inserting
    <2>2. Finished' = Finished \cup {node[t]}
      <3>1. \A m \in Nodes : m \in Finished' <=> m \in Finished \/ m = node[t]
        BY <2>1, <1>2, <1>3, <1>4, <1>5 DEF Finished
      <3>. QED
        BY <3>1, <1>3 DEF Finished
    <2>3. node[t] \notin Finished
      BY <1>3 DEF Finished
    <2>4. IsFiniteSet(Finished)
      BY FinishedFinite DEF Finished
    <2>5. Cardinality(Finished') = Cardinality(Finished) + 1
      BY <2>2, <2>3, <2>4, FS_AddElement
    <2>6. size' = size + 1
      BY <1>1, <1>2, <1>7 DEF Link, Goto, TypeOK
    <2>7. Cardinality(Finished') \in 0 .. MaxNodes
      <3>1. Finished' \subseteq Nodes
        BY DEF Finished
      <3>. QED
        BY <3>1, FinishedFinite
    <2>. QED
      BY <2>5, <2>6, <2>7, <1>1 DEF Counted
  <1>. QED
    BY <1>6, <1>7, LinkMembers

\* A successful compare-exchange: on to the next level, or done.
LEMMA LinkStep ==
  ASSUME Inv, NEW t \in Threads, Link(t)
  PROVE  Inv'
  <1>1. TypeOK /\ Keyed /\ OwnNode /\ Chain /\ Positions /\ Counted
    BY DEF Inv
  <1>2. /\ pc[t] = "link"
        /\ next' = [next EXCEPT ![pred[t]][level[t]] = node[t]]
        /\ UNCHANGED <<key, height, max_height, made, seen, pred, succ, target, before>>
    BY DEF Link
  <1>3. Inserting(t) /\ node[t] \in Nodes /\ level[t] \in Levels /\ pred[t] \in Nodes \cup {Head}
    BY <1>1, <1>2 DEF OwnNode, TypeOK, Inserting
  <1>4. TypeOK'
    <2>1. next' \in [Nodes \cup {Head} -> [Levels -> Nodes \cup {Null}]]
      BY <1>1, <1>2, <1>3 DEF TypeOK
    <2>2. level[t] < height[node[t]] => level[t] + 1 \in Levels
      <3>1. height[node[t]] \in Levels
        BY <1>1, <1>3 DEF TypeOK
      <3>. QED
        BY <3>1, <1>3, HeightAssumption DEF Levels
    <2>3. /\ level' \in [Threads -> Levels] /\ node' \in [Threads -> Nodes \cup {Null}]
          /\ pc' \in [Threads -> {"idle", "raise", "find", "link", "walk", "return"}]
      BY <2>2, <1>1 DEF Link, Goto, TypeOK
    <2>. QED
      BY <2>1, <2>3, <1>1, <1>2, LinkCounted DEF TypeOK
  <1>5. \A u \in Threads : u # t =>
          pc'[u] = pc[u] /\ node'[u] = node[u] /\ level'[u] = level[u] /\ (Inserting(u)' <=> Inserting(u))
    BY LinkMembers
  <1>6. /\ pc'[t] \in {"find", "idle"}
        /\ pc'[t] = "find" => /\ level'[t] = level[t] + 1 /\ level[t] < height[node[t]]
                              /\ node'[t] = node[t]
    BY LinkMembers
  <1>7. Keyed'
    BY <1>1, <1>2 DEF Keyed
  <1>8. OwnNode'
    <2>1. Inserting(t)' => node'[t] = node[t] /\ level'[t] <= height[node[t]]
      <3>1. height[node[t]] \in Int /\ level[t] \in Int
        BY <1>1, <1>3, HeightAssumption DEF TypeOK, Levels
      <3>. QED
        BY <3>1, <1>6 DEF Inserting
    <2>. QED
      BY <2>1, <1>1, <1>2, <1>3, <1>5 DEF OwnNode
  <1>9. Positions'
    <2>1. ASSUME NEW u \in Threads, u # t
          PROVE  FoundBy(u)' /\ WalksBefore(u)' /\ ReturnsOne(u)'
      <3>1. pc[u] = "link" => next'[node[u]][level[u]] = next[node[u]][level[u]]
        <4>1. ASSUME pc[u] = "link" PROVE next'[node[u]][level[u]] = next[node[u]][level[u]]
          <5>1. node[u] \in Nodes /\ level[u] \in Levels /\ ~OnLevel(node[u], level[u])
            BY <4>1, NotYetLinked DEF Inserting
          <5>2. OnLevel(pred[t], level[t])
            BY <1>1, <1>2 DEF Positions, FoundBy
          <5>3. node[u] # pred[t] \/ level[u] # level[t]
            BY <5>1, <5>2
          <5>. QED
            BY <5>1, <5>3, <1>1, <1>2, <1>3 DEF TypeOK
        <4>. QED
          BY <4>1
      <3>2. \A m \in Nodes, j \in Levels : LinkedBy(m, j) => LinkedBy(m, j)'
        BY LinkMembers
      <3>. QED
        BY <2>1, <3>1, <3>2, <1>2, <1>5, PositionKept
    <2>2. FoundBy(t)' /\ WalksBefore(t)' /\ ReturnsOne(t)'
      BY <1>6 DEF FoundBy, WalksBefore, ReturnsOne
    <2>. QED
      BY <2>1, <2>2 DEF Positions
  <1>. QED
    BY <1>4, <1>7, <1>8, <1>9, LinkChain, LinkCounted DEF Inv

\* A failed compare-exchange changes nothing but where the insert goes on.
LEMMA LinkFailsStep ==
  ASSUME Inv, NEW t \in Threads, LinkFails(t)
  PROVE  Inv'
  <1>1. TypeOK /\ Keyed /\ OwnNode /\ Chain /\ Positions /\ Counted
    BY DEF Inv
  <1>2. /\ pc[t] = "link" /\ pc' = [pc EXCEPT ![t] = "find"]
        /\ UNCHANGED <<next, succ, key, height, max_height, size, made, node, seen,
                       level, pred, target, before>>
    BY DEF LinkFails, Retry, Goto
  <1>3. TypeOK'
    BY <1>1, <1>2 DEF TypeOK
  <1>4. \A u \in Threads : Inserting(u)' <=> Inserting(u)
    BY <1>1, <1>2 DEF Inserting, TypeOK
  <1>5. /\ \A n \in Nodes, l \in Levels : LinkedBy(n, l)' <=> LinkedBy(n, l)
        /\ \A p \in Nodes \cup {Head}, l \in Levels : OnLevel(p, l)' <=> OnLevel(p, l)
        /\ Finished' = Finished
    BY <1>2, <1>4, SameMembers
  <1>6. Chain'
    BY <1>2, <1>5, SameChain
  <1>7. Keyed' /\ OwnNode' /\ Counted'
    BY <1>1, <1>2, <1>4, <1>5 DEF Keyed, OwnNode, Counted
  <1>8. Positions'
    <2>1. ASSUME NEW u \in Threads, u # t
          PROVE  FoundBy(u)' /\ WalksBefore(u)' /\ ReturnsOne(u)'
      <3>1. pc'[u] = pc[u]
        BY <2>1, <1>1, <1>2 DEF TypeOK
      <3>. QED
        BY <3>1, <1>2, <1>5, PositionKept
    <2>2. FoundBy(t)' /\ WalksBefore(t)' /\ ReturnsOne(t)'
      BY <1>1, <1>2 DEF FoundBy, WalksBefore, ReturnsOne, TypeOK
    <2>. QED
      BY <2>1, <2>2 DEF Positions
  <1>. QED
    BY <1>3, <1>6, <1>7, <1>8 DEF Inv

-----------------------------------------------------------------------------
(* get *)

\* A step of get leaves the list and the other threads alone, so that only
\* the reader's own position is left to show.
LEMMA ReaderStep ==
  ASSUME Inv, NEW t \in Threads, UNCHANGED shared, ~Inserting(t), ~Inserting(t)', TypeOK',
         \A u \in Threads : u # t =>
           /\ pc'[u] = pc[u] /\ node'[u] = node[u] /\ level'[u] = level[u] /\ pred'[u] = pred[u]
           /\ succ'[u] = succ[u] /\ target'[u] = target[u] /\ before'[u] = before[u],
         FoundBy(t)' /\ WalksBefore(t)' /\ ReturnsOne(t)'
  PROVE  Inv'
  <1>1. TypeOK /\ Keyed /\ OwnNode /\ Chain /\ Positions /\ Counted
    BY DEF Inv
  <1>2. UNCHANGED <<next, key, height, max_height, size, made>>
    BY DEF shared
  <1>3. \A u \in Threads : Inserting(u)' <=> Inserting(u)
    BY DEF Inserting
  <1>4. /\ \A n \in Nodes, l \in Levels : LinkedBy(n, l)' <=> LinkedBy(n, l)
        /\ \A p \in Nodes \cup {Head}, l \in Levels : OnLevel(p, l)' <=> OnLevel(p, l)
        /\ Finished' = Finished
    BY <1>2, <1>3, SameMembers
  <1>5. Chain'
    BY <1>2, <1>4, SameChain
  <1>6. Keyed' /\ Counted'
    BY <1>1, <1>2, <1>4 DEF Keyed, Counted
  <1>7. OwnNode'
    BY <1>1, <1>2, <1>3 DEF OwnNode
  <1>8. \A u \in Threads : u # t => FoundBy(u)' /\ WalksBefore(u)' /\ ReturnsOne(u)'
    BY <1>2, <1>4, PositionKept
  <1>. QED
    BY <1>5, <1>6, <1>7, <1>8 DEF Inv, Positions

\* The nodes of a level are the ones whose insert has linked them there.
LEMMA LinkedIsLinkedBy ==
  Inv => \A l \in Levels : Linked(l) = {n \in Nodes : LinkedBy(n, l)}
  <1>. SUFFICES ASSUME Inv, NEW l \in Levels
                PROVE  Linked(l) = {n \in Nodes : LinkedBy(n, l)}
    OBVIOUS
  <1>1. Chain
    BY DEF Inv
  <1>2. ASSUME NEW n \in Nodes, NEW p \in Nodes \cup {Head}, next[p][l] = n
        PROVE  LinkedBy(n, l)
    BY <1>1, <1>2, Names DEF Chain, PointsIntoLevel
  <1>3. ASSUME NEW n \in Nodes, LinkedBy(n, l)
        PROVE  \E p \in Nodes \cup {Head} : next[p][l] = n
    BY <1>1, <1>3 DEF Chain, HasPredecessor
  <1>. QED
    BY <1>2, <1>3 DEF Linked

\* get starts at the head, which is in every level and before every key.
LEMMA GetStep ==
  ASSUME Inv, NEW t \in Threads, NEW k \in Keys, Get(t, k)
  PROVE  Inv'
  <1>1. TypeOK /\ Keyed
    BY DEF Inv
  <1>2. /\ pc[t] = "idle" /\ pc' = [pc EXCEPT ![t] = "walk"]
        /\ target' = [target EXCEPT ![t] = k]
        /\ pred' = [pred EXCEPT ![t] = Head]
        /\ level' = [level EXCEPT ![t] = max_height]
        /\ before' = [before EXCEPT ![t] = {n \in Linked(1) : key[n] = k}]
        /\ UNCHANGED <<shared, node, seen, succ>>
    BY DEF Get, Goto
  <1>3. Linked(1) \subseteq Nodes /\ \A n \in Linked(1) : LinkedBy(n, 1)
    BY LinkedIsLinkedBy, Names
  <1>4. TypeOK'
    BY <1>1, <1>2, <1>3 DEF TypeOK, shared
  <1>5. ~Inserting(t) /\ ~Inserting(t)'
    BY <1>1, <1>2 DEF Inserting, TypeOK
  <1>6. \A u \in Threads : u # t =>
          /\ pc'[u] = pc[u] /\ node'[u] = node[u] /\ level'[u] = level[u] /\ pred'[u] = pred[u]
          /\ succ'[u] = succ[u] /\ target'[u] = target[u] /\ before'[u] = before[u]
    BY <1>1, <1>2 DEF TypeOK
  <1>7. /\ pc'[t] = "walk" /\ target'[t] = k /\ pred'[t] = Head
        /\ before'[t] = {n \in Linked(1) : key[n] = k}
    BY <1>1, <1>2 DEF TypeOK
  <1>8. WalksBefore(t)'
    <2>1. OnLevel(pred[t], level[t])'
      BY <1>7 DEF OnLevel
    <2>2. key'[pred'[t]] < target'[t]
      BY <1>1, <1>2, <1>7, Names DEF Keyed, NoKey, shared
    <2>3. \A n \in Nodes, l \in Levels : LinkedBy(n, l)' <=> LinkedBy(n, l)
      <3>1. \A u \in Threads : Inserting(u)' <=> Inserting(u)
        BY <1>5, <1>6 DEF Inserting
      <3>2. \A u \in Threads : Inserting(u) => node'[u] = node[u] /\ level'[u] = level[u]
        BY <1>5, <1>6
      <3>3. UNCHANGED <<made, height>>
        BY <1>2 DEF shared
      <3>. QED
        BY <3>1, <3>2, <3>3, SameMembers
    <2>4. \A n \in before'[t] : LinkedBy(n, 1)' /\ key'[n] = target'[t]
      BY <2>3, <1>2, <1>3, <1>7, Names DEF shared
    <2>. QED
      BY <2>1, <2>2, <2>4 DEF WalksBefore
  <1>9. FoundBy(t)' /\ ReturnsOne(t)'
    BY <1>7 DEF FoundBy, ReturnsOne
  <1>. QED
    BY <1>2, <1>4, <1>5, <1>6, <1>8, <1>9, ReaderStep

\* A walk that goes past the key's place in the lowest level had no node of
\* the key to find.
LEMMA WalkStep ==
  ASSUME Inv, NEW t \in Threads, Walk(t)
  PROVE  Inv'
  <1>. DEFINE p == pred[t]
  <1>. DEFINE l == level[t]
  <1>. DEFINE n == next[p][l]
  <1>1. TypeOK /\ Keyed /\ Chain /\ Positions
    BY DEF Inv
  <1>2. pc[t] = "walk" /\ UNCHANGED <<shared, seen, succ, target, before>>
    BY DEF Walk
  <1>3. p \in Nodes \cup {Head} /\ l \in Levels /\ target[t] \in Keys /\ before[t] \subseteq Nodes
    BY <1>1 DEF TypeOK
  <1>4. /\ OnLevel(p, l) /\ key[p] < target[t]
        /\ \A m \in before[t] : LinkedBy(m, 1) /\ key[m] = target[t]
    BY <1>1, <1>2 DEF Positions, WalksBefore
  <1>5. n # Null => n \in Nodes /\ LinkedBy(n, l)
    BY <1>1, <1>3, PointersAreNodes DEF Chain, PointsIntoLevel
  <1>6. \/ /\ n # Null /\ key[n] < target[t]
           /\ pred' = [pred EXCEPT ![t] = n] /\ UNCHANGED <<pc, level, node>>
        \/ /\ n # Null
           /\ node' = [node EXCEPT ![t] = n] /\ pc' = [pc EXCEPT ![t] = "return"]
           /\ UNCHANGED <<level, pred>>
        \/ /\ l > 1
           /\ level' = [level EXCEPT ![t] = @ - 1] /\ UNCHANGED <<pc, pred, node>>
        \/ /\ n # Null => key[n] > target[t]
           /\ l <= 1
           /\ pc' = [pc EXCEPT ![t] = "return"] /\ UNCHANGED <<level, pred, node>>
    BY DEF Walk, Goto, Bottom
  <1>7. l > 1 => l - 1 \in Levels /\ OnLevel(p, l - 1)
    BY <1>1, <1>3, <1>4, LowerLevel
  <1>8. TypeOK'
    <2>1. UNCHANGED <<next, key, height, max_height, size, made, seen, succ, target, before>>
      BY <1>2 DEF shared
    <2>2. pred' \in [Threads -> Nodes \cup {Head}]
      BY <1>1, <1>5, <1>6 DEF TypeOK
    <2>3. node' \in [Threads -> Nodes \cup {Null}]
      BY <1>1, <1>5, <1>6 DEF TypeOK
    <2>4. level' \in [Threads -> Levels]
      BY <1>1, <1>6, <1>7 DEF TypeOK
    <2>5. pc' \in [Threads -> {"idle", "raise", "find", "link", "walk", "return"}]
      BY <1>1, <1>6 DEF TypeOK
    <2>. QED
      BY <2>1, <2>2, <2>3, <2>4, <2>5, <1>1 DEF TypeOK
  <1>9. ~Inserting(t) /\ ~Inserting(t)'
    BY <1>1, <1>2, <1>6 DEF Inserting, TypeOK
  <1>10. \A u \in Threads : u # t =>
          /\ pc'[u] = pc[u] /\ node'[u] = node[u] /\ level'[u] = level[u] /\ pred'[u] = pred[u]
          /\ succ'[u] = succ[u] /\ target'[u] = target[u] /\ before'[u] = before[u]
    BY <1>1, <1>2, <1>6 DEF TypeOK
  <1>11. /\ \A m \in Nodes, j \in Levels : LinkedBy(m, j)' <=> LinkedBy(m, j)
         /\ \A q \in Nodes \cup {Head}, j \in Levels : OnLevel(q, j)' <=> OnLevel(q, j)
    <2>1. \A u \in Threads : Inserting(u)' <=> Inserting(u)
      BY <1>9, <1>10 DEF Inserting
    <2>2. \A u \in Threads : Inserting(u) => node'[u] = node[u] /\ level'[u] = level[u]
      BY <1>9, <1>10
    <2>3. UNCHANGED <<made, height>>
      BY <1>2 DEF shared
    <2>. QED
      BY <2>1, <2>2, <2>3, SameMembers
  <1>12. \A m \in before'[t] : LinkedBy(m, 1)' /\ key'[m] = target'[t]
    BY <1>2, <1>3, <1>4, <1>11, Names DEF shared
  <1>13. pc'[t] # "link" /\ FoundBy(t)'
    BY <1>9 DEF FoundBy, Inserting
  <1>14. WalksBefore(t)'
    <2>. SUFFICES ASSUME pc'[t] = "walk"
                  PROVE  OnLevel(pred[t], level[t])' /\ key'[pred'[t]] < target'[t]
      BY <1>12 DEF WalksBefore
    <2>1. CASE /\ n # Null /\ key[n] < target[t]
               /\ pred' = [pred EXCEPT ![t] = n] /\ UNCHANGED <<pc, level, node>>
      <3>1. pred'[t] = n /\ level'[t] = l /\ n \in Nodes
        BY <2>1, <1>1, <1>5 DEF TypeOK
      <3>2. OnLevel(pred[t], level[t])'
        BY <3>1, <2>1, <1>3, <1>5, <1>11 DEF OnLevel, LinkedBy
      <3>. QED
        BY <3>1, <3>2, <2>1, <1>2 DEF shared
    <2>2. CASE /\ l > 1
               /\ level' = [level EXCEPT ![t] = @ - 1] /\ UNCHANGED <<pc, pred, node>>
      <3>1. pred'[t] = p /\ level'[t] = l - 1
        BY <2>2, <1>1 DEF TypeOK
      <3>2. OnLevel(pred[t], level[t])'
        BY <3>1, <2>2, <1>3, <1>7, <1>11 DEF OnLevel, LinkedBy
      <3>. QED
        BY <3>1, <3>2, <2>2, <1>2, <1>4 DEF shared
    <2>3. CASE pc' = [pc EXCEPT ![t] = "return"]
      BY <2>3, <1>1 DEF TypeOK
    <2>. QED
      BY <2>1, <2>2, <2>3, <1>6
  <1>15. ReturnsOne(t)'
    <2>1. CASE pc' = pc
      BY <2>1, <1>2 DEF ReturnsOne
    <2>2. CASE n # Null /\ node' = [node EXCEPT ![t] = n]
      BY <2>2, <1>1 DEF ReturnsOne, TypeOK
    <2>3. CASE (n # Null => key[n] > target[t]) /\ l <= 1
      <3>1. l = 1
        BY <2>3, <1>3, Names
      <3>2. ASSUME NEW m \in before[t] PROVE FALSE
        <4>1. m \in Nodes /\ LinkedBy(m, l) /\ key[m] = target[t]
          BY <3>1, <3>2, <1>3, <1>4
        <4>2. n # Null /\ key[n] <= key[m]
          BY <4>1, <1>1, <1>3, <1>4 DEF Chain, NoGap
        <4>3. key[n] \in Int /\ key[m] \in Int
          BY <4>1, <4>2, <1>1, <1>5, KeysAreInts
        <4>. QED
          BY <4>1, <4>2, <4>3, <2>3
      <3>. QED
        BY <3>2, <1>2 DEF ReturnsOne
    <2>. QED
      BY <2>1, <2>2, <2>3, <1>6
  <1>. QED
    BY <1>2, <1>8, <1>9, <1>10, <1>13, <1>14, <1>15, ReaderStep

\* The answer has been given.
LEMMA GetReturnsStep ==
  ASSUME Inv, NEW t \in Threads, GetReturns(t)
  PROVE  Inv'
  <1>1. TypeOK
    BY DEF Inv
  <1>2. /\ pc[t] = "return" /\ pc' = [pc EXCEPT ![t] = "idle"]
        /\ node' = [node EXCEPT ![t] = Null] /\ before' = [before EXCEPT ![t] = {}]
        /\ UNCHANGED <<shared, seen, level, pred, succ, target>>
    BY DEF GetReturns, Goto
  <1>3. TypeOK'
    BY <1>1, <1>2 DEF TypeOK, shared
  <1>4. ~Inserting(t) /\ ~Inserting(t)' /\ FoundBy(t)' /\ WalksBefore(t)' /\ ReturnsOne(t)'
    BY <1>1, <1>2 DEF Inserting, FoundBy, WalksBefore, ReturnsOne, TypeOK
  <1>5. \A u \in Threads : u # t =>
          /\ pc'[u] = pc[u] /\ node'[u] = node[u] /\ level'[u] = level[u] /\ pred'[u] = pred[u]
          /\ succ'[u] = succ[u] /\ target'[u] = target[u] /\ before'[u] = before[u]
    BY <1>1, <1>2 DEF TypeOK
  <1>. QED
    BY <1>2, <1>3, <1>4, <1>5, ReaderStep

-----------------------------------------------------------------------------
(* Theorems *)

\* The empty list.
LEMMA InitInv == Init => Inv
  <1>. SUFFICES ASSUME Init PROVE Inv
    OBVIOUS
  <1>1. TypeOK
    BY Names, NodesAssumption DEF Init, TypeOK
  <1>2. \A n \in Nodes : ~(n <= made)
    BY NodesAssumption DEF Init, Nodes
  <1>3. \A n \in Nodes, l \in Levels : ~LinkedBy(n, l)
    BY <1>2 DEF LinkedBy
  <1>4. \A p \in Nodes \cup {Head}, l \in Levels : OnLevel(p, l) <=> p = Head
    BY <1>3 DEF OnLevel
  <1>5. \A p \in Nodes \cup {Head}, l \in Levels : next[p][l] = Null
    BY DEF Init
  <1>6. Keyed
    BY <1>2 DEF Init, Keyed
  <1>7. OwnNode
    BY DEF Init, OwnNode, Inserting
  <1>8. PointsIntoLevel /\ HasPredecessor /\ OnePredecessor /\ Sorted /\ NoGap
    BY <1>3, <1>5 DEF PointsIntoLevel, HasPredecessor, OnePredecessor, Sorted, NoGap
  <1>9. OneRun
    BY <1>4 DEF OneRun
  <1>10. Positions
    BY DEF Init, Positions, FoundBy, WalksBefore, ReturnsOne
  <1>11. Counted
    <2>1. Finished = {}
      BY <1>2 DEF Finished
    <2>. QED
      BY <2>1, FS_EmptySet DEF Counted, Init
  <1>. QED
    BY <1>1, <1>6, <1>7, <1>8, <1>9, <1>10, <1>11 DEF Inv, Chain

\* No step, of insert, of get or of a thread that does nothing, breaks it.
LEMMA NextInv == Inv /\ [Next]_vars => Inv'
  <1>. SUFFICES ASSUME Inv, [Next]_vars PROVE Inv'
    OBVIOUS
  <1>1. CASE UNCHANGED vars
    <2>1. UNCHANGED <<next, key, height, max_height, size, made,
                      pc, node, seen, level, pred, succ, target, before>>
      BY <1>1 DEF vars, shared
    <2>2. TypeOK' /\ Keyed' /\ OwnNode'
      BY <2>1 DEF Inv, TypeOK, Keyed, OwnNode, Inserting
    <2>3. /\ \A n \in Nodes, l \in Levels : LinkedBy(n, l)' <=> LinkedBy(n, l)
          /\ \A p \in Nodes \cup {Head}, l \in Levels : OnLevel(p, l)' <=> OnLevel(p, l)
          /\ Finished' = Finished
      BY <2>1, SameMembers DEF Inserting
    <2>4. Chain'
      BY <2>1, <2>3, SameChain
    <2>5. Positions'
      BY <2>1, <2>3, PositionKept DEF Positions
    <2>6. Counted'
      BY <2>1, <2>3 DEF Inv, Counted
    <2>. QED
      BY <2>2, <2>4, <2>5, <2>6 DEF Inv
  <1>2. ASSUME NEW t \in Threads, NEW k \in Keys, Get(t, k)
        PROVE  Inv'
    BY <1>2, GetStep
  <1>3. ASSUME NEW t \in Threads, NEW k \in Keys, NEW h \in Levels, Insert(t, k, h)
        PROVE  Inv'
    BY <1>3, InsertStep
  <1>4. ASSUME NEW t \in Threads, Step(t)
        PROVE  Inv'
    BY <1>4, RaiseMaxHeightStep, FindStep, LinkStep, LinkFailsStep, WalkStep, GetReturnsStep
    DEF Step
  <1>. QED
    BY <1>1, <1>2, <1>3, <1>4 DEF Next

\* skiplist.rs lines 60-163: the list as a whole, its pointers, the inserts in
\* progress and the readers, stays consistent.
THEOREM ListInvariant == Spec => []Inv
  BY InitInv, NextInv, PTL DEF Spec

\* skiplist.rs lines 60-163: every variable keeps its type; approximate_size
\* counts a node once, and max_height never exceeds MAX_HEIGHT.
THEOREM ListTypes == Spec => []TypeOK
  <1>1. Inv => TypeOK
    BY DEF Inv
  <1>. QED
    BY <1>1, ListInvariant, PTL

\* skiplist.rs lines 91-130: no interleaving of inserts loses a node, makes a
\* cycle, or breaks the order of a level.
THEOREM SortedChains == Spec => []LevelsAreSortedChains
  <1>1. Inv => LevelsAreSortedChains
    <2>. SUFFICES ASSUME Inv, NEW l \in Levels
                  PROVE  /\ Linked(l) = {n \in Nodes : LinkedBy(n, l)}
                         /\ l > 1 => Linked(l) \subseteq Linked(l - 1)
                         /\ \A n \in Linked(l) :
                              /\ next[n][l] # Null => key[n] <= key[next[n][l]]
                              /\ Cardinality({p \in Linked(l) \cup {Head} : next[p][l] = n}) = 1
      BY DEF LevelsAreSortedChains
    <2>1. TypeOK /\ Chain
      BY DEF Inv
    <2>2. \A j \in Levels : Linked(j) = {n \in Nodes : LinkedBy(n, j)}
      BY LinkedIsLinkedBy
    <2>3. \A p \in Nodes \cup {Head}, j \in Levels : OnLevel(p, j) <=> p \in Linked(j) \cup {Head}
      BY <2>2, Names DEF OnLevel
    <2>4. l > 1 => Linked(l) \subseteq Linked(l - 1)
      <3>1. ASSUME l > 1, NEW n \in Linked(l) PROVE n \in Linked(l - 1)
        <4>1. n \in Nodes /\ OnLevel(n, l)
          BY <3>1, <2>2 DEF OnLevel
        <4>2. l - 1 \in Levels /\ OnLevel(n, l - 1)
          BY <3>1, <4>1, <2>1, LowerLevel
        <4>. QED
          BY <4>1, <4>2, <2>3, Names
      <3>. QED
        BY <3>1
    <2>5. ASSUME NEW n \in Linked(l)
          PROVE  /\ next[n][l] # Null => key[n] <= key[next[n][l]]
                 /\ Cardinality({p \in Linked(l) \cup {Head} : next[p][l] = n}) = 1
      <3>1. n \in Nodes /\ LinkedBy(n, l) /\ OnLevel(n, l)
        BY <2>2 DEF OnLevel
      <3>2. next[n][l] # Null => key[n] <= key[next[n][l]]
        BY <3>1, <2>1 DEF Chain, Sorted
      <3>3. PICK p \in Nodes \cup {Head} : OnLevel(p, l) /\ next[p][l] = n
        BY <3>1, <2>1 DEF Chain, HasPredecessor
      <3>4. \A q \in Linked(l) \cup {Head} : next[q][l] = n => q = p
        <4>1. Linked(l) \subseteq Nodes /\ n # Null
          BY <3>1, <2>2, Names
        <4>. QED
          BY <4>1, <3>3, <2>1, <2>3 DEF Chain, OnePredecessor
      <3>5. {q \in Linked(l) \cup {Head} : next[q][l] = n} = {p}
        BY <3>3, <3>4, <2>3
      <3>. QED
        BY <3>2, <3>5, FS_Singleton
    <2>. QED
      BY <2>2, <2>4, <2>5
  <1>. QED
    BY <1>1, ListInvariant, PTL

\* skiplist.rs lines 136-163: a get that runs beside any inserts finds a key
\* that was in the lowest level when it began.
THEOREM GetsFind == Spec => []GetFindsLinked
  <1>1. Inv => GetFindsLinked
    BY DEF Inv, Positions, ReturnsOne, GetFindsLinked
  <1>. QED
    BY <1>1, ListInvariant, PTL
=============================================================================
