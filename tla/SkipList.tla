------------------------------ MODULE SkipList ------------------------------
(***************************************************************************)
(* The memtable of tier3_storage/src/memtable/skiplist.rs: insert links a  *)
(* node into level 1 of the list (level 0 of the README) and then, one by  *)
(* one, into the levels above; get walks down from the top.  Nodes are     *)
(* never unlinked, so an older version of a key stays behind newer ones.   *)
(*                                                                         *)
(* find_position is one step per level that is used: a pair of neighbours  *)
(* around a key is unique in its level, and the compare-exchange fails if  *)
(* it is not the current pair any more, so what the walk saw on its way    *)
(* there makes no difference.  Atomic accesses are sequentially consistent.*)
(***************************************************************************)
EXTENDS Integers, FiniteSets

CONSTANTS
  Threads,
  MaxKey,      \* keys are 1 .. MaxKey, in order
  MAX_HEIGHT,  \* levels
  MaxNodes     \* bound: number of inserts

ASSUME ListKeysAssumption == MaxKey \in Nat \ {0}
ASSUME HeightAssumption == MAX_HEIGHT \in Nat \ {0}
ASSUME NodesAssumption == MaxNodes \in Nat

Keys == 1 .. MaxKey
Levels == 1 .. MAX_HEIGHT
Nodes == 1 .. MaxNodes  \* in the order of their sequence numbers
Head == 0
Null == MaxNodes + 1
NoKey == 0

VARIABLES
  next,        \* next[n][l]: the successor of node n in level l
  key,         \* key[n]; the head's is the empty string
  height,      \* height[n]: how many levels n belongs to
  max_height,
  size,        \* approximate_size, in nodes
  made,        \* number of nodes allocated
  pc,          \* pc[t]: where t is inside insert or get
  node,        \* node[t]: the node t inserts, or the result of its get
  seen,        \* seen[t]: the max_height t has loaded
  level,       \* level[t]: the level t links into or walks along
  pred, succ,  \* pred[t], succ[t]: the neighbours found; get walks with pred
  target,      \* target[t]: the key t looks for
  before       \* history: before[t], the key's nodes linked when get began

shared == <<next, key, height, max_height, size, made>>
vars == <<shared, pc, node, seen, level, pred, succ, target, before>>

TypeOK ==
  /\ next \in [Nodes \cup {Head} -> [Levels -> Nodes \cup {Null}]]
  /\ key \in [Nodes \cup {Head} -> Keys \cup {NoKey}]
  /\ height \in [Nodes -> Levels]
  /\ max_height \in Levels
  /\ size \in 0 .. MaxNodes /\ made \in 0 .. MaxNodes
  /\ pc \in [Threads -> {"idle", "raise", "find", "link", "walk", "return"}]
  /\ node \in [Threads -> Nodes \cup {Null}]
  /\ seen \in [Threads -> Levels] /\ level \in [Threads -> Levels]
  /\ pred \in [Threads -> Nodes \cup {Head}]
  /\ succ \in [Threads -> Nodes \cup {Null}]
  /\ target \in [Threads -> Keys]
  /\ before \in [Threads -> SUBSET Nodes]

Goto(t, l) == pc' = [pc EXCEPT ![t] = l]

\* The nodes of level l: a node that is not linked there yet is nobody's
\* successor there.
Linked(l) == {n \in Nodes : \E p \in Nodes \cup {Head} : next[p][l] = n}

\* The node p after which k belongs in level l.
Precedes(p, k, l) ==
  /\ p \in Linked(l) \cup {Head}
  /\ key[p] < k
  /\ next[p][l] # Null => key[next[p][l]] >= k

-----------------------------------------------------------------------------
(* Faulty variants of definitions below, each a plausible slip *)

\* Heights are counted from zero in one place and from one in the other.
Raised_ByOne(t) == height[node[t]] + 1

\* A failed compare-exchange is retried with the successor it returned.
Retry_WithNewSucc(t) ==
  /\ succ' = [succ EXCEPT ![t] = next[pred[t]][level[t]]]
  /\ next' = [next EXCEPT ![node[t]][level[t]] = next[pred[t]][level[t]]]
  /\ UNCHANGED pc

\* A failed compare-exchange is retried as it was.
Retry_Blindly(t) == UNCHANGED <<pc, succ, next>>

\* get does not walk along the lowest level.
Bottom_OneAbove == IF MAX_HEIGHT > 1 THEN 2 ELSE 1

-----------------------------------------------------------------------------
Init ==
  /\ next = [n \in Nodes \cup {Head} |-> [l \in Levels |-> Null]]
  /\ key = [n \in Nodes \cup {Head} |-> NoKey]
  /\ height = [n \in Nodes |-> 1]
  /\ max_height = 1 /\ size = 0 /\ made = 0
  /\ pc = [t \in Threads |-> "idle"]
  /\ node = [t \in Threads |-> Null]
  /\ seen = [t \in Threads |-> 1]
  /\ level = [t \in Threads |-> 1]
  /\ pred = [t \in Threads |-> Head]
  /\ succ = [t \in Threads |-> Null]
  /\ target = [t \in Threads |-> 1]
  /\ before = [t \in Threads |-> {}]

-----------------------------------------------------------------------------
(* insert *)

\* A node of random height, and the load of max_height.
Insert(t, k, h) ==
  LET n == made + 1
  IN  /\ pc[t] = "idle" /\ made < MaxNodes
      /\ made' = n
      /\ key' = [key EXCEPT ![n] = k]
      /\ height' = [height EXCEPT ![n] = h]
      /\ node' = [node EXCEPT ![t] = n]
      /\ seen' = [seen EXCEPT ![t] = max_height]
      /\ level' = [level EXCEPT ![t] = 1]
      /\ target' = [target EXCEPT ![t] = k]
      /\ Goto(t, IF h > max_height THEN "raise" ELSE "find")
      /\ UNCHANGED <<next, max_height, size, pred, succ, before>>

\* The weak compare-exchange on max_height: tried once, and it may fail.
Raised(t) == height[node[t]]

RaiseMaxHeight(t) ==
  /\ pc[t] = "raise"
  /\ \/ max_height = seen[t] /\ max_height' = Raised(t)
     \/ UNCHANGED max_height
  /\ Goto(t, "find")
  /\ UNCHANGED <<next, key, height, size, made, node, seen, level, pred, succ, target, before>>

\* find_position, and the store of the successor in the new node.
Find(t) ==
  /\ pc[t] = "find"
  /\ \E p \in Nodes \cup {Head} :
       /\ Precedes(p, target[t], level[t])
       /\ pred' = [pred EXCEPT ![t] = p]
       /\ succ' = [succ EXCEPT ![t] = next[p][level[t]]]
       /\ next' = [next EXCEPT ![node[t]][level[t]] = next[p][level[t]]]
  /\ Goto(t, "link")
  /\ UNCHANGED <<key, height, max_height, size, made, node, seen, level, target, before>>

\* The compare-exchange succeeds if the pair has not changed.
MayLink(t) == next[pred[t]][level[t]] = succ[t]

\* The node is linked; the next level follows, or insert is done.
Link(t) ==
  /\ pc[t] = "link"
  /\ MayLink(t)
  /\ next' = [next EXCEPT ![pred[t]][level[t]] = node[t]]
  /\ IF level[t] < height[node[t]]
     THEN /\ level' = [level EXCEPT ![t] = @ + 1]
          /\ Goto(t, "find")
          /\ UNCHANGED <<size, node>>
     ELSE /\ size' = size + 1
          /\ Goto(t, "idle")
          /\ node' = [node EXCEPT ![t] = Null]
          /\ UNCHANGED level
  /\ UNCHANGED <<key, height, max_height, made, seen, pred, succ, target, before>>

\* After a failed compare-exchange the position is looked up again.
Retry(t) == Goto(t, "find") /\ UNCHANGED <<succ, next>>

LinkFails(t) ==
  /\ pc[t] = "link"
  /\ ~MayLink(t)
  /\ Retry(t)
  /\ UNCHANGED <<key, height, max_height, size, made, node, seen, level, pred, target, before>>

-----------------------------------------------------------------------------
(* get *)

Get(t, k) ==
  /\ pc[t] = "idle"
  /\ target' = [target EXCEPT ![t] = k]
  /\ pred' = [pred EXCEPT ![t] = Head]
  /\ level' = [level EXCEPT ![t] = max_height]
  /\ before' = [before EXCEPT ![t] = {n \in Linked(1) : key[n] = k}]
  /\ Goto(t, "walk")
  /\ UNCHANGED <<shared, node, seen, succ>>

Bottom == 1

\* One load: go on along the level, return the node found, go down a level,
\* or return that there is none.
Walk(t) ==
  LET n == next[pred[t]][level[t]]
  IN  /\ pc[t] = "walk"
      /\ \/ /\ n # Null /\ key[n] < target[t]
            /\ pred' = [pred EXCEPT ![t] = n]
            /\ UNCHANGED <<pc, level, node>>
         \/ /\ n # Null /\ key[n] = target[t]
            /\ node' = [node EXCEPT ![t] = n]
            /\ Goto(t, "return")
            /\ UNCHANGED <<level, pred>>
         \/ /\ n # Null => key[n] > target[t]
            /\ level[t] > Bottom
            /\ level' = [level EXCEPT ![t] = @ - 1]
            /\ UNCHANGED <<pc, pred, node>>
         \/ /\ n # Null => key[n] > target[t]
            /\ level[t] <= Bottom
            /\ Goto(t, "return")
            /\ UNCHANGED <<level, pred, node>>
      /\ UNCHANGED <<shared, seen, succ, target, before>>

GetReturns(t) ==
  /\ pc[t] = "return"
  /\ node' = [node EXCEPT ![t] = Null]
  /\ before' = [before EXCEPT ![t] = {}]
  /\ Goto(t, "idle")
  /\ UNCHANGED <<shared, seen, level, pred, succ, target>>

-----------------------------------------------------------------------------
Step(t) ==
  \/ RaiseMaxHeight(t) \/ Find(t) \/ Link(t) \/ LinkFails(t)
  \/ Walk(t) \/ GetReturns(t)

Next ==
  \E t \in Threads :
    \/ \E k \in Keys : Get(t, k) \/ \E h \in Levels : Insert(t, k, h)
    \/ Step(t)

Spec == Init /\ [][Next]_vars

\* A thread inside insert or get keeps running.
FairSpec == Spec /\ \A t \in Threads : WF_vars(Step(t))

-----------------------------------------------------------------------------
(* Properties *)

\* Node n belongs to level l and its insert has linked it there.
LinkedBy(n, l) ==
  /\ n <= made /\ l <= height[n]
  /\ \A t \in Threads :
       pc[t] \in {"raise", "find", "link"} /\ node[t] = n => l < level[t]

\* skiplist.rs lines 91-130, README "preventing cyclical loops": in every level
\* the nodes linked there form one chain in key order, in which each has one
\* predecessor, and no concurrent insert has cut one off.  A level is part of
\* the level below it.
LevelsAreSortedChains ==
  \A l \in Levels :
    /\ Linked(l) = {n \in Nodes : LinkedBy(n, l)}
    /\ l > 1 => Linked(l) \subseteq Linked(l - 1)
    /\ \A n \in Linked(l) :
         /\ next[n][l] # Null => key[n] <= key[next[n][l]]
         /\ Cardinality({p \in Linked(l) \cup {Head} : next[p][l] = n}) = 1

\* skiplist.rs lines 136-163: get does not miss a key that was in level 1, the
\* linearization point of insert, when it began.
GetFindsLinked ==
  \A t \in Threads : pc[t] = "return" /\ before[t] # {} => node[t] # Null

\* skiplist.rs lines 91-130: the retry loops of insert end.
InsertEnds == \A t \in Threads : (pc[t] # "idle") ~> (pc[t] = "idle")

\* README line 146: an insert takes effect when it is committed at the lowest
\* level, so a get that begins later does not return an older version.
GetIsFresh ==
  \A t \in Threads :
    pc[t] = "return" /\ before[t] # {} =>
      /\ node[t] # Null
      /\ \A n \in before[t] : n <= node[t]
=============================================================================
