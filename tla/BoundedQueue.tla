---------------------------- MODULE BoundedQueue ----------------------------
(***************************************************************************)
(* What MPMCQueue<T> promises its callers: a FIFO queue of at most         *)
(* Capacity elements.  An element enters in one step, leaves in one step   *)
(* to exactly one thread, and is then handed to that thread's caller.      *)
(***************************************************************************)
EXTENDS Naturals, Sequences

CONSTANTS
  Threads,   \* the threads that share the queue
  Data,      \* the elements that are pushed
  NoData,    \* "nothing in hand"
  Capacity   \* the number of slots

VARIABLES
  q,         \* the elements in the queue, oldest first
  out        \* out[t]: the element taken by t and not yet returned by its pop

vars == <<q, out>>

Init == q = << >> /\ out = [t \in Threads |-> NoData]

Enqueue(d) ==
  /\ Len(q) < Capacity
  /\ q' = Append(q, d)
  /\ UNCHANGED out

Dequeue(t) ==
  /\ q # << >>
  /\ out[t] = NoData
  /\ out' = [out EXCEPT ![t] = Head(q)]
  /\ q' = Tail(q)

Deliver(t) ==
  /\ out[t] # NoData
  /\ out' = [out EXCEPT ![t] = NoData]
  /\ UNCHANGED q

Next ==
  \/ \E d \in Data : Enqueue(d)
  \/ \E t \in Threads : Dequeue(t) \/ Deliver(t)

Spec == Init /\ [][Next]_vars
=============================================================================
