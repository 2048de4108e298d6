------------------------------- MODULE Server -------------------------------
(***************************************************************************)
(* One worker of uring-engine/src/main.rs with its rings (uring.rs), its   *)
(* buffer ring and its two replication queues.  The worker handles one     *)
(* completion per step; the kernel, the clients and the neighbour core     *)
(* take their steps in between.                                            *)
(*                                                                         *)
(* The submission ring is the sequence of the entries between its head and *)
(* its tail; outside io_uring_enter the cached head is the head.  A        *)
(* request fills one receive.  What the database answers is left open: see *)
(* Engine.                                                                 *)
(***************************************************************************)
EXTENDS BufRing, FiniteSets, SequencesExt

CONSTANTS
  Fds,            \* descriptors the kernel hands out to clients
  SqEntries,      \* entries of the submission ring
  QueueCapacity,  \* slots of a replication queue
  MaxConns,       \* bound: number of connections
  MaxMsgs,        \* bound: number of requests
  MaxWrites,      \* bound: number of requests that are puts
  MaxCqes         \* bound: completions waiting

ASSUME FdsAssumption == Fds \subseteq Nat
ASSUME SqAssumption == SqEntries \in Nat \ {0}
ASSUME QueueAssumption == QueueCapacity \in Nat \ {0}
ASSUME ServerBounds == \A b \in {MaxConns, MaxMsgs, MaxWrites, MaxCqes} : b \in Nat

Conns == 1 .. MaxConns
NoConn == 0
NoFd == -1

VARIABLES
  pc,           \* where the worker is in its loop
  recycled_any,
  sq,           \* entries prepared and not yet taken by the kernel
  cq,           \* completions not yet handled
  fds,          \* fds[f]: the connection behind descriptor f, or NoConn
  conns,        \* number of connections accepted
  accepting,    \* the kernel holds the multishot accept
  receiving,    \* the multishot receives it holds
  sends,        \* the sends it has taken and not completed
  content,      \* content[b]: the message in buffer b
  msgs,         \* number of requests received
  outq,         \* queues[target_core]: writes for the neighbour
  written,      \* history: number of client writes
  replica,      \* history: those the neighbour has applied, in its order
  unsent,       \* history: those that met a full queue
  lost,         \* history: those the neighbour popped and could not put
  overrun,      \* history: the kernel has taken a buffer nobody had added
  loose,        \* history: connections with a failed send, closed at once
                \* because the ring was full, or hit by an entry of another
  dropped,      \* history: connections whose receive was not renewed
  deaf,         \* history: the accept was not renewed
  stray         \* history: connections of which a request hit another one

worker == <<pc, recycled_any>>
kernel == <<fds, conns, accepting, receiving, sends, content, msgs>>
store == <<outq, written, replica, unsent, lost>>
history == <<overrun, loose, dropped, deaf, stray>>
vars == <<worker, sq, cq, kernel, bufring, store, history>>

\* The n-th request is n, and what a get leaves in its buffer MaxMsgs + n; 0 is
\* a buffer not yet used.
Message == 0 .. 2 * MaxMsgs
ReplyTo(d) == IF d <= MaxMsgs THEN MaxMsgs + d ELSE d

-----------------------------------------------------------------------------
(* Submission entries and completions.  Each carries the descriptor the    *)
(* code packs into user_data, and the connection that was meant by it.     *)

Accept == [op |-> "accept"]
Recv(f, c) == [op |-> "recv", fd |-> f, conn |-> c]
Close(f, c) == [op |-> "close", fd |-> f, conn |-> c]

\* What the kernel holds for a receive entry e: the connection c that it found.
Receive(e, c) == [op |-> "recv", fd |-> e.fd, conn |-> c, by |-> e.conn]

\* A send names its buffer; at is the buffer's new position in the ring, data
\* what the worker left in it.
Send(f, c, b, d, p) == [op |-> "send", fd |-> f, conn |-> c, bid |-> b, data |-> d, at |-> p]

Done(e, res) == [op |-> e.op, fd |-> e.fd, conn |-> e.conn, res |-> res]

Room == Len(sq) < SqEntries

\* The connection other than c, if any, that descriptor f leads to.
Hit(f, c) == {fds[f]} \ {NoConn, c}

\* A faulty variant of PutSqe: the ring is taken for full one entry too late.
PutSqe_OneMore(s, e) == IF Len(s) <= SqEntries THEN Append(s, e) ELSE s

\* get_sqe and the preparation of e, if there is room in ring s.
PutSqe(s, e) == IF Len(s) < SqEntries THEN Append(s, e) ELSE s

-----------------------------------------------------------------------------
(* Faulty variants of definitions below, each a plausible slip *)

\* The descriptor is closed at once, past the entries that wait in the ring.
CloseFd_AtOnce(f, c) ==
  /\ fds' = [fds EXCEPT ![f] = NoConn]
  /\ stray' = IF Hit(f, c) = {} THEN stray ELSE stray \cup {c}
  /\ UNCHANGED <<sq, loose>>

\* Running out of buffers is taken for a completion like others.
HandleNoBufs_Ignored ==
  /\ pc = "cqes" /\ cq # << >> /\ Head(cq).op = "recv" /\ Head(cq).res = "nobufs"
  /\ cq' = Tail(cq)
  /\ UNCHANGED <<worker, sq, kernel, bufring, store, history>>

\* A full queue loses its oldest write instead of the new one.
Put_DropsOldest ==
  /\ written < MaxWrites
  /\ written' = written + 1
  /\ IF Len(outq) < QueueCapacity THEN outq' = Append(outq, written') /\ UNCHANGED unsent
     ELSE unsent' = unsent \cup {written'} /\ outq' = Append(Tail(outq), written')
  /\ UNCHANGED <<replica, lost, sq, content>>

-----------------------------------------------------------------------------
Init ==
  /\ BufRingInit
  /\ pc = "enter" /\ recycled_any = FALSE
  /\ sq = << >> /\ cq = << >>
  /\ fds = [f \in Fds |-> NoConn] /\ conns = 0
  /\ accepting = TRUE /\ receiving = {} /\ sends = {}
  /\ content = [b \in Bufs |-> 0] /\ msgs = 0
  /\ outq = << >> /\ written = 0 /\ replica = << >> /\ unsent = {} /\ lost = {}
  /\ overrun = FALSE /\ deaf = FALSE
  /\ loose = {} /\ dropped = {} /\ stray = {}

-----------------------------------------------------------------------------
(* The loop of the worker *)

\* submit_and_wait has returned: everything was taken and a completion is
\* there, or the kernel took only a part or was interrupted after it.  Up to 16
\* replicated writes of the neighbour are then put into the database.
EnterReturns ==
  /\ \/ pc = "enter" /\ sq = << >> /\ cq # << >>
     \/ pc = "taken"
  /\ pc' = "cqes"
  /\ UNCHANGED <<recycled_any, sq, cq, kernel, bufring, store, history>>

\* It fails, and the worker ends.
EnterFails ==
  /\ pc = "enter"
  /\ pc' = "exited"
  /\ UNCHANGED <<recycled_any, sq, cq, kernel, bufring, store, history>>

\* peek_cqe and advance_cq: the next completion, of operation o.
Take(o) ==
  /\ pc = "cqes" /\ cq # << >> /\ Head(cq).op = o
  /\ cq' = Tail(cq)
  /\ UNCHANGED pc

\* The descriptor is closed through the ring or, if it is full, at once.
CloseFd(f, c) ==
  IF Room THEN /\ sq' = Append(sq, Close(f, c))
               /\ UNCHANGED <<fds, loose, stray>>
  ELSE /\ fds' = [fds EXCEPT ![f] = NoConn]
       /\ loose' = loose \cup {c} \cup Hit(f, c)
       /\ stray' = IF Hit(f, c) = {} THEN stray ELSE stray \cup {c}
       /\ UNCHANGED sq

HandleAccept ==
  LET cqe == Head(cq)
      accepted == cqe.fd # NoFd
      s == IF accepted THEN PutSqe(sq, Recv(cqe.fd, cqe.conn)) ELSE sq
      hit == IF accepted /\ ~Room THEN Hit(cqe.fd, cqe.conn) ELSE {}
  IN  /\ Take("accept")
      /\ sq' = IF cqe.more THEN s ELSE PutSqe(s, Accept)
      /\ fds' = IF accepted /\ ~Room THEN [fds EXCEPT ![cqe.fd] = NoConn] ELSE fds
      /\ deaf' = (deaf \/ (~cqe.more /\ Len(s) = SqEntries))
      /\ loose' = loose \cup hit
      /\ stray' = IF hit = {} THEN stray ELSE stray \cup {cqe.conn}
      /\ UNCHANGED <<recycled_any, conns, accepting, receiving, sends, content, msgs,
                     bufring, store, overrun, dropped>>

\* The kernel had no buffer (-105): the receive is prepared again, if there is
\* room.
HandleNoBufs ==
  LET cqe == Head(cq)
  IN  /\ Take("recv") /\ cqe.res = "nobufs"
      /\ sq' = PutSqe(sq, Recv(cqe.fd, cqe.conn))
      /\ dropped' = IF Room THEN dropped ELSE dropped \cup {cqe.conn}
      /\ UNCHANGED <<recycled_any, kernel, bufring, store, overrun, loose, deaf, stray>>

\* End of the stream or an error.
HandleRecvEnd ==
  LET cqe == Head(cq)
  IN  /\ Take("recv") /\ cqe.res = "end"
      /\ CloseFd(cqe.fd, cqe.conn)
      /\ UNCHANGED <<recycled_any, conns, accepting, receiving, sends, content, msgs,
                     bufring, store, overrun, dropped, deaf>>

\* Number of the ring position at which the next buffer is added: every request
\* handled so far has given its buffer back.
NextPosition ==
  BufEntries + msgs - Cardinality({i \in DOMAIN cq : cq[i].op = "recv" /\ cq[i].res = "data"})

\* A write is put, and replicated whether or not the put failed, unless the
\* queue is full.
Put ==
  /\ written < MaxWrites
  /\ written' = written + 1
  /\ IF Len(outq) < QueueCapacity THEN outq' = Append(outq, written') /\ UNCHANGED unsent
     ELSE unsent' = unsent \cup {written'} /\ UNCHANGED outq
  /\ UNCHANGED <<replica, lost, sq, content>>

\* d is sent back from the buffer of the request, if there is room.
Reply(cqe, d) ==
  /\ sq' = PutSqe(sq, Send(cqe.fd, cqe.conn, cqe.bid, d, NextPosition))
  /\ content' = [content EXCEPT ![cqe.bid] = d]
  /\ UNCHANGED store

\* A request: a put has no answer, a get is answered if it finds a value, and
\* anything else is echoed.  The buffer is recycled in the same breath.  That
\* the receive may have ended with this completion is not looked at.
HandleRecvData ==
  LET cqe == Head(cq)
      d == content[cqe.bid]
  IN  /\ Take("recv") /\ cqe.res = "data"
      /\ \/ Put
         \/ Reply(cqe, ReplyTo(d))
         \/ UNCHANGED <<sq, content, store>>
         \/ Reply(cqe, d)
      /\ Add(cqe.bid)
      /\ recycled_any' = TRUE
      /\ dropped' = IF cqe.more THEN dropped ELSE dropped \cup {cqe.conn}
      /\ UNCHANGED <<fds, conns, accepting, receiving, sends, msgs,
                     overrun, loose, deaf, stray>>

HandleSend ==
  LET cqe == Head(cq)
  IN  /\ Take("send")
      /\ IF cqe.res = "ok" THEN UNCHANGED <<sq, fds, loose, stray>>
         ELSE CloseFd(cqe.fd, cqe.conn)
      /\ UNCHANGED <<recycled_any, conns, accepting, receiving, sends, content, msgs,
                     bufring, store, overrun, dropped, deaf>>

HandleClose ==
  /\ Take("close")
  /\ UNCHANGED <<recycled_any, sq, kernel, bufring, store, history>>

\* There is no further completion.
CqesDone ==
  /\ pc = "cqes" /\ cq = << >>
  /\ pc' = IF recycled_any THEN "flush" ELSE "enter"
  /\ UNCHANGED <<recycled_any, sq, cq, kernel, bufring, store, history>>

Flush ==
  /\ pc = "flush"
  /\ PublishTail
  /\ pc' = "enter" /\ recycled_any' = FALSE
  /\ UNCHANGED <<sq, cq, kernel, store, history>>

Worker ==
  \/ EnterReturns \/ EnterFails
  \/ HandleAccept \/ HandleNoBufs \/ HandleRecvEnd \/ HandleRecvData \/ HandleSend \/ HandleClose
  \/ CqesDone \/ Flush

-----------------------------------------------------------------------------
(* The kernel, the clients and the neighbour.  Completions may come at any *)
(* moment: the ring asks for no deferral.                                  *)

Post(e) == pc # "exited" /\ Len(cq) < MaxCqes /\ cq' = Append(cq, e)

\* Inside io_uring_enter the next entry is taken; its descriptor is looked up
\* now.
TakeSqe ==
  LET e == Head(sq)
      c == fds[e.fd]
      open == c # NoConn
      hit == IF e.op = "accept" THEN {} ELSE Hit(e.fd, e.conn)
  IN  /\ pc \in {"enter", "taken"} /\ sq # << >>
      /\ pc' = "taken"
      /\ sq' = Tail(sq)
      /\ \/ /\ e.op = "accept" /\ accepting' = TRUE
            /\ UNCHANGED <<cq, fds, receiving, sends>>
         \/ /\ e.op # "accept" /\ ~open
            /\ Post(Done(e, "end"))
            /\ UNCHANGED <<fds, receiving, sends, accepting>>
         \/ /\ e.op # "accept" /\ open
            /\ \/ /\ e.op = "recv"
                  /\ receiving' = receiving \cup {Receive(e, c)}
                  /\ UNCHANGED <<cq, fds, sends>>
               \/ /\ e.op = "send"
                  /\ sends' = sends \cup {e}
                  /\ UNCHANGED <<cq, fds, receiving>>
               \/ /\ e.op = "close"
                  /\ fds' = [fds EXCEPT ![e.fd] = NoConn]
                  /\ Post(Done(e, "ok"))
                  /\ UNCHANGED <<receiving, sends>>
            /\ UNCHANGED accepting
      /\ stray' = IF hit = {} THEN stray ELSE stray \cup {e.conn}
      /\ loose' = loose \cup hit \cup IF e.op = "send" /\ ~open THEN {e.conn} ELSE {}
      /\ UNCHANGED <<recycled_any, conns, content, msgs, bufring, store,
                     overrun, dropped, deaf>>

\* A client connects: the lowest free descriptor is its own.  An accept that
\* fails ends the multishot; one that succeeds may.
Connect ==
  /\ accepting /\ conns < MaxConns
  /\ \E f \in Fds, more \in BOOLEAN :
       /\ fds[f] = NoConn /\ \A g \in Fds : g < f => fds[g] # NoConn
       /\ fds' = [fds EXCEPT ![f] = conns + 1]
       /\ conns' = conns + 1
       /\ accepting' = more
       /\ Post([op |-> "accept", fd |-> f, conn |-> conns + 1, more |-> more])
  /\ UNCHANGED <<worker, sq, receiving, sends, content, msgs, bufring, store, history>>

ConnectFails ==
  /\ accepting /\ conns < MaxConns
  /\ accepting' = FALSE
  /\ Post([op |-> "accept", fd |-> NoFd, conn |-> NoConn, more |-> FALSE])
  /\ UNCHANGED <<worker, sq, fds, conns, receiving, sends, content, msgs, bufring, store, history>>

\* A request arrives and fills the next buffer.
Request(r) ==
  /\ msgs < MaxMsgs
  /\ msgs' = msgs + 1
  /\ \E b \in Bufs, more \in BOOLEAN :
       /\ Select(b)
       /\ content' = [content EXCEPT ![b] = msgs']
       /\ receiving' = IF more THEN receiving ELSE receiving \ {r}
       /\ Post([op |-> "recv", fd |-> r.fd, conn |-> r.conn, res |-> "data",
                more |-> more, bid |-> b, data |-> msgs'])
  /\ overrun' = (overrun \/ head = tail)
  /\ UNCHANGED <<worker, sq, fds, conns, accepting, sends, store, loose, dropped, deaf, stray>>

\* A request arrives and there is no buffer.
NoBufs(r) ==
  /\ msgs < MaxMsgs
  /\ Dry
  /\ receiving' = receiving \ {r}
  /\ Post(Done(r, "nobufs"))
  /\ UNCHANGED <<worker, sq, fds, conns, accepting, sends, content, msgs, bufring, store, history>>

\* The client closes or resets the connection.
Disconnect(r) ==
  /\ receiving' = receiving \ {r}
  /\ Post(Done(r, "end"))
  /\ UNCHANGED <<worker, sq, fds, conns, accepting, sends, content, msgs, bufring, store, history>>

SendDone(s) ==
  /\ sends' = sends \ {s}
  /\ \E res \in {"ok", "end"} :
       /\ Post(Done(s, res))
       /\ loose' = IF res = "ok" THEN loose ELSE loose \cup {s.conn}
  /\ UNCHANGED <<worker, sq, fds, conns, accepting, receiving, content, msgs, bufring, store,
                 overrun, dropped, deaf, stray>>

\* The neighbour takes a write and puts it into its own database.  An append to
\* the log that fails ends the put before the memtable has the write; the error
\* is ignored.
NeighbourPops ==
  /\ outq # << >>
  /\ outq' = Tail(outq)
  /\ \/ replica' = Append(replica, Head(outq)) /\ UNCHANGED lost
     \/ lost' = lost \cup {Head(outq)} /\ UNCHANGED replica
  /\ UNCHANGED <<worker, sq, cq, kernel, bufring, written, unsent, history>>

Environment ==
  \/ TakeSqe
  \/ Connect \/ ConnectFails
  \/ \E r \in receiving : Request(r) \/ NoBufs(r) \/ Disconnect(r)
  \/ \E s \in sends : SendDone(s)
  \/ NeighbourPops

Next == Worker \/ Environment

Spec == Init /\ [][Next]_vars

-----------------------------------------------------------------------------
(* Properties *)

TypeOK ==
  /\ pc \in {"enter", "taken", "cqes", "flush", "exited"}
  /\ recycled_any \in BOOLEAN
  /\ Len(sq) <= SqEntries /\ Len(cq) <= MaxCqes
  /\ fds \in [Fds -> Conns \cup {NoConn}] /\ conns \in 0 .. MaxConns
  /\ content \in [Bufs -> Message] /\ msgs \in 0 .. MaxMsgs
  /\ ring \in [Bufs -> Bufs]
  /\ {tail, tail_word, head} \subseteq 0 .. TailMod - 1
  /\ Len(outq) <= QueueCapacity

\* A request is still in its buffer when the worker comes to it: until then the
\* kernel does not use the buffer again.  The exception is the code's: add clears
\* the published tail with the reserved field of entry 0 (buf_ring.rs:99), and
\* until flush (line 117) a kernel that has used up all buffers finds more.
RequestIntact ==
  \A i \in DOMAIN cq :
    cq[i].op = "recv" /\ cq[i].res = "data" =>
      content[cq[i].bid] = cq[i].data \/ overrun

\* A reply that waits to be sent is still in its buffer.  The buffer is offered
\* to the kernel again before the send has completed (main.rs:318), so the reply
\* lasts only until the kernel comes to the buffer's new place in the ring:
\* every buffer offered before it is filled first.
ReplyIntact ==
  \A s \in sends \cup {e \in ToSet(sq) : e.op = "send"} :
    content[s.bid] = s.data \/ msgs > s.at

\* What is prepared for a connection acts on that connection or on none, though
\* it names a descriptor that may be given to the next client meanwhile.  The
\* exceptions are the code's: a failed send closes a descriptor whose receive
\* closes it again (main.rs:325-330, 247-253), a full ring makes close overtake
\* the entries before it (main.rs:252, 329), and so on for a connection that was
\* hit by an entry of such a one.
StaysOnConnection == stray \subseteq loose

\* Somebody will see to descriptor f: the kernel receives on it, or an entry or
\* a completion is on its way that renews the receive or closes it.
Due(f) ==
  \/ \E e \in receiving \cup ToSet(sq) : e.op \in {"recv", "close"} /\ e.fd = f
  \/ \E e \in ToSet(cq) :
       /\ e.fd = f
       /\ \/ e.op = "accept"
          \/ e.op = "recv" /\ (e.res # "data" \/ ~e.more)
          \/ e.op = "send" /\ e.res # "ok"

\* No open connection is forgotten, and neither is the listener.  The exceptions
\* are the code's: a receive or accept is not renewed when the ring is full
\* (main.rs:234, 244), nor a receive that ends with data (line 258 does not look
\* at F_MORE).
ConnectionServed ==
  /\ \A f \in Fds : fds[f] # NoConn => Due(f) \/ fds[f] \in dropped
  /\ \/ accepting \/ Accept \in ToSet(sq) \/ deaf
     \/ \E e \in ToSet(cq) : e.op = "accept" /\ ~e.more

\* The neighbour applies the client writes of this core in order, once, and
\* misses exactly those that met a full queue, whose error main.rs:284 ignores,
\* and those it could not put into its own database, whose error line 206
\* ignores.
ReplicaFollows ==
  LET applied == replica \o outq
  IN  /\ ToSet(applied) = (1 .. written) \ (unsent \cup lost)
      /\ \A i, j \in DOMAIN applied : i < j => applied[i] < applied[j]
=============================================================================
