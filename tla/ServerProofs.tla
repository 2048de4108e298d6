---------------------------- MODULE ServerProofs ----------------------------
(***************************************************************************)
(* Proofs about Server for any number of descriptors, connections,         *)
(* requests and buffers, and rings and queues of any size.                 *)
(***************************************************************************)
EXTENDS Server, SequenceTheorems, FiniteSetTheorems, TLAPS

-----------------------------------------------------------------------------
(* Types *)

Sqe ==
  {Accept} \cup [op : {"recv", "close"}, fd : Fds, conn : Conns]
  \cup [op : {"send"}, fd : Fds, conn : Conns, bid : Bufs, data : Message, at : Int]

Cqe ==
  [op : {"accept"}, fd : Fds, conn : Conns, more : BOOLEAN]
  \cup [op : {"accept"}, fd : {NoFd}, conn : {NoConn}, more : {FALSE}]
  \cup [op : {"recv"}, fd : Fds, conn : Conns, res : {"nobufs", "end"}]
  \cup [op : {"recv"}, fd : Fds, conn : Conns, res : {"data"}, more : BOOLEAN,
        bid : Bufs, data : Message]
  \cup [op : {"send", "close"}, fd : Fds, conn : Conns, res : {"ok", "end"}]

Receives == [op : {"recv"}, fd : Fds, conn : Conns, by : Conns]

Types ==
  /\ TypeOK
  /\ sq \in Seq(Sqe) /\ cq \in Seq(Cqe)
  /\ receiving \subseteq Receives
  /\ sends \subseteq {e \in Sqe : e.op = "send"}
  /\ outq \in Seq(Nat) /\ replica \in Seq(Nat)
  /\ written \in Nat

-----------------------------------------------------------------------------
(* Facts about sequences and records *)

\* What a sequence holds after one more element is appended.
LEMMA AppendElements ==
  ASSUME NEW S, NEW s \in Seq(S), NEW e \in S
  PROVE  /\ Append(s, e) \in Seq(S) /\ Len(Append(s, e)) = Len(s) + 1
         /\ DOMAIN Append(s, e) = 1 .. (Len(s) + 1)
         /\ \A i \in 1 .. Len(s) : Append(s, e)[i] = s[i]
         /\ Append(s, e)[Len(s) + 1] = e
  OBVIOUS

\* What it holds after its first element is taken.
LEMMA TailElements ==
  ASSUME NEW S, NEW s \in Seq(S), s # << >>
  PROVE  /\ Tail(s) \in Seq(S) /\ Len(Tail(s)) = Len(s) - 1 /\ Len(s) \in Nat \ {0}
         /\ DOMAIN s = 1 .. Len(s) /\ DOMAIN Tail(s) = 1 .. (Len(s) - 1)
         /\ \A i \in 1 .. (Len(s) - 1) : i + 1 \in 1 .. Len(s) /\ Tail(s)[i] = s[i + 1]
         /\ Head(s) = s[1] /\ Head(s) \in S
<1>1. Len(s) \in Nat \ {0} /\ Head(s) = s[1] BY EmptySeq
<1>2. /\ Tail(s) \in Seq(S) /\ Len(Tail(s)) = Len(s) - 1 /\ Head(s) \in S
      /\ \A i \in 1 .. Len(Tail(s)) : Tail(s)[i] = s[i + 1]
  BY HeadTailProperties
<1>3. DOMAIN s = 1 .. Len(s) /\ DOMAIN Tail(s) = 1 .. Len(Tail(s)) BY <1>2, LenProperties
<1> QED BY <1>1, <1>2, <1>3

\* The elements of a sequence by their positions.
LEMMA SeqSet ==
  ASSUME NEW S, NEW s \in Seq(S)
  PROVE  /\ DOMAIN s = 1 .. Len(s) /\ Len(s) \in Nat
         /\ \A i \in DOMAIN s : s[i] \in S
         /\ \A x : x \in ToSet(s) <=> \E i \in DOMAIN s : s[i] = x
<1>1. DOMAIN s = 1 .. Len(s) /\ Len(s) \in Nat BY LenProperties
<1>2. \A i \in DOMAIN s : s[i] \in S BY <1>1, ElementOfSeq
<1>3. \A x : x \in ToSet(s) <=> \E i \in DOMAIN s : s[i] = x BY DEF ToSet
<1> QED BY <1>1, <1>2, <1>3

\* What the worker prepares is an entry.
LEMMA Entries ==
  /\ Accept \in Sqe
  /\ \A f \in Fds, c \in Conns : Recv(f, c) \in Sqe /\ Close(f, c) \in Sqe
  /\ \A f \in Fds, c \in Conns, b \in Bufs, d \in Message, p \in Int : Send(f, c, b, d, p) \in Sqe
  BY DEF Sqe, Accept, Recv, Close, Send

\* The fields of an entry other than the accept.
LEMMA SqeFields ==
  ASSUME NEW e \in Sqe
  PROVE  /\ e.op \in {"accept", "recv", "close", "send"}
         /\ e.op # "accept" => e.fd \in Fds /\ e.conn \in Conns
         /\ e.op = "send" => e.bid \in Bufs /\ e.data \in Message /\ e.at \in Int
  BY DEF Sqe, Accept

\* The fields of a completion.
LEMMA CqeFields ==
  ASSUME NEW e \in Cqe
  PROVE  /\ e.op \in {"accept", "recv", "close", "send"}
         /\ e.fd \in Fds \cup {NoFd} /\ e.conn \in Conns \cup {NoConn}
         /\ e.op # "accept" => e.fd \in Fds /\ e.conn \in Conns
         /\ e.op = "accept" => e.more \in BOOLEAN
         /\ e.op = "accept" => IF e.fd = NoFd THEN e.conn = NoConn ELSE e.fd \in Fds /\ e.conn \in Conns
         /\ e.op = "recv" => e.res \in {"nobufs", "end", "data"}
         /\ e.op = "recv" /\ e.res = "data" => /\ e.more \in BOOLEAN
                                               /\ e.bid \in Bufs /\ e.data \in Message
         /\ e.op \in {"send", "close"} => e.res \in {"ok", "end"}
<1>1. NoFd \notin Fds BY FdsAssumption DEF NoFd
<1> QED BY <1>1 DEF Cqe

\* The completion of an entry that was not accepted, or of a receive or a send.
LEMMA Completions ==
  /\ \A e \in Sqe, res \in {"ok", "end"} : e.op \in {"send", "close"} => Done(e, res) \in Cqe
  /\ \A e \in Sqe : e.op # "accept" => Done(e, "end") \in Cqe
  /\ \A r \in Receives, res \in {"nobufs", "end"} : Done(r, res) \in Cqe
  /\ \A e, res : Done(e, res).op = e.op /\ Done(e, res).fd = e.fd /\ Done(e, res).conn = e.conn
                 /\ Done(e, res).res = res
<1>1. \A e, res : Done(e, res).op = e.op /\ Done(e, res).fd = e.fd /\ Done(e, res).conn = e.conn
                 /\ Done(e, res).res = res
  BY DEF Done
<1>2. ASSUME NEW e \in Sqe, NEW res \in {"ok", "end"}, e.op \in {"send", "close"}
      PROVE  Done(e, res) \in Cqe
  BY <1>2, SqeFields DEF Done, Cqe
<1>3. ASSUME NEW e \in Sqe, e.op # "accept" PROVE Done(e, "end") \in Cqe
  BY <1>3, SqeFields DEF Done, Cqe
<1>4. ASSUME NEW r \in Receives, NEW res \in {"nobufs", "end"} PROVE Done(r, res) \in Cqe
  BY DEF Done, Cqe, Receives
<1> QED BY <1>1, <1>2, <1>3, <1>4

\* An entry is put into the ring only where there is room.
LEMMA PutTypes ==
  ASSUME NEW s \in Seq(Sqe), NEW e \in Sqe, Len(s) <= SqEntries
  PROVE  PutSqe(s, e) \in Seq(Sqe) /\ Len(PutSqe(s, e)) <= SqEntries
<1>1. CASE Len(s) < SqEntries
  <2>1. Append(s, e) \in Seq(Sqe) /\ Len(Append(s, e)) = Len(s) + 1 BY AppendElements
  <2>2. Len(s) \in Nat BY LenProperties
  <2> QED BY <1>1, <2>1, <2>2, SqAssumption DEF PutSqe
<1>2. CASE ~(Len(s) < SqEntries) BY <1>2 DEF PutSqe
<1> QED BY <1>1, <1>2

\* The completion the worker takes, and what is left.
LEMMA TakeTypes ==
  ASSUME Types, NEW o, Take(o)
  PROVE  /\ cq # << >> /\ Head(cq) \in Cqe /\ Head(cq).op = o
         /\ cq' = Tail(cq) /\ cq' \in Seq(Cqe) /\ Len(cq') <= MaxCqes
<1>1. cq \in Seq(Cqe) /\ cq # << >> /\ Len(cq) <= MaxCqes BY DEF Types, TypeOK, Take
<1>2. Head(cq) \in Cqe /\ Tail(cq) \in Seq(Cqe) /\ Len(Tail(cq)) = Len(cq) - 1 /\ Len(cq) \in Nat
  BY <1>1, TailElements
<1>3. Len(cq) - 1 <= MaxCqes BY <1>1, <1>2, ServerBounds
<1> QED BY <1>1, <1>2, <1>3 DEF Take

\* The completion the kernel posts.
LEMMA PostTypes ==
  ASSUME Types, NEW e \in Cqe, Post(e)
  PROVE  cq' = Append(cq, e) /\ cq' \in Seq(Cqe) /\ Len(cq') <= MaxCqes
<1>1. cq \in Seq(Cqe) /\ Len(cq) < MaxCqes /\ cq' = Append(cq, e) BY DEF Types, Post
<1>2. cq' \in Seq(Cqe) /\ Len(cq') = Len(cq) + 1 /\ Len(cq) \in Nat BY <1>1, AppendElements, LenProperties
<1> QED BY <1>1, <1>2, ServerBounds

\* The position of the next buffer is a number.
LEMMA PositionInt == Types => NextPosition \in Int
<1> SUFFICES ASSUME Types PROVE NextPosition \in Int
  OBVIOUS
<1> DEFINE D == {i \in DOMAIN cq : cq[i].op = "recv" /\ cq[i].res = "data"}
<1>1. DOMAIN cq = 1 .. Len(cq) /\ Len(cq) \in Nat BY LenProperties DEF Types
<1>2. IsFiniteSet(1 .. Len(cq)) BY <1>1, FS_Interval
<1>3. D \in SUBSET (1 .. Len(cq)) BY <1>1
<1>4. IsFiniteSet(D) BY <1>2, <1>3, FS_Subset
<1>5. Cardinality(D) \in Nat BY <1>4, FS_CardinalityType
<1>6. msgs \in Int /\ BufEntries \in Int BY BufEntriesAssumption, ServerBounds DEF Types, TypeOK
<1> QED BY <1>5, <1>6 DEF NextPosition

-----------------------------------------------------------------------------
(* Types *)

\* Initially every variable has its type.
LEMMA InitTypes == Init => Types
<1> SUFFICES ASSUME Init PROVE Types
  OBVIOUS
<1>1. sq = << >> /\ cq = << >> /\ outq = << >> /\ replica = << >> BY DEF Init
<1>2. /\ sq \in Seq(Sqe) /\ cq \in Seq(Cqe) /\ outq \in Seq(Nat) /\ replica \in Seq(Nat)
      /\ Len(sq) = 0 /\ Len(cq) = 0 /\ Len(outq) = 0
  BY <1>1
<1>3. Len(sq) <= SqEntries /\ Len(cq) <= MaxCqes /\ Len(outq) <= QueueCapacity
  BY <1>2, SqAssumption, QueueAssumption, ServerBounds
<1>4. /\ fds \in [Fds -> Conns \cup {NoConn}] /\ conns \in 0 .. MaxConns
      /\ content \in [Bufs -> Message] /\ msgs \in 0 .. MaxMsgs
  BY ServerBounds DEF Init, Message
<1>5. ring \in [Bufs -> Bufs] /\ {tail, tail_word, head} \subseteq 0 .. TailMod - 1
  BY BufEntriesAssumption, TailModAssumption DEF Init, BufRingInit
<1> QED BY <1>2, <1>3, <1>4, <1>5 DEF Init, Types, TypeOK

\* The buffer ring keeps its type when a buffer is added or taken.
LEMMA RingTypes ==
  ASSUME Types
  PROVE  /\ \A b \in Bufs : Add(b) =>
              ring' \in [Bufs -> Bufs] /\ {tail', tail_word', head'} \subseteq 0 .. TailMod - 1
         /\ \A b \in Bufs : Select(b) =>
              ring' \in [Bufs -> Bufs] /\ {tail', tail_word', head'} \subseteq 0 .. TailMod - 1
         /\ Idx(tail) \in Bufs /\ Idx(head) \in Bufs
<1>1. ring \in [Bufs -> Bufs] /\ {tail, tail_word, head} \subseteq 0 .. TailMod - 1 BY DEF Types, TypeOK
<1>2. BufEntries \in Nat \ {0} BY BufEntriesAssumption
<1>3. TailMod \in Nat \ {0} BY <1>2, TailModAssumption
<1>4. /\ (tail + 1) % TailMod \in 0 .. TailMod - 1 /\ (head + 1) % TailMod \in 0 .. TailMod - 1
      /\ 0 \in 0 .. TailMod - 1
  BY <1>1, <1>3
<1>5. Idx(tail) \in Bufs /\ Idx(head) \in Bufs
  <2>1. tail \in Int /\ head \in Int BY <1>1, <1>3
  <2>2. \A x \in Int : x % BufEntries \in 0 .. BufEntries - 1 BY <1>2
  <2> QED BY <2>1, <2>2 DEF Idx, Bufs
<1> QED BY <1>1, <1>4, <1>5 DEF Add, Select

\* Closing a descriptor through the ring or at once.
LEMMA CloseTypes ==
  ASSUME Types, NEW f \in Fds, NEW c \in Conns, CloseFd(f, c)
  PROVE  /\ sq' \in Seq(Sqe) /\ Len(sq') <= SqEntries
         /\ fds' \in [Fds -> Conns \cup {NoConn}]
<1>1. sq \in Seq(Sqe) /\ Len(sq) <= SqEntries /\ fds \in [Fds -> Conns \cup {NoConn}] BY DEF Types, TypeOK
<1>2. CASE Room
  <2>1. sq' = PutSqe(sq, Close(f, c)) /\ fds' = fds BY <1>2 DEF CloseFd, PutSqe, Room
  <2> QED BY <1>1, <2>1, Entries, PutTypes
<1>3. CASE ~Room
  <2>1. sq' = sq /\ fds' = [fds EXCEPT ![f] = NoConn] BY <1>3 DEF CloseFd
  <2> QED BY <1>1, <2>1
<1> QED BY <1>2, <1>3

\* The moves of the worker that touch no entry keep the types.
LEMMA WorkerTypes ==
  Types /\ (EnterReturns \/ EnterFails \/ HandleClose \/ CqesDone \/ Flush) => Types'
<1> SUFFICES ASSUME Types, EnterReturns \/ EnterFails \/ HandleClose \/ CqesDone \/ Flush
             PROVE  Types'
  OBVIOUS
<1> USE DEF Types, TypeOK, worker, kernel, store, history, bufring
<1>1. CASE EnterReturns BY <1>1 DEF EnterReturns
<1>2. CASE EnterFails BY <1>2 DEF EnterFails
<1>3. CASE HandleClose
  <2>1. cq' \in Seq(Cqe) /\ Len(cq') <= MaxCqes BY <1>3, TakeTypes DEF HandleClose
  <2> QED BY <1>3, <2>1 DEF HandleClose, Take
<1>4. CASE CqesDone BY <1>4 DEF CqesDone
<1>5. CASE Flush BY <1>5 DEF Flush, PublishTail
<1> QED BY <1>1, <1>2, <1>3, <1>4, <1>5

\* Handling an accept keeps the types.
LEMMA AcceptTypes == Types /\ HandleAccept => Types'
<1> SUFFICES ASSUME Types, HandleAccept PROVE Types'
  OBVIOUS
<1> DEFINE cqe == Head(cq)
           s == IF cqe.fd # NoFd THEN PutSqe(sq, Recv(cqe.fd, cqe.conn)) ELSE sq
<1>1. cqe \in Cqe /\ cqe.op = "accept" /\ cq' \in Seq(Cqe) /\ Len(cq') <= MaxCqes
  BY TakeTypes DEF HandleAccept
<1>2. cqe.fd # NoFd => cqe.fd \in Fds /\ cqe.conn \in Conns BY <1>1, CqeFields
<1>3. sq \in Seq(Sqe) /\ Len(sq) <= SqEntries BY DEF Types, TypeOK
<1>4. s \in Seq(Sqe) /\ Len(s) <= SqEntries BY <1>2, <1>3, Entries, PutTypes
<1>5. sq' = IF cqe.more THEN s ELSE PutSqe(s, Accept) BY DEF HandleAccept
<1>6. sq' \in Seq(Sqe) /\ Len(sq') <= SqEntries BY <1>4, <1>5, Entries, PutTypes
<1>7. fds' \in [Fds -> Conns \cup {NoConn}] BY <1>2 DEF HandleAccept, Types, TypeOK
<1>8. UNCHANGED <<pc, recycled_any, conns, receiving, sends, content, msgs, bufring, store>>
  BY DEF HandleAccept, Take
<1> QED BY <1>1, <1>6, <1>7, <1>8 DEF Types, TypeOK, bufring, store

\* Renewing a receive keeps the types.
LEMMA NoBufsTypes == Types /\ HandleNoBufs => Types'
<1> SUFFICES ASSUME Types, HandleNoBufs PROVE Types'
  OBVIOUS
<1>1. Head(cq) \in Cqe /\ Head(cq).op = "recv" /\ cq' \in Seq(Cqe) /\ Len(cq') <= MaxCqes
  BY TakeTypes DEF HandleNoBufs
<1>2. Head(cq).fd \in Fds /\ Head(cq).conn \in Conns BY <1>1, CqeFields
<1>3. sq \in Seq(Sqe) /\ Len(sq) <= SqEntries BY DEF Types, TypeOK
<1>4. sq' = PutSqe(sq, Recv(Head(cq).fd, Head(cq).conn)) BY DEF HandleNoBufs
<1>5. sq' \in Seq(Sqe) /\ Len(sq') <= SqEntries BY <1>2, <1>3, <1>4, Entries, PutTypes
<1>6. UNCHANGED <<pc, recycled_any, kernel, bufring, store>> BY DEF HandleNoBufs, Take
<1> QED BY <1>1, <1>5, <1>6 DEF Types, TypeOK, kernel, bufring, store

\* Closing after a receive or a send keeps the types.
LEMMA CloseAfterTypes == Types /\ (HandleRecvEnd \/ HandleSend) => Types'
<1> SUFFICES ASSUME Types, HandleRecvEnd \/ HandleSend PROVE Types'
  OBVIOUS
<1>1. PICK o \in {"recv", "send"} : Take(o) BY DEF HandleRecvEnd, HandleSend
<1>2. Head(cq) \in Cqe /\ Head(cq).op = o /\ cq' \in Seq(Cqe) /\ Len(cq') <= MaxCqes
  BY <1>1, TakeTypes
<1>3. Head(cq).fd \in Fds /\ Head(cq).conn \in Conns BY <1>2, CqeFields
<1>4. UNCHANGED <<sq, fds>> \/ CloseFd(Head(cq).fd, Head(cq).conn) BY DEF HandleRecvEnd, HandleSend
<1>5. sq' \in Seq(Sqe) /\ Len(sq') <= SqEntries /\ fds' \in [Fds -> Conns \cup {NoConn}]
  BY <1>3, <1>4, CloseTypes DEF Types, TypeOK
<1>6. UNCHANGED <<pc, recycled_any, conns, receiving, sends, content, msgs, bufring, store>>
  BY <1>1 DEF HandleRecvEnd, HandleSend, Take
<1> QED BY <1>2, <1>5, <1>6 DEF Types, TypeOK, bufring, store

\* What the four answers to a request do to the queue, the buffer and the ring.
LEMMA AnswerTypes ==
  ASSUME Types, HandleRecvData
  PROVE  /\ sq' \in Seq(Sqe) /\ Len(sq') <= SqEntries
         /\ content' \in [Bufs -> Message]
         /\ outq' \in Seq(Nat) /\ Len(outq') <= QueueCapacity /\ replica' = replica /\ written' \in Nat
<1> DEFINE cqe == Head(cq)
<1>1. cqe \in Cqe /\ cqe.op = "recv" /\ cqe.res = "data" BY TakeTypes DEF HandleRecvData
<1>2. cqe.fd \in Fds /\ cqe.conn \in Conns /\ cqe.bid \in Bufs BY <1>1, CqeFields
<1>3. /\ sq \in Seq(Sqe) /\ Len(sq) <= SqEntries /\ content \in [Bufs -> Message]
      /\ outq \in Seq(Nat) /\ Len(outq) <= QueueCapacity /\ written \in Nat
  BY DEF Types, TypeOK
<1>4. content[cqe.bid] \in Message /\ ReplyTo(content[cqe.bid]) \in Message
  BY <1>2, <1>3, ServerBounds DEF Message, ReplyTo
<1>5. ASSUME NEW d \in Message, Reply(cqe, d)
      PROVE  /\ sq' \in Seq(Sqe) /\ Len(sq') <= SqEntries
             /\ content' \in [Bufs -> Message] /\ UNCHANGED store
  <2>1. Send(cqe.fd, cqe.conn, cqe.bid, d, NextPosition) \in Sqe BY <1>2, Entries, PositionInt
  <2>2. sq' \in Seq(Sqe) /\ Len(sq') <= SqEntries BY <1>3, <1>5, <2>1, PutTypes DEF Reply
  <2> QED BY <1>2, <1>3, <1>5, <2>2 DEF Reply
<1>6. CASE Put
  <2>1. written' \in Nat BY <1>3, <1>6 DEF Put
  <2>2. outq' \in Seq(Nat) /\ Len(outq') <= QueueCapacity
    <3>1. CASE Len(outq) < QueueCapacity
      <4>1. outq' = Append(outq, written') BY <1>6, <3>1 DEF Put
      <4>2. outq' \in Seq(Nat) /\ Len(outq') = Len(outq) + 1 /\ Len(outq) \in Nat
        BY <1>3, <2>1, <4>1, AppendElements, LenProperties
      <4> QED BY <3>1, <4>2, QueueAssumption
    <3>2. CASE ~(Len(outq) < QueueCapacity) BY <1>3, <1>6, <3>2 DEF Put
    <3> QED BY <3>1, <3>2
  <2> QED BY <1>3, <1>6, <2>1, <2>2 DEF Put
<1>7. CASE UNCHANGED <<sq, content, store>> BY <1>3, <1>7 DEF store
<1>8. CASE Reply(cqe, content[cqe.bid]) \/ Reply(cqe, ReplyTo(content[cqe.bid]))
  BY <1>3, <1>4, <1>5, <1>8 DEF store
<1> QED BY <1>6, <1>7, <1>8 DEF HandleRecvData

\* Handling a request keeps the types.
LEMMA DataTypes == Types /\ HandleRecvData => Types'
<1> SUFFICES ASSUME Types, HandleRecvData PROVE Types'
  OBVIOUS
<1>1. /\ Head(cq) \in Cqe /\ Head(cq).op = "recv" /\ Head(cq).res = "data"
      /\ cq' \in Seq(Cqe) /\ Len(cq') <= MaxCqes
  BY TakeTypes DEF HandleRecvData
<1>2. Head(cq).bid \in Bufs BY <1>1, CqeFields
<1>3. ring' \in [Bufs -> Bufs] /\ {tail', tail_word', head'} \subseteq 0 .. TailMod - 1
  BY <1>2, RingTypes DEF HandleRecvData
<1>4. UNCHANGED <<pc, fds, conns, receiving, sends, msgs>> /\ recycled_any' = TRUE
  BY DEF HandleRecvData, Take
<1> QED BY <1>1, <1>3, <1>4, AnswerTypes DEF Types, TypeOK

\* Taking an entry keeps the types.
LEMMA TakeSqeTypes == Types /\ TakeSqe => Types'
<1> SUFFICES ASSUME Types, TakeSqe PROVE Types'
  OBVIOUS
<1> DEFINE e == Head(sq)
<1>1. sq \in Seq(Sqe) /\ sq # << >> /\ Len(sq) <= SqEntries /\ sq' = Tail(sq) BY DEF Types, TypeOK, TakeSqe
<1>2. e \in Sqe /\ sq' \in Seq(Sqe) /\ Len(sq') = Len(sq) - 1 /\ Len(sq) \in Nat BY <1>1, TailElements
<1>3. Len(sq') <= SqEntries BY <1>1, <1>2, SqAssumption
<1>4. e.op # "accept" => e.fd \in Fds /\ e.conn \in Conns BY <1>2, SqeFields
<1>5. e.op # "accept" => Done(e, "end") \in Cqe BY <1>2, Completions
<1>6. e.op = "close" => Done(e, "ok") \in Cqe BY <1>2, Completions
<1>7. cq' = cq \/ (Post(Done(e, "end")) /\ e.op # "accept") \/ (Post(Done(e, "ok")) /\ e.op = "close")
  BY DEF TakeSqe
<1>8. cq' \in Seq(Cqe) /\ Len(cq') <= MaxCqes BY <1>5, <1>6, <1>7, PostTypes DEF Types, TypeOK
<1>9. fds \in [Fds -> Conns \cup {NoConn}] BY DEF Types, TypeOK
<1>10. fds' \in [Fds -> Conns \cup {NoConn}] BY <1>9 DEF TakeSqe
<1>11. receiving' \subseteq Receives
  <2>1. CASE receiving' = receiving BY <2>1 DEF Types
  <2>2. CASE receiving' # receiving
    <3>1. /\ e.op = "recv" /\ fds[e.fd] # NoConn
          /\ receiving' = receiving \cup {Receive(e, fds[e.fd])}
      BY <2>2 DEF TakeSqe
    <3>2. e.fd \in Fds /\ e.conn \in Conns /\ fds[e.fd] \in Conns BY <1>4, <1>9, <3>1
    <3>3. Receive(e, fds[e.fd]) \in Receives BY <3>1, <3>2 DEF Receive, Receives
    <3> QED BY <3>1, <3>3 DEF Types
  <2> QED BY <2>1, <2>2
<1>12. sends' \subseteq {x \in Sqe : x.op = "send"}
  <2>1. sends' = sends \/ (e.op = "send" /\ sends' = sends \cup {e}) BY DEF TakeSqe
  <2> QED BY <1>2, <2>1 DEF Types
<1>13. pc' = "taken" /\ UNCHANGED <<recycled_any, conns, content, msgs, bufring, store>> BY DEF TakeSqe
<1> QED BY <1>2, <1>3, <1>8, <1>10, <1>11, <1>12, <1>13 DEF Types, TypeOK, bufring, store

\* A connection, made or failed, keeps the types.
LEMMA ConnectTypes == Types /\ (Connect \/ ConnectFails) => Types'
<1> SUFFICES ASSUME Types, Connect \/ ConnectFails PROVE Types'
  OBVIOUS
<1>1. CASE Connect
  <2>1. PICK f \in Fds, more \in BOOLEAN :
          /\ fds' = [fds EXCEPT ![f] = conns + 1]
          /\ Post([op |-> "accept", fd |-> f, conn |-> conns + 1, more |-> more])
    BY <1>1 DEF Connect
  <2>2. conns' = conns + 1 /\ conns < MaxConns BY <1>1 DEF Connect
  <2>3. conns + 1 \in Conns /\ conns' \in 0 .. MaxConns
    BY <2>2, ServerBounds DEF Types, TypeOK, Conns
  <2>4. [op |-> "accept", fd |-> f, conn |-> conns + 1, more |-> more] \in Cqe BY <2>3 DEF Cqe
  <2>5. cq' \in Seq(Cqe) /\ Len(cq') <= MaxCqes BY <2>1, <2>4, PostTypes
  <2>6. fds' \in [Fds -> Conns \cup {NoConn}] BY <2>1, <2>3 DEF Types, TypeOK
  <2>7. UNCHANGED <<worker, sq, receiving, sends, content, msgs, bufring, store>> BY <1>1 DEF Connect
  <2> QED BY <2>3, <2>5, <2>6, <2>7 DEF Types, TypeOK, worker, bufring, store
<1>2. CASE ConnectFails
  <2>1. [op |-> "accept", fd |-> NoFd, conn |-> NoConn, more |-> FALSE] \in Cqe BY DEF Cqe
  <2>2. cq' \in Seq(Cqe) /\ Len(cq') <= MaxCqes BY <1>2, <2>1, PostTypes DEF ConnectFails
  <2>3. UNCHANGED <<worker, sq, fds, conns, receiving, sends, content, msgs, bufring, store>>
    BY <1>2 DEF ConnectFails
  <2> QED BY <2>2, <2>3 DEF Types, TypeOK, worker, bufring, store
<1> QED BY <1>1, <1>2

\* A request keeps the types.
LEMMA RequestTypes == \A r \in receiving : Types /\ Request(r) => Types'
<1> SUFFICES ASSUME NEW r \in receiving, Types, Request(r) PROVE Types'
  OBVIOUS
<1>1. PICK b \in Bufs, more \in BOOLEAN :
        /\ Select(b)
        /\ content' = [content EXCEPT ![b] = msgs']
        /\ receiving' = IF more THEN receiving ELSE receiving \ {r}
        /\ Post([op |-> "recv", fd |-> r.fd, conn |-> r.conn, res |-> "data",
                 more |-> more, bid |-> b, data |-> msgs'])
  BY DEF Request
<1>2. msgs' \in 0 .. MaxMsgs /\ msgs' \in Message BY ServerBounds DEF Request, Types, TypeOK, Message
<1>3. r \in Receives BY DEF Types
<1>4. [op |-> "recv", fd |-> r.fd, conn |-> r.conn, res |-> "data",
       more |-> more, bid |-> b, data |-> msgs'] \in Cqe
  BY <1>2, <1>3 DEF Receives, Cqe
<1>5. cq' \in Seq(Cqe) /\ Len(cq') <= MaxCqes BY <1>1, <1>4, PostTypes
<1>6. ring' \in [Bufs -> Bufs] /\ {tail', tail_word', head'} \subseteq 0 .. TailMod - 1
  BY <1>1, RingTypes
<1>7. content' \in [Bufs -> Message] /\ receiving' \subseteq Receives
  BY <1>1, <1>2 DEF Types, TypeOK
<1>8. UNCHANGED <<worker, sq, fds, conns, sends, store>> BY DEF Request
<1> QED BY <1>2, <1>5, <1>6, <1>7, <1>8 DEF Types, TypeOK, worker, store

\* The other steps of the kernel and the neighbour keep the types.
LEMMA RestTypes ==
  Types /\ (\/ \E r \in receiving : NoBufs(r) \/ Disconnect(r)
            \/ \E s \in sends : SendDone(s)
            \/ NeighbourPops) => Types'
<1>1. ASSUME Types, NEW r \in receiving, NoBufs(r) \/ Disconnect(r) PROVE Types'
  <2>1. r \in Receives BY <1>1 DEF Types
  <2>2. PICK res \in {"nobufs", "end"} : Post(Done(r, res)) BY <1>1 DEF NoBufs, Disconnect
  <2>3. cq' \in Seq(Cqe) /\ Len(cq') <= MaxCqes BY <1>1, <2>1, <2>2, Completions, PostTypes
  <2>4. /\ receiving' = receiving \ {r}
        /\ UNCHANGED <<worker, sq, fds, conns, sends, content, msgs, bufring, store>>
    BY <1>1 DEF NoBufs, Disconnect
  <2> QED BY <1>1, <2>3, <2>4 DEF Types, TypeOK, worker, bufring, store
<1>2. ASSUME Types, NEW s \in sends, SendDone(s) PROVE Types'
  <2>1. s \in Sqe /\ s.op = "send" BY <1>2 DEF Types
  <2>2. PICK res \in {"ok", "end"} : Post(Done(s, res)) BY <1>2 DEF SendDone
  <2>3. cq' \in Seq(Cqe) /\ Len(cq') <= MaxCqes BY <1>2, <2>1, <2>2, Completions, PostTypes
  <2>4. /\ sends' = sends \ {s}
        /\ UNCHANGED <<worker, sq, fds, conns, receiving, content, msgs, bufring, store>>
    BY <1>2 DEF SendDone
  <2> QED BY <1>2, <2>3, <2>4 DEF Types, TypeOK, worker, bufring, store
<1>3. ASSUME Types, NeighbourPops PROVE Types'
  <2>1. /\ outq \in Seq(Nat) /\ outq # << >> /\ replica \in Seq(Nat) /\ Len(outq) <= QueueCapacity
        /\ replica' \in {replica, Append(replica, Head(outq))} /\ outq' = Tail(outq)
    BY <1>3 DEF Types, TypeOK, NeighbourPops
  <2>2. Head(outq) \in Nat /\ outq' \in Seq(Nat) /\ Len(outq') = Len(outq) - 1 /\ Len(outq) \in Nat
    BY <2>1, TailElements
  <2>3. replica' \in Seq(Nat)
    <3>1. Append(replica, Head(outq)) \in Seq(Nat) BY <2>1, <2>2, AppendElements
    <3> QED BY <2>1, <3>1
  <2>4. Len(outq') <= QueueCapacity BY <2>1, <2>2, QueueAssumption
  <2>5. UNCHANGED <<worker, sq, cq, kernel, bufring, written>> BY <1>3 DEF NeighbourPops
  <2> QED BY <1>3, <2>2, <2>3, <2>4, <2>5 DEF Types, TypeOK, worker, kernel, bufring
<1> QED BY <1>1, <1>2, <1>3

\* Every step keeps the types.
LEMMA StepTypes == Types /\ [Next]_vars => Types'
<1> SUFFICES ASSUME Types, [Next]_vars PROVE Types'
  OBVIOUS
<1>1. CASE Worker
  BY <1>1, WorkerTypes, AcceptTypes, NoBufsTypes, CloseAfterTypes, DataTypes DEF Worker
<1>2. CASE Environment
  BY <1>2, TakeSqeTypes, ConnectTypes, RequestTypes, RestTypes DEF Environment
<1>3. CASE UNCHANGED vars
  BY <1>3 DEF vars, worker, kernel, bufring, store, history, Types, TypeOK
<1> QED BY <1>1, <1>2, <1>3 DEF Next

\* The types of every variable, entry and completion, for any sizes.
THEOREM ServerTypes == Spec => []Types
<1> QED BY InitTypes, StepTypes, PTL DEF Spec

\* Rings and queues stay within their sizes, descriptors lead to accepted
\* connections, and positions wrap around as the 16-bit tail does.
THEOREM RingsWithinBounds == Spec => []TypeOK
<1>1. Types => TypeOK BY DEF Types
<1> QED BY <1>1, ServerTypes, PTL

-----------------------------------------------------------------------------
(* Replication *)

Applied == replica \o outq

Missed == unsent \cup lost

Replication ==
  /\ ReplicaFollows
  /\ Missed \subseteq 1 .. written

\* Concatenation, element by element.
LEMMA ConcatElements ==
  ASSUME NEW r \in Seq(Nat), NEW q \in Seq(Nat)
  PROVE  /\ r \o q \in Seq(Nat) /\ Len(r \o q) = Len(r) + Len(q)
         /\ \A i \in 1 .. Len(r) + Len(q) :
              (r \o q)[i] = IF i <= Len(r) THEN r[i] ELSE q[i - Len(r)]
BY ConcatProperties

\* ReplicaFollows by positions.
LEMMA FollowsByPosition ==
  ASSUME Types
  PROVE  /\ Applied \in Seq(Nat)
         /\ ReplicaFollows <=>
              /\ \A x : (\E i \in DOMAIN Applied : Applied[i] = x) <=> x \in (1 .. written) \ Missed
              /\ \A i, j \in DOMAIN Applied : i < j => Applied[i] < Applied[j]
<1>1. Applied \in Seq(Nat) BY ConcatElements DEF Types, Applied
<1>2. \A x : x \in ToSet(Applied) <=> \E i \in DOMAIN Applied : Applied[i] = x BY <1>1, SeqSet
<1> QED BY <1>1, <1>2 DEF ReplicaFollows, Applied, Missed

\* The same after a step.
LEMMA FollowsByPositionNext ==
  ASSUME Types'
  PROVE  /\ Applied' \in Seq(Nat)
         /\ ReplicaFollows' <=>
              /\ \A x : (\E i \in DOMAIN Applied' : Applied'[i] = x) <=> x \in (1 .. written') \ Missed'
              /\ \A i, j \in DOMAIN Applied' : i < j => Applied'[i] < Applied'[j]
<1>1. Applied' \in Seq(Nat) BY ConcatElements DEF Types, Applied
<1>2. \A x : x \in ToSet(Applied') <=> \E i \in DOMAIN Applied' : Applied'[i] = x BY <1>1, SeqSet
<1> QED BY <1>1, <1>2 DEF ReplicaFollows, Applied, Missed

\* A write that is popped and put moves from the queue to the replica and keeps
\* its place.
LEMMA PopKeepsOrder ==
  Types /\ NeighbourPops /\ replica' = Append(replica, Head(outq)) => Applied' = Applied
<1> SUFFICES ASSUME Types, NeighbourPops, replica' = Append(replica, Head(outq))
             PROVE  Applied' = Applied
  OBVIOUS
<1>1. /\ outq \in Seq(Nat) /\ outq # << >> /\ replica \in Seq(Nat)
      /\ replica' = Append(replica, Head(outq)) /\ outq' = Tail(outq)
  BY DEF Types, NeighbourPops
<1>2. /\ Head(outq) \in Nat /\ outq' \in Seq(Nat) /\ Len(outq') = Len(outq) - 1
      /\ Len(outq) \in Nat \ {0} /\ Head(outq) = outq[1]
      /\ \A i \in 1 .. (Len(outq) - 1) : outq'[i] = outq[i + 1]
  BY <1>1, TailElements
<1>3. /\ replica' \in Seq(Nat) /\ Len(replica') = Len(replica) + 1 /\ Len(replica) \in Nat
      /\ \A i \in 1 .. Len(replica) : replica'[i] = replica[i]
      /\ replica'[Len(replica) + 1] = outq[1]
  BY <1>1, <1>2, AppendElements, LenProperties
<1>4. /\ Applied \in Seq(Nat) /\ Len(Applied) = Len(replica) + Len(outq)
      /\ \A i \in 1 .. Len(replica) + Len(outq) :
           Applied[i] = IF i <= Len(replica) THEN replica[i] ELSE outq[i - Len(replica)]
  <2>1. replica \in Seq(Nat) /\ outq \in Seq(Nat) BY <1>1
  <2> QED BY <2>1, ConcatElements DEF Applied
<1>5. /\ Applied' \in Seq(Nat) /\ Len(Applied') = Len(replica') + Len(outq')
      /\ \A i \in 1 .. Len(replica') + Len(outq') :
           Applied'[i] = IF i <= Len(replica') THEN replica'[i] ELSE outq'[i - Len(replica')]
  <2>1. replica' \in Seq(Nat) /\ outq' \in Seq(Nat) BY <1>2, <1>3
  <2> QED BY <2>1, ConcatElements DEF Applied
<1>6. Len(Applied') = Len(Applied) BY <1>2, <1>3, <1>4, <1>5
<1>7. ASSUME NEW i \in 1 .. Len(Applied) PROVE Applied'[i] = Applied[i]
  <2>0. /\ i \in Int /\ i >= 1 /\ i <= Len(replica) + Len(outq)
        /\ Len(replica') + Len(outq') = Len(replica) + Len(outq)
    BY <1>2, <1>3, <1>4
  <2>1. CASE i <= Len(replica)
    <3>1. Applied[i] = replica[i] /\ replica'[i] = replica[i] BY <1>3, <1>4, <2>0, <2>1
    <3>2. i <= Len(replica') BY <1>3, <2>0, <2>1
    <3> QED BY <1>5, <2>0, <3>1, <3>2
  <2>2. CASE i = Len(replica) + 1
    <3>0. i \in 1 .. Len(replica) + Len(outq) /\ ~(i <= Len(replica)) /\ i - Len(replica) = 1
      BY <1>2, <1>3, <2>0, <2>2
    <3>1. Applied[i] = outq[1] BY <1>4, <3>0
    <3>2. Applied'[i] = replica'[i] BY <1>3, <1>5, <2>0, <2>2
    <3> QED BY <1>3, <2>2, <3>1, <3>2
  <2>3. CASE i > Len(replica) + 1
    <3>1. Applied[i] = outq[i - Len(replica)] BY <1>3, <1>4, <2>0, <2>3
    <3>2. Applied'[i] = outq'[i - Len(replica) - 1] BY <1>3, <1>5, <2>0, <2>3
    <3>3. i - Len(replica) - 1 \in 1 .. (Len(outq) - 1) BY <1>2, <1>3, <2>0, <2>3
    <3>4. (i - Len(replica) - 1) + 1 = i - Len(replica) BY <1>3, <2>0
    <3> QED BY <1>2, <3>1, <3>2, <3>3, <3>4
  <2> QED BY <1>3, <2>0, <2>1, <2>2, <2>3
<1> QED BY <1>4, <1>5, <1>6, <1>7, SeqEqual

\* A write that is popped and not put leaves a gap, and the others keep their
\* order.
LEMMA PopLosesOne ==
  ASSUME Types, Types', Replication, NeighbourPops, lost' = lost \cup {Head(outq)},
         replica' = replica
  PROVE  Replication'
<1> DEFINE n == Len(replica) + 1
<1>1. /\ outq \in Seq(Nat) /\ outq # << >> /\ replica \in Seq(Nat) /\ outq' = Tail(outq)
      /\ written' = written /\ written \in Nat
      /\ Missed' = Missed \cup {Head(outq)} /\ Missed \subseteq 1 .. written
  BY DEF Types, NeighbourPops, Replication, Missed
<1>2. /\ outq' \in Seq(Nat) /\ Len(outq') = Len(outq) - 1
      /\ Len(outq) \in Nat \ {0} /\ Head(outq) = outq[1]
      /\ \A i \in 1 .. (Len(outq) - 1) : outq'[i] = outq[i + 1]
  BY <1>1, TailElements
<1>3. Len(replica) \in Nat BY <1>1, LenProperties
<1>4. /\ Applied \in Seq(Nat) /\ Len(Applied) = Len(replica) + Len(outq)
      /\ \A i \in 1 .. Len(replica) + Len(outq) :
           Applied[i] = IF i <= Len(replica) THEN replica[i] ELSE outq[i - Len(replica)]
  <2>1. replica \in Seq(Nat) /\ outq \in Seq(Nat) BY <1>1
  <2> QED BY <2>1, ConcatElements DEF Applied
<1>5. /\ Applied' \in Seq(Nat) /\ Len(Applied') = Len(replica) + Len(outq')
      /\ \A i \in 1 .. Len(replica) + Len(outq') :
           Applied'[i] = IF i <= Len(replica) THEN replica[i] ELSE outq'[i - Len(replica)]
  <2>1. replica' = replica /\ replica \in Seq(Nat) /\ outq' \in Seq(Nat) BY <1>1, <1>2
  <2> QED BY <2>1, ConcatElements DEF Applied
<1>6. /\ DOMAIN Applied = 1 .. Len(Applied) /\ DOMAIN Applied' = 1 .. Len(Applied')
      /\ Len(Applied) \in Nat /\ Len(Applied') = Len(Applied) - 1
      /\ n \in DOMAIN Applied /\ Applied[n] = Head(outq)
  <2>1. DOMAIN Applied = 1 .. Len(Applied) /\ DOMAIN Applied' = 1 .. Len(Applied')
    BY <1>4, <1>5, LenProperties
  <2>2. n \in 1 .. Len(replica) + Len(outq) /\ ~(n <= Len(replica)) /\ n - Len(replica) = 1
    BY <1>2, <1>3
  <2>3. Applied[n] = outq[1] BY <1>4, <2>2
  <2> QED BY <1>2, <1>3, <1>4, <1>5, <2>1, <2>2, <2>3
<1>7. ASSUME NEW i \in DOMAIN Applied'
      PROVE  /\ i \in DOMAIN Applied /\ i + 1 \in DOMAIN Applied
             /\ Applied'[i] = IF i < n THEN Applied[i] ELSE Applied[i + 1]
  <2>0. i \in Int /\ i >= 1 /\ i <= Len(replica) + Len(outq) - 1
    BY <1>2, <1>3, <1>4, <1>6
  <2>1. CASE i < n
    <3>0. /\ i <= Len(replica) /\ i \in 1 .. Len(replica) + Len(outq)
          /\ i + 1 \in 1 .. Len(replica) + Len(outq) /\ i \in 1 .. Len(replica) + Len(outq')
      BY <1>2, <1>3, <2>0, <2>1
    <3>1. Applied[i] = replica[i] BY <1>4, <3>0
    <3>2. Applied'[i] = replica[i] BY <1>5, <3>0
    <3> QED BY <1>4, <1>6, <2>1, <3>0, <3>1, <3>2
  <2>2. CASE ~(i < n)
    <3>1. i + 1 \in 1 .. Len(replica) + Len(outq) /\ ~(i + 1 <= Len(replica))
      BY <1>2, <1>3, <2>0, <2>2
    <3>2. Applied[i + 1] = outq[(i + 1) - Len(replica)] BY <1>4, <3>1
    <3>3. i \in 1 .. Len(replica) + Len(outq') /\ ~(i <= Len(replica))
      BY <1>2, <1>3, <2>0, <2>2
    <3>4. Applied'[i] = outq'[i - Len(replica)] BY <1>5, <3>3
    <3>5. i - Len(replica) \in 1 .. (Len(outq) - 1) /\ (i - Len(replica)) + 1 = (i + 1) - Len(replica)
      BY <1>2, <1>3, <2>0, <2>2
    <3>6. outq'[i - Len(replica)] = outq[(i + 1) - Len(replica)] BY <1>2, <3>5
    <3> QED BY <1>4, <1>6, <2>0, <2>2, <3>1, <3>2, <3>4, <3>6
  <2> QED BY <2>1, <2>2
<1>8. /\ \A x : (\E i \in DOMAIN Applied : Applied[i] = x) <=> x \in (1 .. written) \ Missed
      /\ \A i, j \in DOMAIN Applied : i < j => Applied[i] < Applied[j]
      /\ \A i \in DOMAIN Applied : Applied[i] \in Nat
  BY <1>4, FollowsByPosition, SeqSet DEF Replication
<1>9. ASSUME NEW i \in DOMAIN Applied', NEW j \in DOMAIN Applied', i < j
      PROVE  Applied'[i] < Applied'[j]
  <2> DEFINE a == IF i < n THEN i ELSE i + 1
             b == IF j < n THEN j ELSE j + 1
  <2>1. a \in DOMAIN Applied /\ b \in DOMAIN Applied /\ Applied'[i] = Applied[a] /\ Applied'[j] = Applied[b]
    BY <1>7
  <2>2. a < b BY <1>3, <1>6, <1>9
  <2> QED BY <1>8, <2>1, <2>2
<1>10. ASSUME NEW x
       PROVE  (\E i \in DOMAIN Applied' : Applied'[i] = x) <=> x \in (1 .. written') \ Missed'
  <2>1. ASSUME NEW i \in DOMAIN Applied', Applied'[i] = x
        PROVE  x \in (1 .. written') \ Missed'
    <3> DEFINE a == IF i < n THEN i ELSE i + 1
    <3>1. a \in DOMAIN Applied /\ x = Applied[a] /\ (a < n \/ n < a)
      BY <1>3, <1>6, <1>7, <2>1
    <3>2. x # Applied[n] /\ x \in (1 .. written) \ Missed BY <1>6, <1>8, <3>1
    <3> QED BY <1>1, <1>6, <3>2
  <2>2. ASSUME x \in (1 .. written') \ Missed'
        PROVE  \E i \in DOMAIN Applied' : Applied'[i] = x
    <3>1. x \in (1 .. written) \ Missed /\ x # Applied[n] BY <1>1, <1>6, <2>2
    <3>2. PICK a \in DOMAIN Applied : Applied[a] = x BY <1>8, <3>1
    <3>3. CASE a < n
      <4>1. a \in DOMAIN Applied' BY <1>2, <1>3, <1>4, <1>6, <3>3
      <4> QED BY <1>7, <3>2, <3>3, <4>1
    <3>4. CASE a > n
      <4>1. a - 1 \in DOMAIN Applied' /\ ~(a - 1 < n) /\ (a - 1) + 1 = a
        BY <1>3, <1>6, <3>4
      <4>2. Applied'[a - 1] = Applied[a] BY <1>7, <4>1
      <4> QED BY <3>2, <4>1, <4>2
    <3> QED BY <1>3, <1>6, <3>1, <3>2, <3>3, <3>4
  <2> QED BY <2>1, <2>2
<1>11. ReplicaFollows' BY <1>9, <1>10, FollowsByPositionNext
<1>12. Head(outq) \in 1 .. written BY <1>6, <1>8
<1> QED BY <1>1, <1>11, <1>12 DEF Replication

\* A write that is pushed goes to the end.
LEMMA PushGoesLast ==
  ASSUME NEW r \in Seq(Nat), NEW q \in Seq(Nat), NEW w \in Nat
  PROVE  r \o Append(q, w) = Append(r \o q, w)
<1>1. <<w>> \in Seq(Nat) /\ r \o q \in Seq(Nat) BY ConcatProperties
<1>2. Append(q, w) = q \o <<w>> /\ Append(r \o q, w) = (r \o q) \o <<w>> BY <1>1, AppendIsConcat
<1> QED BY <1>1, <1>2, ConcatAssociative

\* A client write keeps the replication invariant.
LEMMA PutReplicates ==
  ASSUME Types, Types', Replication, Put
  PROVE  Replication'
<1>1. /\ written \in Nat /\ written' = written + 1 /\ written' \in Nat /\ replica' = replica
      /\ replica \in Seq(Nat) /\ outq \in Seq(Nat) /\ Missed \subseteq 1 .. written
  BY DEF Types, Put, Replication
<1>2. /\ Applied \in Seq(Nat) /\ DOMAIN Applied = 1 .. Len(Applied) /\ Len(Applied) \in Nat
      /\ \A x : (\E i \in DOMAIN Applied : Applied[i] = x) <=> x \in (1 .. written) \ Missed
      /\ \A i, j \in DOMAIN Applied : i < j => Applied[i] < Applied[j]
      /\ \A i \in DOMAIN Applied : Applied[i] \in Nat
  BY FollowsByPosition, SeqSet DEF Replication
<1>3. \A i \in DOMAIN Applied : Applied[i] <= written BY <1>1, <1>2
<1>4. CASE Len(outq) < QueueCapacity
  <2>1. outq' = Append(outq, written + 1) /\ Missed' = Missed BY <1>1, <1>4 DEF Put, Missed
  <2>2. Applied' = Append(Applied, written + 1) BY <1>1, <2>1, PushGoesLast DEF Applied
  <2>3. /\ DOMAIN Applied' = 1 .. (Len(Applied) + 1)
        /\ \A i \in 1 .. Len(Applied) : Applied'[i] = Applied[i]
        /\ Applied'[Len(Applied) + 1] = written + 1
    BY <1>1, <1>2, <2>2, AppendElements
  <2>4. \A i, j \in DOMAIN Applied' : i < j => Applied'[i] < Applied'[j]
    <3> SUFFICES ASSUME NEW i \in DOMAIN Applied', NEW j \in DOMAIN Applied', i < j
                 PROVE  Applied'[i] < Applied'[j]
      OBVIOUS
    <3>1. i \in DOMAIN Applied /\ Applied'[i] = Applied[i] BY <1>2, <2>3
    <3>2. CASE j \in DOMAIN Applied
      <4>1. Applied'[j] = Applied[j] BY <1>2, <2>3, <3>2
      <4> QED BY <1>2, <3>1, <3>2, <4>1
    <3>3. CASE j \notin DOMAIN Applied
      <4>1. Applied'[j] = written + 1 BY <1>2, <2>3, <3>3
      <4> QED BY <1>1, <1>2, <1>3, <3>1, <4>1
    <3> QED BY <3>2, <3>3
  <2>5. ASSUME NEW x PROVE (\E i \in DOMAIN Applied' : Applied'[i] = x) <=> x \in (1 .. written') \ Missed'
    <3>1. (\E i \in DOMAIN Applied' : Applied'[i] = x)
            <=> (\E i \in DOMAIN Applied : Applied[i] = x) \/ x = written + 1
      <4>1. DOMAIN Applied' = DOMAIN Applied \cup {Len(Applied) + 1} BY <1>2, <2>3
      <4> QED BY <1>2, <2>3, <4>1
    <3>2. x \in (1 .. written') \ Missed' <=> x \in (1 .. written) \ Missed \/ x = written + 1
      <4>1. 1 .. written' = (1 .. written) \cup {written + 1} /\ written + 1 \notin 1 .. written BY <1>1
      <4> QED BY <1>1, <2>1, <4>1
    <3> QED BY <1>2, <3>1, <3>2
  <2>6. ReplicaFollows' BY <2>4, <2>5, FollowsByPositionNext
  <2>7. Missed' \subseteq 1 .. written' BY <1>1, <2>1
  <2> QED BY <2>6, <2>7 DEF Replication
<1>5. CASE ~(Len(outq) < QueueCapacity)
  <2>1. outq' = outq /\ Missed' = Missed \cup {written + 1} BY <1>1, <1>5 DEF Put, Missed
  <2>2. Applied' = Applied BY <1>1, <2>1 DEF Applied
  <2>3. /\ (1 .. written') \ Missed' = (1 .. written) \ Missed
        /\ Missed' \subseteq 1 .. written'
    <3>1. 1 .. written' = (1 .. written) \cup {written + 1} /\ written + 1 \notin 1 .. written BY <1>1
    <3> QED BY <1>1, <2>1, <3>1
  <2>4. ReplicaFollows' BY <1>2, <2>2, <2>3, FollowsByPositionNext
  <2> QED BY <2>3, <2>4 DEF Replication
<1> QED BY <1>4, <1>5

\* Every step keeps the replication invariant.
LEMMA StepReplicates == Types /\ Types' /\ Replication /\ [Next]_vars => Replication'
<1> SUFFICES ASSUME Types, Types', Replication, [Next]_vars PROVE Replication'
  OBVIOUS
<1>1. UNCHANGED store => Replication'
  BY DEF store, Replication, ReplicaFollows, Missed
<1>2. NeighbourPops => Replication'
  <2> SUFFICES ASSUME NeighbourPops PROVE Replication'
    OBVIOUS
  <2>1. CASE replica' = Append(replica, Head(outq)) /\ lost' = lost
    <3>1. Applied' = Applied /\ written' = written /\ Missed' = Missed
      BY <2>1, PopKeepsOrder DEF NeighbourPops, Missed
    <3>2. ReplicaFollows' BY <3>1, FollowsByPosition, FollowsByPositionNext DEF Replication
    <3> QED BY <3>1, <3>2 DEF Replication
  <2>2. CASE lost' = lost \cup {Head(outq)} /\ replica' = replica
    BY <2>2, PopLosesOne
  <2> QED BY <2>1, <2>2 DEF NeighbourPops
<1>3. HandleRecvData => Replication'
  <2>1. HandleRecvData => Put \/ UNCHANGED store BY DEF HandleRecvData, Reply, store
  <2> QED BY <1>1, <2>1, PutReplicates
<1>4. CASE Worker
  <2>1. HandleRecvData \/ UNCHANGED store
    BY <1>4 DEF Worker, EnterReturns, EnterFails, HandleAccept, HandleNoBufs, HandleRecvEnd,
                HandleSend, HandleClose, CqesDone, Flush
  <2> QED BY <1>1, <1>3, <2>1
<1>5. CASE Environment
  <2>1. NeighbourPops \/ UNCHANGED store
    BY <1>5 DEF Environment, TakeSqe, Connect, ConnectFails, Request, NoBufs, Disconnect, SendDone
  <2> QED BY <1>1, <1>2, <2>1
<1>6. CASE UNCHANGED vars BY <1>1, <1>6 DEF vars, store
<1> QED BY <1>4, <1>5, <1>6 DEF Next

\* The replica follows the writes of this core, for any queue size: it applies
\* them in order and misses exactly those whose push met a full queue or whose
\* put failed there.
THEOREM ReplicaInOrder == Spec => []ReplicaFollows
<1>1. Init /\ Types => Replication
  <2> SUFFICES ASSUME Init, Types PROVE Replication
    OBVIOUS
  <2>1. replica = << >> /\ outq = << >> /\ written = 0 /\ Missed = {} BY DEF Init, Missed
  <2>2. Applied = << >> BY <2>1, ConcatEmptySeq DEF Applied, Types
  <2>3. DOMAIN Applied = {} BY <2>2
  <2>4. ReplicaFollows BY <2>1, <2>3, FollowsByPosition
  <2> QED BY <2>1, <2>4 DEF Replication
<1>2. Replication => ReplicaFollows BY DEF Replication
<1> QED BY <1>1, <1>2, StepReplicates, ServerTypes, PTL DEF Spec

-----------------------------------------------------------------------------
(* Connections are served *)

\* What is in a sequence after an element is appended, put or taken.
LEMMA AppendSet ==
  ASSUME NEW S, NEW s \in Seq(S), NEW e \in S
  PROVE  ToSet(Append(s, e)) = ToSet(s) \cup {e}
<1>1. /\ Append(s, e) \in Seq(S) /\ Len(s) \in Nat /\ DOMAIN s = 1 .. Len(s)
      /\ DOMAIN Append(s, e) = 1 .. (Len(s) + 1)
      /\ \A i \in 1 .. Len(s) : Append(s, e)[i] = s[i]
      /\ Append(s, e)[Len(s) + 1] = e
  BY AppendElements, LenProperties
<1>2. DOMAIN Append(s, e) = DOMAIN s \cup {Len(s) + 1} BY <1>1
<1>3. \A x : (\E i \in DOMAIN Append(s, e) : Append(s, e)[i] = x)
               <=> (\E i \in DOMAIN s : s[i] = x) \/ x = e
  BY <1>1, <1>2
<1> QED BY <1>1, <1>3, SeqSet

LEMMA TailSet ==
  ASSUME NEW S, NEW s \in Seq(S), s # << >>
  PROVE  ToSet(s) = ToSet(Tail(s)) \cup {Head(s)} /\ ToSet(s) \subseteq S
<1>1. /\ Tail(s) \in Seq(S) /\ Len(s) \in Nat \ {0}
      /\ DOMAIN s = 1 .. Len(s) /\ DOMAIN Tail(s) = 1 .. (Len(s) - 1)
      /\ \A i \in 1 .. (Len(s) - 1) : i + 1 \in 1 .. Len(s) /\ Tail(s)[i] = s[i + 1]
      /\ Head(s) = s[1]
  BY TailElements
<1>2. ASSUME NEW x PROVE (\E i \in DOMAIN s : s[i] = x)
                           <=> (\E i \in DOMAIN Tail(s) : Tail(s)[i] = x) \/ x = Head(s)
  <2>1. ASSUME NEW i \in DOMAIN s, s[i] = x
        PROVE  (\E j \in DOMAIN Tail(s) : Tail(s)[j] = x) \/ x = Head(s)
    <3>1. CASE i = 1 BY <1>1, <2>1, <3>1
    <3>2. CASE i # 1
      <4>1. i - 1 \in 1 .. (Len(s) - 1) /\ (i - 1) + 1 = i BY <1>1, <3>2
      <4>2. Tail(s)[i - 1] = x BY <1>1, <2>1, <4>1
      <4> QED BY <1>1, <4>1, <4>2
    <3> QED BY <3>1, <3>2
  <2>2. ASSUME NEW i \in DOMAIN Tail(s), Tail(s)[i] = x PROVE \E j \in DOMAIN s : s[j] = x
    BY <1>1, <2>2
  <2>3. x = Head(s) => \E j \in DOMAIN s : s[j] = x BY <1>1
  <2> QED BY <2>1, <2>2, <2>3
<1>3. /\ \A x : x \in ToSet(s) <=> \E i \in DOMAIN s : s[i] = x
      /\ \A i \in DOMAIN s : s[i] \in S
  BY SeqSet
<1>4. \A x : x \in ToSet(Tail(s)) <=> \E i \in DOMAIN Tail(s) : Tail(s)[i] = x BY <1>1, SeqSet
<1>5. \A x : x \in ToSet(s) <=> x \in ToSet(Tail(s)) \/ x = Head(s) BY <1>2, <1>3, <1>4
<1>6. ToSet(s) = ToSet(Tail(s)) \cup {Head(s)} BY <1>5
<1>7. ToSet(s) \subseteq S BY <1>3
<1> QED BY <1>6, <1>7

LEMMA PutSet ==
  ASSUME NEW s \in Seq(Sqe), NEW e \in Sqe
  PROVE  ToSet(PutSqe(s, e)) = IF Len(s) < SqEntries THEN ToSet(s) \cup {e} ELSE ToSet(s)
<1>1. ToSet(Append(s, e)) = ToSet(s) \cup {e} BY AppendSet
<1> QED BY <1>1 DEF PutSqe

\* The entries and completions of a sequence have their types.
LEMMA SetTypes == Types => ToSet(sq) \subseteq Sqe /\ ToSet(cq) \subseteq Cqe
  BY SeqSet DEF Types

\* A completion on which the worker renews a receive or closes.
Renews(e) ==
  \/ e.op = "accept"
  \/ e.op = "recv" /\ (e.res # "data" \/ ~e.more)
  \/ e.op = "send" /\ e.res # "ok"

\* Somebody will see to descriptor f on behalf of the connection behind it.
OwnDue(f) ==
  \/ fds[f] \in dropped
  \/ \E e \in receiving : e.fd = f /\ e.conn = fds[f]
  \/ \E e \in ToSet(sq) : e.op \in {"recv", "close"} /\ e.fd = f /\ e.conn = fds[f]
  \/ \E e \in ToSet(cq) : Renews(e) /\ e.fd = f /\ e.conn = fds[f]

Listening ==
  \/ accepting \/ Accept \in ToSet(sq) \/ deaf
  \/ \E e \in ToSet(cq) : e.op = "accept" /\ ~e.more

Served == Listening /\ \A f \in Fds : fds[f] # NoConn => OwnDue(f)

\* What the worker does about the completion it takes is enough for the
\* descriptor: whoever else saw to it still does.
LEMMA HandledServed ==
  ASSUME Types, Served, NEW o, Take(o), NEW f \in Fds, fds'[f] # NoConn,
         fds'[f] = fds[f], receiving' = receiving,
         dropped \subseteq dropped', ToSet(sq) \subseteq ToSet(sq'),
         Renews(Head(cq)) /\ Head(cq).fd = f /\ Head(cq).conn = fds[f] => OwnDue(f)'
  PROVE  OwnDue(f)'
<1>1. cq \in Seq(Cqe) /\ cq # << >> /\ cq' = Tail(cq) BY DEF Types, Take
<1>2. ToSet(cq) = ToSet(cq') \cup {Head(cq)} BY <1>1, TailSet
<1>3. OwnDue(f) BY DEF Served
<1>4. CASE fds[f] \in dropped BY <1>4 DEF OwnDue
<1>5. CASE \E e \in receiving : e.fd = f /\ e.conn = fds[f] BY <1>5 DEF OwnDue
<1>6. CASE \E e \in ToSet(sq) : e.op \in {"recv", "close"} /\ e.fd = f /\ e.conn = fds[f]
  BY <1>6 DEF OwnDue
<1>7. CASE \E e \in ToSet(cq) : Renews(e) /\ e.fd = f /\ e.conn = fds[f]
  <2>1. PICK e \in ToSet(cq) : Renews(e) /\ e.fd = f /\ e.conn = fds[f] BY <1>7
  <2>2. CASE e = Head(cq) BY <2>1, <2>2
  <2>3. CASE e \in ToSet(cq')
    <3>1. e.fd = f /\ e.conn = fds'[f] /\ Renews(e) BY <2>1
    <3> QED BY <2>3, <3>1 DEF OwnDue, Renews
  <2> QED BY <1>2, <2>1, <2>2, <2>3
<1> QED BY <1>3, <1>4, <1>5, <1>6, <1>7 DEF OwnDue

\* Nor is the listener forgotten when another completion is handled.
LEMMA HandledListening ==
  ASSUME Types, Served, NEW o, Take(o), o # "accept",
         accepting' = accepting, deaf' = deaf, ToSet(sq) \subseteq ToSet(sq')
  PROVE  Listening'
<1>1. cq \in Seq(Cqe) /\ cq # << >> /\ cq' = Tail(cq) /\ Head(cq).op = o BY DEF Types, Take
<1>2. ToSet(cq) = ToSet(cq') \cup {Head(cq)} BY <1>1, TailSet
<1> QED BY <1>1, <1>2 DEF Served, Listening

\* Handling an accept.
LEMMA AcceptServed == Types /\ Served /\ HandleAccept => Served'
<1> SUFFICES ASSUME Types, Served, HandleAccept PROVE Served'
  OBVIOUS
<1> DEFINE cqe == Head(cq)
           s == IF cqe.fd # NoFd THEN PutSqe(sq, Recv(cqe.fd, cqe.conn)) ELSE sq
<1>0. Take("accept") BY DEF HandleAccept
<1>1. cqe \in Cqe /\ cqe.op = "accept" BY <1>0, TakeTypes
<1>2. cqe.fd # NoFd => cqe.fd \in Fds /\ cqe.conn \in Conns BY <1>1, CqeFields
<1>3. sq \in Seq(Sqe) /\ Len(sq) <= SqEntries BY DEF Types, TypeOK
<1>4. s \in Seq(Sqe) /\ Len(s) <= SqEntries BY <1>2, <1>3, Entries, PutTypes
<1>5. ToSet(s) = IF cqe.fd # NoFd /\ Room THEN ToSet(sq) \cup {Recv(cqe.fd, cqe.conn)} ELSE ToSet(sq)
  BY <1>2, <1>3, Entries, PutSet DEF Room
<1>6. sq' = IF cqe.more THEN s ELSE PutSqe(s, Accept) BY DEF HandleAccept
<1>7. ToSet(sq') = IF ~cqe.more /\ Len(s) < SqEntries THEN ToSet(s) \cup {Accept} ELSE ToSet(s)
  BY <1>4, <1>6, Entries, PutSet
<1>8. /\ fds' = IF cqe.fd # NoFd /\ ~Room THEN [fds EXCEPT ![cqe.fd] = NoConn] ELSE fds
      /\ deaf' = (deaf \/ (~cqe.more /\ Len(s) = SqEntries))
      /\ UNCHANGED <<receiving, dropped, accepting>>
  BY DEF HandleAccept
<1>9. ToSet(sq) \subseteq ToSet(sq') BY <1>5, <1>7
<1>10. Listening'
  <2>1. cq \in Seq(Cqe) /\ cq # << >> /\ cq' = Tail(cq) BY <1>0 DEF Types, Take
  <2>2. ToSet(cq) = ToSet(cq') \cup {cqe} BY <2>1, TailSet
  <2>3. ~cqe.more => Accept \in ToSet(sq') \/ deaf'
    <3>1. Len(s) \in Nat BY <1>4, LenProperties
    <3>2. Len(s) < SqEntries \/ Len(s) = SqEntries BY <1>4, <3>1, SqAssumption
    <3>3. Len(s) < SqEntries /\ ~cqe.more => Accept \in ToSet(sq') BY <1>7
    <3>4. Len(s) = SqEntries /\ ~cqe.more => deaf' BY <1>8
    <3> QED BY <3>2, <3>3, <3>4
  <2> QED BY <1>8, <1>9, <2>2, <2>3 DEF Served, Listening
<1>11. ASSUME NEW f \in Fds, fds'[f] # NoConn PROVE OwnDue(f)'
  <2>1. fds \in [Fds -> Conns \cup {NoConn}] BY DEF Types, TypeOK
  <2>2. fds'[f] = fds[f] /\ (cqe.fd = f => Room) BY <1>8, <1>11, <2>1, FdsAssumption DEF NoFd
  <2>3. cqe.fd = f /\ cqe.conn = fds[f] => OwnDue(f)'
    <3> SUFFICES ASSUME cqe.fd = f, cqe.conn = fds[f] PROVE OwnDue(f)'
      OBVIOUS
    <3>1. cqe.fd # NoFd BY FdsAssumption DEF NoFd
    <3>2. Recv(cqe.fd, cqe.conn) \in ToSet(sq') BY <1>5, <1>7, <2>2, <3>1
    <3>3. /\ Recv(cqe.fd, cqe.conn).op = "recv" /\ Recv(cqe.fd, cqe.conn).fd = f
          /\ Recv(cqe.fd, cqe.conn).conn = fds'[f]
      BY <2>2 DEF Recv
    <3> QED BY <3>2, <3>3 DEF OwnDue
  <2> QED BY <1>0, <1>8, <1>9, <1>11, <2>2, <2>3, HandledServed
<1> QED BY <1>10, <1>11 DEF Served

\* Handling a receive that found no buffer.
LEMMA NoBufsServed == Types /\ Served /\ HandleNoBufs => Served'
<1> SUFFICES ASSUME Types, Served, HandleNoBufs PROVE Served'
  OBVIOUS
<1> DEFINE cqe == Head(cq)
<1>0. Take("recv") BY DEF HandleNoBufs
<1>1. cqe \in Cqe /\ cqe.op = "recv" BY <1>0, TakeTypes
<1>2. cqe.fd \in Fds /\ cqe.conn \in Conns BY <1>1, CqeFields
<1>3. sq \in Seq(Sqe) BY DEF Types
<1>4. /\ sq' = PutSqe(sq, Recv(cqe.fd, cqe.conn))
      /\ dropped' = IF Room THEN dropped ELSE dropped \cup {cqe.conn}
      /\ UNCHANGED <<receiving, fds, accepting, deaf>>
  BY DEF HandleNoBufs, kernel
<1>5. ToSet(sq') = IF Room THEN ToSet(sq) \cup {Recv(cqe.fd, cqe.conn)} ELSE ToSet(sq)
  BY <1>2, <1>3, <1>4, Entries, PutSet DEF Room
<1>6. Listening' BY <1>0, <1>4, <1>5, HandledListening
<1>7. ASSUME NEW f \in Fds, fds'[f] # NoConn PROVE OwnDue(f)'
  <2>1. cqe.fd = f /\ cqe.conn = fds[f] => OwnDue(f)'
    <3> SUFFICES ASSUME cqe.fd = f, cqe.conn = fds[f] PROVE OwnDue(f)'
      OBVIOUS
    <3>1. CASE Room
      <4>1. Recv(cqe.fd, cqe.conn) \in ToSet(sq') BY <1>5, <3>1
      <4>2. /\ Recv(cqe.fd, cqe.conn).op = "recv" /\ Recv(cqe.fd, cqe.conn).fd = f
            /\ Recv(cqe.fd, cqe.conn).conn = fds'[f]
        BY <1>4 DEF Recv
      <4> QED BY <4>1, <4>2 DEF OwnDue
    <3>2. CASE ~Room
      <4>1. fds'[f] \in dropped' BY <1>4, <3>2
      <4> QED BY <4>1 DEF OwnDue
    <3> QED BY <3>1, <3>2
  <2>2. dropped \subseteq dropped' /\ ToSet(sq) \subseteq ToSet(sq') BY <1>4, <1>5
  <2> QED BY <1>0, <1>4, <1>7, <2>1, <2>2, HandledServed
<1> QED BY <1>6, <1>7 DEF Served

\* Handling a completion that has the descriptor closed, or not.
LEMMA ClosesServed == Types /\ Served /\ (HandleRecvEnd \/ HandleSend) => Served'
<1> SUFFICES ASSUME Types, Served, HandleRecvEnd \/ HandleSend PROVE Served'
  OBVIOUS
<1> DEFINE cqe == Head(cq)
<1>0. PICK o \in {"recv", "send"} : Take(o) BY DEF HandleRecvEnd, HandleSend
<1>1. cqe \in Cqe /\ cqe.op = o BY <1>0, TakeTypes
<1>2. cqe.fd \in Fds /\ cqe.conn \in Conns BY <1>1, CqeFields
<1>3. sq \in Seq(Sqe) /\ fds \in [Fds -> Conns \cup {NoConn}] BY DEF Types, TypeOK
<1>4. UNCHANGED <<receiving, dropped, accepting, deaf>> BY DEF HandleRecvEnd, HandleSend
<1>5. \/ UNCHANGED <<sq, fds>> /\ ~Renews(cqe)
      \/ CloseFd(cqe.fd, cqe.conn)
  BY <1>1 DEF HandleRecvEnd, HandleSend, Renews, Take
<1>6. CASE UNCHANGED <<sq, fds>> /\ ~Renews(cqe)
  <2>1. Listening' BY <1>0, <1>4, <1>6, HandledListening
  <2>2. ASSUME NEW f \in Fds, fds'[f] # NoConn PROVE OwnDue(f)'
    BY <1>0, <1>4, <1>6, <2>2, HandledServed
  <2> QED BY <2>1, <2>2 DEF Served
<1>7. CASE CloseFd(cqe.fd, cqe.conn) /\ Room
  <2>1. sq' = Append(sq, Close(cqe.fd, cqe.conn)) /\ fds' = fds BY <1>7 DEF CloseFd
  <2>2. ToSet(sq') = ToSet(sq) \cup {Close(cqe.fd, cqe.conn)} BY <1>2, <1>3, <2>1, Entries, AppendSet
  <2>3. Listening' BY <1>0, <1>4, <2>2, HandledListening
  <2>4. ASSUME NEW f \in Fds, fds'[f] # NoConn PROVE OwnDue(f)'
    <3>1. cqe.fd = f /\ cqe.conn = fds[f] => OwnDue(f)'
      <4> SUFFICES ASSUME cqe.fd = f, cqe.conn = fds[f] PROVE OwnDue(f)'
        OBVIOUS
      <4>1. /\ Close(cqe.fd, cqe.conn).op = "close" /\ Close(cqe.fd, cqe.conn).fd = f
            /\ Close(cqe.fd, cqe.conn).conn = fds'[f]
        BY <2>1 DEF Close
      <4> QED BY <2>2, <4>1 DEF OwnDue
    <3>2. ToSet(sq) \subseteq ToSet(sq') BY <2>2
    <3> QED BY <1>0, <1>4, <2>1, <2>4, <3>1, <3>2, HandledServed
  <2> QED BY <2>3, <2>4 DEF Served
<1>8. CASE CloseFd(cqe.fd, cqe.conn) /\ ~Room
  <2>1. sq' = sq /\ fds' = [fds EXCEPT ![cqe.fd] = NoConn] BY <1>8 DEF CloseFd
  <2>2. Listening' BY <1>0, <1>4, <2>1, HandledListening
  <2>3. ASSUME NEW f \in Fds, fds'[f] # NoConn PROVE OwnDue(f)'
    <3>1. f # cqe.fd /\ fds'[f] = fds[f] BY <1>3, <2>1, <2>3
    <3> QED BY <1>0, <1>4, <2>1, <2>3, <3>1, HandledServed
  <2> QED BY <2>2, <2>3 DEF Served
<1> QED BY <1>5, <1>6, <1>7, <1>8

\* Handling a request.
LEMMA DataServed == Types /\ Served /\ HandleRecvData => Served'
<1> SUFFICES ASSUME Types, Served, HandleRecvData PROVE Served'
  OBVIOUS
<1> DEFINE cqe == Head(cq)
<1>0. Take("recv") BY DEF HandleRecvData
<1>1. cqe \in Cqe /\ cqe.op = "recv" /\ cqe.res = "data" BY <1>0, TakeTypes DEF HandleRecvData
<1>2. cqe.fd \in Fds /\ cqe.conn \in Conns /\ cqe.bid \in Bufs /\ cqe.more \in BOOLEAN BY <1>1, CqeFields
<1>3. sq \in Seq(Sqe) /\ content \in [Bufs -> Message] BY DEF Types, TypeOK
<1>4. /\ dropped' = IF cqe.more THEN dropped ELSE dropped \cup {cqe.conn}
      /\ UNCHANGED <<receiving, fds, accepting, deaf>>
  BY DEF HandleRecvData
<1>5. ToSet(sq) \subseteq ToSet(sq')
  <2>1. ASSUME NEW d \in Message, Reply(cqe, d) PROVE ToSet(sq) \subseteq ToSet(sq')
    <3>1. Send(cqe.fd, cqe.conn, cqe.bid, d, NextPosition) \in Sqe BY <1>2, Entries, PositionInt
    <3> QED BY <1>3, <2>1, <3>1, PutSet DEF Reply
  <2>2. content[cqe.bid] \in Message /\ ReplyTo(content[cqe.bid]) \in Message
    BY <1>2, <1>3, ServerBounds DEF Message, ReplyTo
  <2>3. \/ sq' = sq \/ Reply(cqe, content[cqe.bid]) \/ Reply(cqe, ReplyTo(content[cqe.bid]))
    BY DEF HandleRecvData, Put
  <2> QED BY <2>1, <2>2, <2>3
<1>6. Listening' BY <1>0, <1>4, <1>5, HandledListening
<1>7. ASSUME NEW f \in Fds, fds'[f] # NoConn PROVE OwnDue(f)'
  <2>1. Renews(cqe) /\ cqe.fd = f /\ cqe.conn = fds[f] => OwnDue(f)'
    <3> SUFFICES ASSUME Renews(cqe), cqe.conn = fds[f] PROVE OwnDue(f)'
      OBVIOUS
    <3>1. ~cqe.more BY <1>1 DEF Renews
    <3>2. fds'[f] \in dropped' BY <1>4, <3>1
    <3> QED BY <3>2 DEF OwnDue
  <2>2. dropped \subseteq dropped' BY <1>4
  <2> QED BY <1>0, <1>4, <1>5, <1>7, <2>1, <2>2, HandledServed
<1> QED BY <1>6, <1>7 DEF Served

\* A step of the kernel that only adds completions, sends or nothing at all
\* forgets nobody.
LEMMA AddsServed ==
  ASSUME Types, Served, NEW f \in Fds, fds'[f] # NoConn,
         fds'[f] = fds[f], dropped' = dropped,
         ToSet(cq) \subseteq ToSet(cq'),
         \A e \in receiving : e.fd = f /\ e.conn = fds[f] => e \in receiving' \/ OwnDue(f)',
         \A e \in ToSet(sq) : e.op \in {"recv", "close"} /\ e.fd = f /\ e.conn = fds[f] =>
           e \in ToSet(sq') \/ OwnDue(f)'
  PROVE  OwnDue(f)'
<1>3. OwnDue(f) BY DEF Served
<1>4. CASE fds[f] \in dropped BY <1>4 DEF OwnDue
<1>5. CASE \E e \in receiving : e.fd = f /\ e.conn = fds[f] BY <1>5 DEF OwnDue
<1>6. CASE \E e \in ToSet(sq) : e.op \in {"recv", "close"} /\ e.fd = f /\ e.conn = fds[f]
  BY <1>6 DEF OwnDue
<1>7. CASE \E e \in ToSet(cq) : Renews(e) /\ e.fd = f /\ e.conn = fds[f]
  <2>1. PICK e \in ToSet(cq) : Renews(e) /\ e.fd = f /\ e.conn = fds[f] BY <1>7
  <2>2. e \in ToSet(cq') /\ e.fd = f /\ e.conn = fds'[f] /\ Renews(e) BY <2>1
  <2> QED BY <2>2 DEF OwnDue, Renews
<1> QED BY <1>3, <1>4, <1>5, <1>6, <1>7 DEF OwnDue

\* The completions grow by what is posted.
LEMMA PostSet ==
  ASSUME Types, NEW e \in Cqe, Post(e)
  PROVE  ToSet(cq') = ToSet(cq) \cup {e}
<1>1. cq \in Seq(Cqe) /\ cq' = Append(cq, e) BY PostTypes DEF Types
<1> QED BY <1>1, AppendSet

\* Taking an entry: it becomes a receive of the kernel, or its descriptor is
\* closed, or was.
LEMMA TakeSqeServed == Types /\ Served /\ TakeSqe => Served'
<1> SUFFICES ASSUME Types, Served, TakeSqe PROVE Served'
  OBVIOUS
<1> DEFINE e == Head(sq)
<1>1. sq \in Seq(Sqe) /\ sq # << >> /\ sq' = Tail(sq) BY DEF Types, TakeSqe
<1>2. e \in Sqe BY <1>1, TailElements
<1>3. ToSet(sq) = ToSet(sq') \cup {e} BY <1>1, TailSet
<1>4. e.op # "accept" => e.fd \in Fds /\ e.conn \in Conns BY <1>2, SqeFields
<1>5. fds \in [Fds -> Conns \cup {NoConn}] BY DEF Types, TypeOK
<1>6. ToSet(cq) \subseteq ToSet(cq')
  <2>1. e.op # "accept" => Done(e, "end") \in Cqe BY <1>2, Completions
  <2>2. e.op = "close" => Done(e, "ok") \in Cqe BY <1>2, Completions
  <2>3. cq' = cq \/ (Post(Done(e, "end")) /\ e.op # "accept") \/ (Post(Done(e, "ok")) /\ e.op = "close")
    BY DEF TakeSqe
  <2> QED BY <2>1, <2>2, <2>3, PostSet
<1>7. dropped' = dropped /\ deaf' = deaf /\ receiving \subseteq receiving' BY DEF TakeSqe
<1>8. accepting' = accepting \/ accepting' = TRUE BY DEF TakeSqe
<1>9. e.op = "accept" => accepting' BY DEF TakeSqe
<1>10. Listening'
  <2>1. Accept \in ToSet(sq) => Accept \in ToSet(sq') \/ accepting' BY <1>3, <1>9 DEF Accept
  <2> QED BY <1>6, <1>7, <1>8, <2>1 DEF Served, Listening
<1>11. ASSUME NEW f \in Fds, fds'[f] # NoConn PROVE OwnDue(f)'
  <2>1. /\ fds' = fds \/ (e.op = "close" /\ fds' = [fds EXCEPT ![e.fd] = NoConn])
        /\ e.op = "close" /\ fds[e.fd] # NoConn => fds' = [fds EXCEPT ![e.fd] = NoConn]
        /\ e.op = "recv" /\ fds[e.fd] # NoConn => receiving' = receiving \cup {Receive(e, fds[e.fd])}
    BY DEF TakeSqe
  <2>2. fds'[f] = fds[f] BY <1>4, <1>5, <1>11, <2>1
  <2>3. ~(e.op = "close" /\ e.fd = f) BY <1>4, <1>5, <1>11, <2>1, <2>2
  <2>4. e.op = "recv" /\ e.fd = f => OwnDue(f)'
    <3> SUFFICES ASSUME e.op = "recv", e.fd = f PROVE OwnDue(f)'
      OBVIOUS
    <3>1. Receive(e, fds[f]) \in receiving' BY <1>11, <2>1, <2>2
    <3>2. Receive(e, fds[f]).fd = f /\ Receive(e, fds[f]).conn = fds'[f] BY <2>2 DEF Receive
    <3> QED BY <3>1, <3>2 DEF OwnDue
  <2>5. \A x \in ToSet(sq) : x.op \in {"recv", "close"} /\ x.fd = f /\ x.conn = fds[f] =>
          x \in ToSet(sq') \/ OwnDue(f)'
    BY <1>3, <2>3, <2>4
  <2> QED BY <1>6, <1>7, <1>11, <2>2, <2>5, AddsServed
<1> QED BY <1>10, <1>11 DEF Served

\* A connection, made or failed.
LEMMA ConnectServed == Types /\ Served /\ (Connect \/ ConnectFails) => Served'
<1> SUFFICES ASSUME Types, Served, Connect \/ ConnectFails PROVE Served'
  OBVIOUS
<1>1. CASE Connect
  <2>1. PICK f \in Fds, more \in BOOLEAN :
          /\ fds' = [fds EXCEPT ![f] = conns + 1]
          /\ accepting' = more
          /\ Post([op |-> "accept", fd |-> f, conn |-> conns + 1, more |-> more])
    BY <1>1 DEF Connect
  <2> DEFINE a == [op |-> "accept", fd |-> f, conn |-> conns + 1, more |-> more]
  <2>2. conns + 1 \in Conns BY <1>1, ServerBounds DEF Connect, Types, TypeOK, Conns
  <2>3. a \in Cqe BY <2>2 DEF Cqe
  <2>4. ToSet(cq') = ToSet(cq) \cup {a} BY <2>1, <2>3, PostSet
  <2>5. UNCHANGED <<sq, receiving, dropped, deaf>> BY <1>1 DEF Connect, history
  <2>6. a.op = "accept" /\ a.fd = f /\ a.conn = conns + 1 /\ a.more = more OBVIOUS
  <2> HIDE DEF a
  <2>7. Listening'
    <3>1. CASE more BY <2>1, <3>1 DEF Listening
    <3>2. CASE ~more BY <2>4, <2>6, <3>2 DEF Listening
    <3> QED BY <3>1, <3>2
  <2>8. ASSUME NEW g \in Fds, fds'[g] # NoConn PROVE OwnDue(g)'
    <3>1. fds \in [Fds -> Conns \cup {NoConn}] BY DEF Types, TypeOK
    <3>2. CASE g = f
      <4>1. fds'[g] = conns + 1 BY <2>1, <3>1, <3>2
      <4>2. a \in ToSet(cq') /\ Renews(a) /\ a.fd = g /\ a.conn = fds'[g] BY <2>4, <2>6, <3>2, <4>1 DEF Renews
      <4> QED BY <4>2 DEF OwnDue, Renews
    <3>3. CASE g # f
      <4>1. fds'[g] = fds[g] BY <2>1, <3>1, <3>3
      <4>2. ToSet(cq) \subseteq ToSet(cq') BY <2>4
      <4> QED BY <2>5, <2>8, <4>1, <4>2, AddsServed
    <3> QED BY <3>2, <3>3
  <2> QED BY <2>7, <2>8 DEF Served
<1>2. CASE ConnectFails
  <2> DEFINE a == [op |-> "accept", fd |-> NoFd, conn |-> NoConn, more |-> FALSE]
  <2>1. a \in Cqe /\ a.op = "accept" /\ a.more = FALSE BY DEF Cqe
  <2>2. ToSet(cq') = ToSet(cq) \cup {a} BY <1>2, <2>1, PostSet DEF ConnectFails
  <2>3. UNCHANGED <<sq, fds, receiving, dropped, deaf>> BY <1>2 DEF ConnectFails, history
  <2> HIDE DEF a
  <2>4. Listening' BY <2>1, <2>2 DEF Listening
  <2>5. ASSUME NEW g \in Fds, fds'[g] # NoConn PROVE OwnDue(g)'
    <3>1. fds'[g] = fds[g] /\ ToSet(cq) \subseteq ToSet(cq') BY <2>2, <2>3
    <3> QED BY <2>3, <2>5, <3>1, AddsServed
  <2> QED BY <2>4, <2>5 DEF Served
<1> QED BY <1>1, <1>2

\* A receive that the kernel ends leaves a completion that renews or closes.
LEMMA EndsServed ==
  ASSUME Types, Served, NEW r \in receiving, NEW e \in Cqe, Post(e),
         e.fd = r.fd, e.conn = r.conn,
         receiving' = receiving \/ (receiving' = receiving \ {r} /\ Renews(e)),
         UNCHANGED <<sq, fds, dropped, deaf, accepting>>
  PROVE  Served'
<1>1. ToSet(cq') = ToSet(cq) \cup {e} BY PostSet
<1>2. Listening' BY <1>1 DEF Served, Listening
<1>3. ASSUME NEW f \in Fds, fds'[f] # NoConn PROVE OwnDue(f)'
  <2>1. ASSUME r.fd = f, r.conn = fds[f], r \notin receiving' PROVE OwnDue(f)'
    <3>1. e \in ToSet(cq') /\ Renews(e) /\ e.fd = f /\ e.conn = fds'[f] BY <1>1, <2>1
    <3> QED BY <3>1 DEF OwnDue, Renews
  <2>2. \A x \in receiving : x.fd = f /\ x.conn = fds[f] => x \in receiving' \/ OwnDue(f)'
    BY <2>1
  <2>3. fds'[f] = fds[f] /\ ToSet(cq) \subseteq ToSet(cq') BY <1>1
  <2> QED BY <1>3, <2>2, <2>3, AddsServed
<1> QED BY <1>2, <1>3 DEF Served

\* The steps of the kernel on its receives.
LEMMA ReceiveServed ==
  ASSUME Types, Served, NEW r \in receiving, Request(r) \/ NoBufs(r) \/ Disconnect(r)
  PROVE  Served'
<1>1. r \in Receives BY DEF Types
<1>2. CASE Request(r)
  <2>1. PICK b \in Bufs, more \in BOOLEAN :
          /\ receiving' = IF more THEN receiving ELSE receiving \ {r}
          /\ Post([op |-> "recv", fd |-> r.fd, conn |-> r.conn, res |-> "data",
                   more |-> more, bid |-> b, data |-> msgs'])
    BY <1>2 DEF Request
  <2> DEFINE e == [op |-> "recv", fd |-> r.fd, conn |-> r.conn, res |-> "data",
                   more |-> more, bid |-> b, data |-> msgs']
  <2>2. msgs' \in Message BY <1>2, ServerBounds DEF Request, Types, TypeOK, Message
  <2>3. e \in Cqe BY <1>1, <2>2 DEF Receives, Cqe
  <2>4. UNCHANGED <<sq, fds, dropped, deaf, accepting>> BY <1>2 DEF Request
  <2>5. e.op = "recv" /\ e.fd = r.fd /\ e.conn = r.conn /\ e.more = more OBVIOUS
  <2>6. Post(e) BY <2>1
  <2> HIDE DEF e
  <2>7. receiving' = receiving \/ (receiving' = receiving \ {r} /\ Renews(e))
    BY <2>1, <2>5 DEF Renews
  <2> QED BY <2>3, <2>4, <2>5, <2>6, <2>7, EndsServed
<1>3. CASE NoBufs(r) \/ Disconnect(r)
  <2>1. PICK res \in {"nobufs", "end"} : Post(Done(r, res)) BY <1>3 DEF NoBufs, Disconnect
  <2>2. /\ Done(r, res) \in Cqe /\ Done(r, res).fd = r.fd /\ Done(r, res).conn = r.conn
        /\ Renews(Done(r, res))
    BY <1>1, Completions DEF Receives, Renews
  <2>3. receiving' = receiving \ {r} /\ UNCHANGED <<sq, fds, dropped, deaf, accepting>>
    BY <1>3 DEF NoBufs, Disconnect, history
  <2> QED BY <2>1, <2>2, <2>3, EndsServed
<1> QED BY <1>2, <1>3

\* A step that leaves the descriptors and all that waits alone, but for the
\* completion of a send.
LEMMA IdleServed ==
  ASSUME Types, Served, ToSet(cq) \subseteq ToSet(cq'),
         UNCHANGED <<sq, fds, receiving, dropped, deaf, accepting>>
  PROVE  Served'
<1>1. Listening' BY DEF Served, Listening
<1>2. ASSUME NEW f \in Fds, fds'[f] # NoConn PROVE OwnDue(f)' BY <1>2, AddsServed
<1> QED BY <1>1, <1>2 DEF Served

\* Every step keeps the connections served.
LEMMA StepServed == Types /\ Served /\ [Next]_vars => Served'
<1> SUFFICES ASSUME Types, Served, [Next]_vars PROVE Served'
  OBVIOUS
<1>1. CASE EnterReturns \/ EnterFails \/ CqesDone \/ Flush \/ NeighbourPops \/ UNCHANGED vars
  <2>1. UNCHANGED <<cq, sq, fds, receiving, dropped, deaf, accepting>>
    BY <1>1 DEF EnterReturns, EnterFails, CqesDone, Flush, NeighbourPops, vars, kernel, history
  <2> QED BY <2>1, IdleServed
<1>2. CASE HandleClose
  <2>1. Take("close") /\ UNCHANGED <<sq, fds, receiving, dropped, deaf, accepting>>
    BY <1>2 DEF HandleClose, kernel, history
  <2>2. Head(cq).op = "close" BY <2>1 DEF Take
  <2>3. Listening' BY <2>1, HandledListening
  <2>4. ASSUME NEW f \in Fds, fds'[f] # NoConn PROVE OwnDue(f)'
    <3>1. ~Renews(Head(cq)) BY <2>2 DEF Renews
    <3> QED BY <2>1, <2>4, <3>1, HandledServed
  <2> QED BY <2>3, <2>4 DEF Served
<1>3. CASE \E s \in sends : SendDone(s)
  <2>1. PICK s \in sends : SendDone(s) BY <1>3
  <2>2. s \in Sqe /\ s.op = "send" BY DEF Types
  <2>3. PICK res \in {"ok", "end"} : Post(Done(s, res)) BY <2>1 DEF SendDone
  <2>4. Done(s, res) \in Cqe BY <2>2, Completions
  <2>5. ToSet(cq) \subseteq ToSet(cq') BY <2>3, <2>4, PostSet
  <2>6. UNCHANGED <<sq, fds, receiving, dropped, deaf, accepting>> BY <2>1 DEF SendDone
  <2> QED BY <2>5, <2>6, IdleServed
<1>4. CASE Worker
  BY <1>1, <1>2, <1>4, AcceptServed, NoBufsServed, ClosesServed, DataServed DEF Worker
<1>5. CASE Environment
  BY <1>1, <1>3, <1>5, TakeSqeServed, ConnectServed, ReceiveServed DEF Environment
<1> QED BY <1>1, <1>4, <1>5 DEF Next

\* No open connection and no listener is forgotten, for any ring size and any
\* number of clients, except where a full submission ring or an ended receive
\* drops it.
THEOREM NobodyForgotten == Spec => []ConnectionServed
<1>1. Init /\ Types => Served
  BY DEF Init, Served, Listening, Types, TypeOK
<1>2. Types /\ Served => ConnectionServed
  <2> SUFFICES ASSUME Types, Served PROVE ConnectionServed
    OBVIOUS
  <2>1. ASSUME NEW f \in Fds, fds[f] # NoConn PROVE Due(f) \/ fds[f] \in dropped
    <3>1. OwnDue(f) BY <2>1 DEF Served
    <3>2. \A r \in receiving : r.op = "recv" BY DEF Types, Receives
    <3> QED BY <3>1, <3>2 DEF OwnDue, Due, Renews
  <2> QED BY <2>1 DEF ConnectionServed, Served, Listening
<1> QED BY <1>1, <1>2, StepServed, ServerTypes, PTL DEF Spec

-----------------------------------------------------------------------------
(* Connections stay apart *)

AcceptOf(e, c) == e.op = "accept" /\ e.conn = c
DataOf(e, c) == e.op = "recv" /\ e.res = "data" /\ e.conn = c
EndOf(e, c) == e.op = "recv" /\ e.res = "end" /\ e.conn = c
SendOf(e, c) == e.op = "send" /\ e.conn = c
CloseOf(e, c) == e.op = "close" /\ e.conn = c

\* The entries and completions by which connection c lives.
LifeSqe(e, c) == e.op \in {"recv", "close"} /\ e.conn = c
LifeCqe(e, c) == e.conn = c /\ (e.op = "accept" \/ (e.op = "recv" /\ e.res # "data"))

\* In completions q, entries s and receives R there is one of them at most.
OneLife(c, q, s, R) ==
  /\ \A i, j \in DOMAIN q : LifeCqe(q[i], c) /\ LifeCqe(q[j], c) => i = j
  /\ \A i, j \in DOMAIN s : LifeSqe(s[i], c) /\ LifeSqe(s[j], c) => i = j
  /\ \A r, t \in R : r.conn = c /\ t.conn = c => r = t
  /\ \A i \in DOMAIN q, j \in DOMAIN s : ~(LifeCqe(q[i], c) /\ LifeSqe(s[j], c))
  /\ \A i \in DOMAIN q, r \in R : ~(LifeCqe(q[i], c) /\ r.conn = c)
  /\ \A j \in DOMAIN s, r \in R : ~(LifeSqe(s[j], c) /\ r.conn = c)

NoLife(c, q, s, R) ==
  /\ \A i \in DOMAIN q : ~LifeCqe(q[i], c)
  /\ \A i \in DOMAIN s : ~LifeSqe(s[i], c)
  /\ \A r \in R : r.conn # c

\* A close is the last that is prepared for a connection, the end of its stream
\* the last that is received, and nothing comes before it was accepted.
LastWord(c, q, s) ==
  /\ \A i, j \in DOMAIN s : SendOf(s[i], c) /\ CloseOf(s[j], c) => i < j
  /\ \A i, j \in DOMAIN q : DataOf(q[i], c) /\ EndOf(q[j], c) => i < j
  /\ \A i \in DOMAIN q, j \in DOMAIN s : DataOf(q[i], c) => ~CloseOf(s[j], c)
  /\ \A i, j \in DOMAIN q : AcceptOf(q[i], c) => ~DataOf(q[j], c)
  /\ \A i \in DOMAIN q, j \in DOMAIN s : AcceptOf(q[i], c) => ~SendOf(s[j], c)

NoData(c, q) == \A i \in DOMAIN q : ~DataOf(q[i], c)
NoSend(c, s) == \A i \in DOMAIN s : ~SendOf(s[i], c)
NoClose(c, s) == \A i \in DOMAIN s : ~CloseOf(s[i], c)

\* What acts on a connection's behalf finds it behind its descriptor in F.
Behind(c, q, s, R, F) ==
  /\ \A i \in DOMAIN q : LifeCqe(q[i], c) \/ DataOf(q[i], c) => F[q[i].fd] = c
  /\ \A i \in DOMAIN s : s[i].op # "accept" /\ s[i].conn = c => F[s[i].fd] = c
  /\ \A r \in R : r.conn = c => F[r.fd] = c

\* No connection is named before it was accepted.
Known ==
  /\ \A f \in Fds : fds[f] <= conns
  /\ \A e \in ToSet(sq) : e.op # "accept" => e.conn <= conns
  /\ \A e \in ToSet(cq) : e.conn <= conns
  /\ \A r \in receiving : r.conn <= conns
  /\ \A s \in sends : s.conn <= conns

Sound(c) ==
  /\ OneLife(c, cq, sq, receiving)
  /\ LastWord(c, cq, sq)
  /\ Behind(c, cq, sq, receiving, fds)

FailedAreLoose == \A e \in ToSet(cq) : e.op = "send" /\ e.res # "ok" => e.conn \in loose

Apart ==
  /\ Known
  /\ \A c \in Conns \ loose : Sound(c)
  /\ FailedAreLoose
  /\ StaysOnConnection

\* The first completion is taken.
LEMMA DropCqe ==
  ASSUME NEW c, NEW q \in Seq(Cqe), q # << >>, NEW s, NEW R, NEW F
  PROVE  /\ OneLife(c, q, s, R) => OneLife(c, Tail(q), s, R)
         /\ LastWord(c, q, s) => LastWord(c, Tail(q), s)
         /\ Behind(c, q, s, R, F) => Behind(c, Tail(q), s, R, F)
         /\ OneLife(c, q, s, R) /\ LifeCqe(Head(q), c) => NoLife(c, Tail(q), s, R)
         /\ LastWord(c, q, s) /\ AcceptOf(Head(q), c) => NoData(c, Tail(q)) /\ NoSend(c, s)
         /\ LastWord(c, q, s) /\ EndOf(Head(q), c) => NoData(c, Tail(q))
         /\ LastWord(c, q, s) /\ DataOf(Head(q), c) =>
              NoClose(c, s) /\ \A i \in DOMAIN Tail(q) : ~AcceptOf(Tail(q)[i], c)
         /\ Behind(c, q, s, R, F) /\ (LifeCqe(Head(q), c) \/ DataOf(Head(q), c)) => F[Head(q).fd] = c
<1> DEFINE t == Tail(q)
<1>1. /\ Len(q) \in Nat \ {0} /\ DOMAIN q = 1 .. Len(q) /\ DOMAIN t = 1 .. (Len(q) - 1)
      /\ \A i \in 1 .. (Len(q) - 1) : i + 1 \in 1 .. Len(q) /\ t[i] = q[i + 1]
      /\ Head(q) = q[1]
  BY TailElements
<1>2. 1 \in DOMAIN q /\ \A i \in DOMAIN t : i \in Int /\ i + 1 \in DOMAIN q /\ t[i] = q[i + 1] /\ i + 1 # 1
  BY <1>1
<1>3. Head(q) = q[1] BY <1>1
<1> HIDE DEF t
<1>4. OneLife(c, q, s, R) => OneLife(c, t, s, R)
  <2> SUFFICES ASSUME OneLife(c, q, s, R) PROVE OneLife(c, t, s, R)
    OBVIOUS
  <2>1. \A i, j \in DOMAIN t : LifeCqe(t[i], c) /\ LifeCqe(t[j], c) => i = j
    BY <1>2 DEF OneLife
  <2> QED BY <1>2, <2>1 DEF OneLife
<1>5. LastWord(c, q, s) => LastWord(c, t, s)
  <2> SUFFICES ASSUME LastWord(c, q, s) PROVE LastWord(c, t, s)
    OBVIOUS
  <2>1. \A i, j \in DOMAIN t : DataOf(t[i], c) /\ EndOf(t[j], c) => i < j
    BY <1>2 DEF LastWord
  <2> QED BY <1>2, <2>1 DEF LastWord
<1>6. Behind(c, q, s, R, F) => Behind(c, t, s, R, F) BY <1>2 DEF Behind
<1>7. OneLife(c, q, s, R) /\ LifeCqe(Head(q), c) => NoLife(c, t, s, R) BY <1>2, <1>3 DEF OneLife, NoLife
<1>8. LastWord(c, q, s) /\ AcceptOf(Head(q), c) => NoData(c, t) /\ NoSend(c, s)
  BY <1>2, <1>3 DEF LastWord, NoData, NoSend
<1>9. LastWord(c, q, s) /\ EndOf(Head(q), c) => NoData(c, t)
  <2> SUFFICES ASSUME LastWord(c, q, s), EndOf(q[1], c), NEW i \in DOMAIN t, DataOf(t[i], c) PROVE FALSE
    BY <1>3 DEF NoData
  <2>1. i + 1 < 1 BY <1>2 DEF LastWord
  <2>2. i \in Int /\ i >= 1 BY <1>1
  <2> QED BY <2>1, <2>2
<1>10. LastWord(c, q, s) /\ DataOf(Head(q), c) => NoClose(c, s) /\ \A i \in DOMAIN t : ~AcceptOf(t[i], c)
  BY <1>2, <1>3 DEF LastWord, NoClose
<1>11. Behind(c, q, s, R, F) /\ (LifeCqe(Head(q), c) \/ DataOf(Head(q), c)) => F[Head(q).fd] = c
  BY <1>2, <1>3 DEF Behind
<1> QED BY <1>4, <1>5, <1>6, <1>7, <1>8, <1>9, <1>10, <1>11 DEF t

\* A completion is posted.
LEMMA AddCqe ==
  ASSUME NEW c, NEW q \in Seq(Cqe), NEW e \in Cqe, NEW s, NEW R, NEW F
  PROVE  /\ OneLife(c, q, s, R) /\ ~LifeCqe(e, c) => OneLife(c, Append(q, e), s, R)
         /\ NoLife(c, q, s, R) => OneLife(c, Append(q, e), s, R)
         /\ LastWord(c, q, s) /\ ~AcceptOf(e, c) /\ ~DataOf(e, c) => LastWord(c, Append(q, e), s)
         /\ LastWord(c, q, s) /\ NoLife(c, q, s, R) /\ DataOf(e, c) => LastWord(c, Append(q, e), s)
         /\ NoData(c, q) /\ NoSend(c, s) /\ LastWord(c, q, s) /\ AcceptOf(e, c)
              => LastWord(c, Append(q, e), s)
         /\ Behind(c, q, s, R, F) /\ (LifeCqe(e, c) \/ DataOf(e, c) => F[e.fd] = c)
              => Behind(c, Append(q, e), s, R, F)
<1> DEFINE t == Append(q, e)
           n == Len(q) + 1
<1>1. /\ Len(q) \in Nat /\ DOMAIN q = 1 .. Len(q) /\ DOMAIN t = 1 .. (Len(q) + 1)
      /\ \A i \in 1 .. Len(q) : t[i] = q[i]
      /\ t[Len(q) + 1] = e
  BY AppendElements, LenProperties
<1>2. /\ DOMAIN t = DOMAIN q \cup {n} /\ t[n] = e
      /\ \A i \in DOMAIN q : t[i] = q[i] /\ i < n /\ i # n
  BY <1>1
<1> HIDE DEF t, n
<1>3. OneLife(c, q, s, R) /\ ~LifeCqe(e, c) => OneLife(c, t, s, R)
  <2> SUFFICES ASSUME OneLife(c, q, s, R), ~LifeCqe(e, c) PROVE OneLife(c, t, s, R)
    OBVIOUS
  <2>1. \A i \in DOMAIN t : LifeCqe(t[i], c) => i \in DOMAIN q /\ LifeCqe(q[i], c) BY <1>2
  <2> QED BY <2>1 DEF OneLife
<1>4. NoLife(c, q, s, R) => OneLife(c, t, s, R)
  <2> SUFFICES ASSUME NoLife(c, q, s, R) PROVE OneLife(c, t, s, R)
    OBVIOUS
  <2>1. \A i \in DOMAIN t : LifeCqe(t[i], c) => i = n BY <1>2 DEF NoLife
  <2> QED BY <2>1 DEF OneLife, NoLife
<1>5. LastWord(c, q, s) /\ ~AcceptOf(e, c) /\ ~DataOf(e, c) => LastWord(c, t, s)
  <2> SUFFICES ASSUME LastWord(c, q, s), ~AcceptOf(e, c), ~DataOf(e, c) PROVE LastWord(c, t, s)
    OBVIOUS
  <2>1. \A i \in DOMAIN t : /\ DataOf(t[i], c) => i \in DOMAIN q /\ DataOf(q[i], c)
                            /\ AcceptOf(t[i], c) => i \in DOMAIN q /\ AcceptOf(q[i], c)
    BY <1>2
  <2>2. \A i, j \in DOMAIN t : DataOf(t[i], c) /\ EndOf(t[j], c) => i < j
    BY <1>2, <2>1 DEF LastWord
  <2> QED BY <2>1, <2>2 DEF LastWord
<1>6. LastWord(c, q, s) /\ NoLife(c, q, s, R) /\ DataOf(e, c) => LastWord(c, t, s)
  <2> SUFFICES ASSUME LastWord(c, q, s), NoLife(c, q, s, R), DataOf(e, c) PROVE LastWord(c, t, s)
    OBVIOUS
  <2>1. \A i \in DOMAIN q : ~EndOf(q[i], c) /\ ~AcceptOf(q[i], c)
    BY DEF NoLife, LifeCqe, EndOf, AcceptOf
  <2>2. \A i \in DOMAIN s : ~CloseOf(s[i], c) BY DEF NoLife, LifeSqe, CloseOf
  <2>3. ~EndOf(e, c) /\ ~AcceptOf(e, c) BY DEF DataOf, EndOf, AcceptOf
  <2>4. \A i \in DOMAIN t : ~EndOf(t[i], c) /\ ~AcceptOf(t[i], c) BY <1>2, <2>1, <2>3
  <2> QED BY <2>2, <2>4 DEF LastWord
<1>7. NoData(c, q) /\ NoSend(c, s) /\ LastWord(c, q, s) /\ AcceptOf(e, c) => LastWord(c, t, s)
  <2> SUFFICES ASSUME NoData(c, q), NoSend(c, s), AcceptOf(e, c) PROVE LastWord(c, t, s)
    OBVIOUS
  <2>1. ~DataOf(e, c) BY DEF AcceptOf, DataOf
  <2>2. \A i \in DOMAIN t : ~DataOf(t[i], c) BY <1>2, <2>1 DEF NoData
  <2> QED BY <2>2 DEF LastWord, NoSend
<1>8. Behind(c, q, s, R, F) /\ (LifeCqe(e, c) \/ DataOf(e, c) => F[e.fd] = c) => Behind(c, t, s, R, F)
  BY <1>2 DEF Behind
<1> QED BY <1>3, <1>4, <1>5, <1>6, <1>7, <1>8 DEF t

\* The first entry is taken.
LEMMA DropSqe ==
  ASSUME NEW c, NEW q, NEW s \in Seq(Sqe), s # << >>, NEW R, NEW F
  PROVE  /\ OneLife(c, q, s, R) => OneLife(c, q, Tail(s), R)
         /\ LastWord(c, q, s) => LastWord(c, q, Tail(s))
         /\ Behind(c, q, s, R, F) => Behind(c, q, Tail(s), R, F)
         /\ OneLife(c, q, s, R) /\ LifeSqe(Head(s), c) => NoLife(c, q, Tail(s), R)
         /\ LastWord(c, q, s) /\ CloseOf(Head(s), c) => NoData(c, q) /\ NoSend(c, Tail(s))
         /\ Behind(c, q, s, R, F) /\ Head(s).op # "accept" /\ Head(s).conn = c => F[Head(s).fd] = c
<1> DEFINE t == Tail(s)
<1>1. /\ Len(s) \in Nat \ {0} /\ DOMAIN s = 1 .. Len(s) /\ DOMAIN t = 1 .. (Len(s) - 1)
      /\ \A i \in 1 .. (Len(s) - 1) : i + 1 \in 1 .. Len(s) /\ t[i] = s[i + 1]
      /\ Head(s) = s[1]
  BY TailElements
<1>2. 1 \in DOMAIN s /\ \A i \in DOMAIN t : i \in Int /\ i + 1 \in DOMAIN s /\ t[i] = s[i + 1] /\ i + 1 # 1
  BY <1>1
<1>3. Head(s) = s[1] BY <1>1
<1> HIDE DEF t
<1>4. OneLife(c, q, s, R) => OneLife(c, q, t, R)
  <2> SUFFICES ASSUME OneLife(c, q, s, R) PROVE OneLife(c, q, t, R)
    OBVIOUS
  <2>1. \A i, j \in DOMAIN t : LifeSqe(t[i], c) /\ LifeSqe(t[j], c) => i = j
    BY <1>2 DEF OneLife
  <2> QED BY <1>2, <2>1 DEF OneLife
<1>5. LastWord(c, q, s) => LastWord(c, q, t)
  <2> SUFFICES ASSUME LastWord(c, q, s) PROVE LastWord(c, q, t)
    OBVIOUS
  <2>1. \A i, j \in DOMAIN t : SendOf(t[i], c) /\ CloseOf(t[j], c) => i < j
    BY <1>2 DEF LastWord
  <2> QED BY <1>2, <2>1 DEF LastWord
<1>6. Behind(c, q, s, R, F) => Behind(c, q, t, R, F) BY <1>2 DEF Behind
<1>7. OneLife(c, q, s, R) /\ LifeSqe(Head(s), c) => NoLife(c, q, t, R) BY <1>2, <1>3 DEF OneLife, NoLife
<1>8. LastWord(c, q, s) /\ CloseOf(Head(s), c) => NoData(c, q) /\ NoSend(c, t)
  <2> SUFFICES ASSUME LastWord(c, q, s), CloseOf(s[1], c) PROVE NoData(c, q) /\ NoSend(c, t)
    BY <1>3
  <2>1. NoData(c, q) BY <1>2 DEF LastWord, NoData
  <2>2. ASSUME NEW i \in DOMAIN t, SendOf(t[i], c) PROVE FALSE
    <3>1. i + 1 < 1 BY <1>2, <2>2 DEF LastWord
    <3>2. i \in Int /\ i >= 1 BY <1>1
    <3> QED BY <3>1, <3>2
  <2> QED BY <2>1, <2>2 DEF NoSend
<1>9. Behind(c, q, s, R, F) /\ Head(s).op # "accept" /\ Head(s).conn = c => F[Head(s).fd] = c
  BY <1>2, <1>3 DEF Behind
<1> QED BY <1>4, <1>5, <1>6, <1>7, <1>8, <1>9 DEF t

\* An entry is prepared.
LEMMA AddSqe ==
  ASSUME NEW c, NEW q, NEW s \in Seq(Sqe), NEW e \in Sqe, NEW R, NEW F
  PROVE  /\ OneLife(c, q, s, R) /\ ~LifeSqe(e, c) => OneLife(c, q, Append(s, e), R)
         /\ NoLife(c, q, s, R) => OneLife(c, q, Append(s, e), R)
         /\ LastWord(c, q, s) /\ ~SendOf(e, c) /\ ~CloseOf(e, c) => LastWord(c, q, Append(s, e))
         /\ LastWord(c, q, s) /\ CloseOf(e, c) /\ NoData(c, q) => LastWord(c, q, Append(s, e))
         /\ LastWord(c, q, s) /\ SendOf(e, c) /\ NoClose(c, s) /\ (\A i \in DOMAIN q : ~AcceptOf(q[i], c))
              => LastWord(c, q, Append(s, e))
         /\ Behind(c, q, s, R, F) /\ (e.op # "accept" /\ e.conn = c => F[e.fd] = c)
              => Behind(c, q, Append(s, e), R, F)
<1> DEFINE t == Append(s, e)
           n == Len(s) + 1
<1>1. /\ Len(s) \in Nat /\ DOMAIN s = 1 .. Len(s) /\ DOMAIN t = 1 .. (Len(s) + 1)
      /\ \A i \in 1 .. Len(s) : t[i] = s[i]
      /\ t[Len(s) + 1] = e
  BY AppendElements, LenProperties
<1>2. /\ DOMAIN t = DOMAIN s \cup {n} /\ t[n] = e
      /\ \A i \in DOMAIN s : t[i] = s[i] /\ i < n /\ i # n
  BY <1>1
<1> HIDE DEF t, n
<1>3. OneLife(c, q, s, R) /\ ~LifeSqe(e, c) => OneLife(c, q, t, R)
  <2> SUFFICES ASSUME OneLife(c, q, s, R), ~LifeSqe(e, c) PROVE OneLife(c, q, t, R)
    OBVIOUS
  <2>1. \A i \in DOMAIN t : LifeSqe(t[i], c) => i \in DOMAIN s /\ LifeSqe(s[i], c) BY <1>2
  <2> QED BY <2>1 DEF OneLife
<1>4. NoLife(c, q, s, R) => OneLife(c, q, t, R)
  <2> SUFFICES ASSUME NoLife(c, q, s, R) PROVE OneLife(c, q, t, R)
    OBVIOUS
  <2>1. \A i \in DOMAIN t : LifeSqe(t[i], c) => i = n BY <1>2 DEF NoLife
  <2> QED BY <2>1 DEF OneLife, NoLife
<1>5. LastWord(c, q, s) /\ ~SendOf(e, c) /\ ~CloseOf(e, c) => LastWord(c, q, t)
  <2> SUFFICES ASSUME LastWord(c, q, s), ~SendOf(e, c), ~CloseOf(e, c) PROVE LastWord(c, q, t)
    OBVIOUS
  <2>1. \A i \in DOMAIN t : /\ SendOf(t[i], c) => i \in DOMAIN s /\ SendOf(s[i], c)
                            /\ CloseOf(t[i], c) => i \in DOMAIN s /\ CloseOf(s[i], c)
    BY <1>2
  <2> QED BY <2>1 DEF LastWord
<1>6. LastWord(c, q, s) /\ CloseOf(e, c) /\ NoData(c, q) => LastWord(c, q, t)
  <2> SUFFICES ASSUME LastWord(c, q, s), CloseOf(e, c), NoData(c, q) PROVE LastWord(c, q, t)
    OBVIOUS
  <2>0. ~SendOf(e, c) BY DEF SendOf, CloseOf
  <2>1. \A i \in DOMAIN t : SendOf(t[i], c) => i \in DOMAIN s /\ SendOf(s[i], c) BY <1>2, <2>0
  <2>2. \A i, j \in DOMAIN t : SendOf(t[i], c) /\ CloseOf(t[j], c) => i < j
    BY <1>2, <2>1 DEF LastWord
  <2> QED BY <2>1, <2>2 DEF LastWord, NoData
<1>7. LastWord(c, q, s) /\ SendOf(e, c) /\ NoClose(c, s) /\ (\A i \in DOMAIN q : ~AcceptOf(q[i], c))
        => LastWord(c, q, t)
  <2> SUFFICES ASSUME LastWord(c, q, s), SendOf(e, c), NoClose(c, s), \A i \in DOMAIN q : ~AcceptOf(q[i], c)
               PROVE  LastWord(c, q, t)
    OBVIOUS
  <2>0. ~CloseOf(e, c) BY DEF SendOf, CloseOf
  <2>1. \A i \in DOMAIN t : ~CloseOf(t[i], c) BY <1>2, <2>0 DEF NoClose
  <2> QED BY <2>1 DEF LastWord
<1>8. Behind(c, q, s, R, F) /\ (e.op # "accept" /\ e.conn = c => F[e.fd] = c) => Behind(c, q, t, R, F)
  BY <1>2 DEF Behind
<1> QED BY <1>3, <1>4, <1>5, <1>6, <1>7, <1>8 DEF t

\* The kernel takes or drops a receive.
LEMMA Receiving ==
  ASSUME NEW c, NEW q, NEW s, NEW R, NEW r, NEW F
  PROVE  /\ OneLife(c, q, s, R) /\ r.conn # c => OneLife(c, q, s, R \cup {r})
         /\ NoLife(c, q, s, R) => OneLife(c, q, s, R \cup {r})
         /\ Behind(c, q, s, R, F) /\ (r.conn = c => F[r.fd] = c) => Behind(c, q, s, R \cup {r}, F)
         /\ OneLife(c, q, s, R) => OneLife(c, q, s, R \ {r})
         /\ OneLife(c, q, s, R) /\ r \in R /\ r.conn = c => NoLife(c, q, s, R \ {r})
         /\ Behind(c, q, s, R, F) => Behind(c, q, s, R \ {r}, F)
<1>1. OneLife(c, q, s, R) /\ r.conn # c => OneLife(c, q, s, R \cup {r}) BY DEF OneLife
<1>2. NoLife(c, q, s, R) => OneLife(c, q, s, R \cup {r}) BY DEF NoLife, OneLife
<1>3. Behind(c, q, s, R, F) /\ (r.conn = c => F[r.fd] = c) => Behind(c, q, s, R \cup {r}, F) BY DEF Behind
<1>4. OneLife(c, q, s, R) => OneLife(c, q, s, R \ {r}) BY DEF OneLife
<1>5. OneLife(c, q, s, R) /\ r \in R /\ r.conn = c => NoLife(c, q, s, R \ {r}) BY DEF OneLife, NoLife
<1>6. Behind(c, q, s, R, F) => Behind(c, q, s, R \ {r}, F) BY DEF Behind
<1> QED BY <1>1, <1>2, <1>3, <1>4, <1>5, <1>6

\* A descriptor that leads to another connection, or that nothing of this one
\* names, changes hands.
LEMMA Rewired ==
  ASSUME NEW c \in Conns, NEW q \in Seq(Cqe), NEW s \in Seq(Sqe), NEW R \in SUBSET Receives, NEW F, NEW G,
         Behind(c, q, s, R, F),
         \/ \A f \in Fds : F[f] = c => G[f] = c
         \/ NoLife(c, q, s, R) /\ NoData(c, q) /\ NoSend(c, s)
  PROVE  Behind(c, q, s, R, G)
<1>1. \A i \in DOMAIN s : s[i] \in Sqe BY SeqSet
<1>2. \A i \in DOMAIN q : q[i] \in Cqe BY SeqSet
<1>3. \A i \in DOMAIN s : s[i].op \in {"accept", "recv", "close", "send"} BY <1>1, SqeFields
<1>4. CASE \A f \in Fds : F[f] = c => G[f] = c
  <2>1. \A i \in DOMAIN s : s[i].op # "accept" => s[i].fd \in Fds BY <1>1, SqeFields
  <2>2. \A r \in R : r.fd \in Fds BY DEF Receives
  <2>3. ASSUME NEW i \in DOMAIN q, LifeCqe(q[i], c) \/ DataOf(q[i], c) PROVE q[i].fd \in Fds
    <3>1. c # NoConn /\ q[i].conn = c BY <2>3 DEF Conns, NoConn, LifeCqe, DataOf
    <3> QED BY <1>2, <3>1, CqeFields
  <2> QED BY <1>4, <2>1, <2>2, <2>3 DEF Behind
<1>5. CASE NoLife(c, q, s, R) /\ NoData(c, q) /\ NoSend(c, s)
  BY <1>3, <1>5 DEF Behind, NoLife, NoData, NoSend, LifeSqe, SendOf
<1> QED BY <1>4, <1>5

\* Closing a descriptor at once hits nobody but who is behind it.
LEMMA OthersKeep ==
  ASSUME Types, NEW f \in Fds, NEW c, NEW d \in Conns, d # c, d \notin Hit(f, c)
  PROVE  \A g \in Fds : fds[g] = d => [fds EXCEPT ![f] = NoConn][g] = d
<1>1. fds \in [Fds -> Conns \cup {NoConn}] BY DEF Types, TypeOK
<1>2. d # NoConn BY DEF Conns, NoConn
<1>3. fds[f] # d BY <1>2 DEF Hit
<1> QED BY <1>1, <1>3

\* The completion the worker takes.
LEMMA Taken ==
  ASSUME Types, NEW o, Take(o)
  PROVE  /\ cq \in Seq(Cqe) /\ cq # << >> /\ cq' = Tail(cq) /\ cq' \in Seq(Cqe)
         /\ ToSet(cq) = ToSet(cq') \cup {Head(cq)} /\ Head(cq) \in Cqe /\ Head(cq).op = o
         /\ sq \in Seq(Sqe) /\ receiving \in SUBSET Receives
<1>1. cq \in Seq(Cqe) /\ cq # << >> /\ cq' = Tail(cq) /\ Head(cq).op = o BY DEF Types, Take
<1>2. cq' \in Seq(Cqe) /\ ToSet(cq) = ToSet(cq') \cup {Head(cq)} /\ Head(cq) \in Cqe
  BY <1>1, TailSet, TailElements
<1> QED BY <1>1, <1>2 DEF Types

\* Taking a completion leaves every connection sound but for what its handler
\* then does about it.
LEMMA TakenSound ==
  ASSUME Types, Apart, NEW o, Take(o), NEW c \in Conns \ loose
  PROVE  /\ OneLife(c, cq', sq, receiving) /\ LastWord(c, cq', sq)
         /\ Behind(c, cq', sq, receiving, fds)
         /\ LifeCqe(Head(cq), c) => NoLife(c, cq', sq, receiving)
         /\ AcceptOf(Head(cq), c) => NoData(c, cq') /\ NoSend(c, sq)
         /\ EndOf(Head(cq), c) => NoData(c, cq')
         /\ DataOf(Head(cq), c) => NoClose(c, sq) /\ \A i \in DOMAIN cq' : ~AcceptOf(cq'[i], c)
         /\ LifeCqe(Head(cq), c) \/ DataOf(Head(cq), c) => fds[Head(cq).fd] = c
<1>1. cq \in Seq(Cqe) /\ cq # << >> /\ cq' = Tail(cq) BY Taken
<1>2. OneLife(c, cq, sq, receiving) /\ LastWord(c, cq, sq) /\ Behind(c, cq, sq, receiving, fds)
  BY DEF Apart, Sound
<1> QED BY <1>1, <1>2, DropCqe

\* The counters after a completion is handled.
LEMMA TakenKnown ==
  ASSUME Types, Apart, NEW o, Take(o), loose \subseteq loose',
         UNCHANGED <<conns, receiving, sends>>,
         \A f \in Fds : fds'[f] \in {fds[f], NoConn},
         \A e \in ToSet(sq') : e \in ToSet(sq) \/ e.op = "accept" \/ e.conn = Head(cq).conn
  PROVE  Known' /\ FailedAreLoose'
<1>1. ToSet(cq) = ToSet(cq') \cup {Head(cq)} BY Taken
<1>2. conns \in Nat BY ServerBounds DEF Types, TypeOK
<1>3. Known /\ FailedAreLoose BY DEF Apart
<1>4. \A e \in ToSet(sq') : e.op # "accept" => e.conn <= conns BY <1>1, <1>3 DEF Known
<1>5. \A f \in Fds : fds'[f] <= conns BY <1>2, <1>3 DEF Known, NoConn
<1> QED BY <1>1, <1>3, <1>4, <1>5 DEF Known, FailedAreLoose

\* Nothing but the completion changes.
LEMMA TakeApart ==
  ASSUME Types, Apart, NEW o, Take(o),
         UNCHANGED <<sq, fds, conns, receiving, sends, loose, stray>>
  PROVE  Apart'
<1>1. Known' /\ FailedAreLoose' BY TakenKnown
<1>2. ASSUME NEW c \in Conns \ loose' PROVE Sound(c)' BY TakenSound DEF Sound
<1> QED BY <1>1, <1>2 DEF Apart, StaysOnConnection

\* The descriptor of the completion is closed: it is the end of a stream, or a
\* failed send, whose connection is loose.
LEMMA CloseApart ==
  ASSUME Types, Apart, NEW o, Take(o), CloseFd(Head(cq).fd, Head(cq).conn),
         Head(cq).fd \in Fds, Head(cq).conn \in Conns,
         Head(cq).conn \in loose \/ EndOf(Head(cq), Head(cq).conn),
         UNCHANGED <<conns, receiving, sends>>
  PROVE  Apart'
<1> DEFINE f == Head(cq).fd
           d == Head(cq).conn
<1>1. sq \in Seq(Sqe) /\ cq' \in Seq(Cqe) /\ receiving \in SUBSET Receives BY Taken
<1>2. fds \in [Fds -> Conns \cup {NoConn}] BY DEF Types, TypeOK
<1>3. CASE Room
  <2>1. sq' = Append(sq, Close(f, d)) /\ fds' = fds /\ loose' = loose /\ stray' = stray
    BY <1>3 DEF CloseFd
  <2>2. Close(f, d) \in Sqe BY Entries
  <2>3. ToSet(sq') = ToSet(sq) \cup {Close(f, d)} BY <1>1, <2>1, <2>2, AppendSet
  <2>4. Close(f, d).op = "close" /\ Close(f, d).fd = f /\ Close(f, d).conn = d BY DEF Close
  <2>5. Known' /\ FailedAreLoose'
    <3>1. \A e \in ToSet(sq') : e \in ToSet(sq) \/ e.op = "accept" \/ e.conn = Head(cq).conn BY <2>3, <2>4
    <3>2. \A g \in Fds : fds'[g] \in {fds[g], NoConn} BY <2>1
    <3> QED BY <2>1, <3>1, <3>2, TakenKnown
  <2>6. ASSUME NEW c \in Conns \ loose' PROVE Sound(c)'
    <3>1. /\ OneLife(c, cq', sq, receiving) /\ LastWord(c, cq', sq)
          /\ Behind(c, cq', sq, receiving, fds)
          /\ LifeCqe(Head(cq), c) => NoLife(c, cq', sq, receiving)
          /\ EndOf(Head(cq), c) => NoData(c, cq')
          /\ LifeCqe(Head(cq), c) \/ DataOf(Head(cq), c) => fds[Head(cq).fd] = c
      BY <2>1, TakenSound
    <3>2. CASE c = d
      <4>1. EndOf(Head(cq), c) BY <2>1, <3>2
      <4>2. LifeCqe(Head(cq), c) BY <4>1 DEF EndOf, LifeCqe
      <4>3. CloseOf(Close(f, d), c) BY <2>4, <3>2 DEF CloseOf
      <4>4. NoLife(c, cq', sq, receiving) /\ NoData(c, cq') /\ fds[f] = c BY <3>1, <4>1, <4>2
      <4>5. /\ OneLife(c, cq', sq', receiving) /\ LastWord(c, cq', sq')
            /\ Behind(c, cq', sq', receiving, fds)
        BY <1>1, <2>1, <2>2, <2>4, <3>1, <4>3, <4>4, AddSqe
      <4> QED BY <2>1, <4>5 DEF Sound
    <3>3. CASE c # d
      <4>1. ~LifeSqe(Close(f, d), c) /\ ~SendOf(Close(f, d), c) /\ ~CloseOf(Close(f, d), c)
        BY <2>4, <3>3 DEF LifeSqe, SendOf, CloseOf
      <4>2. /\ OneLife(c, cq', sq', receiving) /\ LastWord(c, cq', sq')
            /\ Behind(c, cq', sq', receiving, fds)
        BY <1>1, <2>1, <2>2, <2>4, <3>1, <3>3, <4>1, AddSqe
      <4> QED BY <2>1, <4>2 DEF Sound
    <3> QED BY <3>2, <3>3
  <2> QED BY <2>1, <2>5, <2>6 DEF Apart, StaysOnConnection
<1>4. CASE ~Room
  <2>1. /\ sq' = sq /\ fds' = [fds EXCEPT ![f] = NoConn]
        /\ loose' = loose \cup {d} \cup Hit(f, d)
        /\ stray' = IF Hit(f, d) = {} THEN stray ELSE stray \cup {d}
    BY <1>4 DEF CloseFd
  <2>2. Known' /\ FailedAreLoose'
    <3>1. \A g \in Fds : fds'[g] \in {fds[g], NoConn} BY <1>2, <2>1
    <3>2. loose \subseteq loose' BY <2>1
    <3> QED BY <2>1, <3>1, <3>2, TakenKnown
  <2>3. StaysOnConnection' BY <2>1 DEF Apart, StaysOnConnection
  <2>4. ASSUME NEW c \in Conns \ loose' PROVE Sound(c)'
    <3>1. c \in Conns \ loose /\ c # d /\ c \notin Hit(f, d) BY <2>1
    <3>2. /\ OneLife(c, cq', sq, receiving) /\ LastWord(c, cq', sq)
          /\ Behind(c, cq', sq, receiving, fds)
      BY <3>1, TakenSound
    <3>3. \A g \in Fds : fds[g] = c => fds'[g] = c BY <2>1, <3>1, OthersKeep
    <3>4. Behind(c, cq', sq, receiving, fds') BY <1>1, <3>1, <3>2, <3>3, Rewired
    <3> QED BY <2>1, <3>2, <3>4 DEF Sound
  <2> QED BY <2>2, <2>3, <2>4 DEF Apart
<1> QED BY <1>3, <1>4

\* The handlers that close, or do nothing.
LEMMA ClosesApart == Types /\ Apart /\ (HandleRecvEnd \/ HandleSend \/ HandleClose) => Apart'
<1>1. ASSUME Types, Apart, HandleRecvEnd PROVE Apart'
  <2>1. Take("recv") /\ Head(cq).res = "end" /\ CloseFd(Head(cq).fd, Head(cq).conn)
        /\ UNCHANGED <<conns, receiving, sends>>
    BY <1>1 DEF HandleRecvEnd
  <2>2. Head(cq) \in Cqe /\ Head(cq).op = "recv" BY <1>1, <2>1, Taken
  <2>3. Head(cq).fd \in Fds /\ Head(cq).conn \in Conns BY <2>2, CqeFields
  <2>4. EndOf(Head(cq), Head(cq).conn) BY <2>1, <2>2 DEF EndOf
  <2> QED BY <1>1, <2>1, <2>3, <2>4, CloseApart
<1>2. ASSUME Types, Apart, HandleSend PROVE Apart'
  <2>1. Take("send") /\ UNCHANGED <<conns, receiving, sends>> BY <1>2 DEF HandleSend
  <2>2. Head(cq) \in Cqe /\ Head(cq).op = "send" /\ Head(cq) \in ToSet(cq) BY <1>2, <2>1, Taken
  <2>3. Head(cq).fd \in Fds /\ Head(cq).conn \in Conns BY <2>2, CqeFields
  <2>4. CASE Head(cq).res = "ok"
    <3>1. UNCHANGED <<sq, fds, loose, stray>> BY <1>2, <2>4 DEF HandleSend
    <3> QED BY <1>2, <2>1, <3>1, TakeApart
  <2>5. CASE Head(cq).res # "ok"
    <3>1. CloseFd(Head(cq).fd, Head(cq).conn) BY <1>2, <2>5 DEF HandleSend
    <3>2. Head(cq).conn \in loose BY <1>2, <2>2, <2>5 DEF Apart, FailedAreLoose
    <3> QED BY <1>2, <2>1, <2>3, <3>1, <3>2, CloseApart
  <2> QED BY <2>4, <2>5
<1>3. ASSUME Types, Apart, HandleClose PROVE Apart'
  <2>1. Take("close") /\ UNCHANGED <<sq, fds, conns, receiving, sends, loose, stray>>
    BY <1>3 DEF HandleClose, kernel, history
  <2> QED BY <1>3, <2>1, TakeApart
<1> QED BY <1>1, <1>2, <1>3

\* Handling an accept: the new connection starts its life with a receive, or is
\* closed before anything else names it.
LEMMA AcceptApart == Types /\ Apart /\ HandleAccept => Apart'
<1> SUFFICES ASSUME Types, Apart, HandleAccept PROVE Apart'
  OBVIOUS
<1> DEFINE cqe == Head(cq)
           f == cqe.fd
           d == cqe.conn
           s == IF f # NoFd THEN PutSqe(sq, Recv(f, d)) ELSE sq
           hit == IF f # NoFd /\ ~Room THEN Hit(f, d) ELSE {}
<1>0. Take("accept") BY DEF HandleAccept
<1>1. /\ sq \in Seq(Sqe) /\ cq' \in Seq(Cqe) /\ receiving \in SUBSET Receives
      /\ cqe \in Cqe /\ cqe.op = "accept"
  BY <1>0, Taken
<1>2. fds \in [Fds -> Conns \cup {NoConn}] /\ Len(sq) <= SqEntries BY DEF Types, TypeOK
<1>3. f # NoFd => f \in Fds /\ d \in Conns BY <1>1, CqeFields
<1>4. f = NoFd => d = NoConn BY <1>1, CqeFields
<1>5. /\ sq' = IF cqe.more THEN s ELSE PutSqe(s, Accept)
      /\ fds' = IF f # NoFd /\ ~Room THEN [fds EXCEPT ![f] = NoConn] ELSE fds
      /\ loose' = loose \cup hit
      /\ stray' = IF hit = {} THEN stray ELSE stray \cup {d}
      /\ UNCHANGED <<conns, receiving, sends>>
  BY DEF HandleAccept
<1>6. s \in Seq(Sqe)
  <2>1. f # NoFd => Recv(f, d) \in Sqe BY <1>3, Entries
  <2> QED BY <1>1, <1>2, <2>1, PutTypes
<1>7. Recv(f, d).op = "recv" /\ Recv(f, d).fd = f /\ Recv(f, d).conn = d BY DEF Recv
<1>8. s = IF f # NoFd /\ Room THEN Append(sq, Recv(f, d)) ELSE sq BY DEF PutSqe, Room
<1>9. Known' /\ FailedAreLoose'
  <2>1. ToSet(s) \subseteq ToSet(sq) \cup {Recv(f, d)}
    <3>1. f # NoFd => Recv(f, d) \in Sqe BY <1>3, Entries
    <3>2. f # NoFd => ToSet(Append(sq, Recv(f, d))) = ToSet(sq) \cup {Recv(f, d)} BY <1>1, <3>1, AppendSet
    <3> QED BY <1>8, <3>2
  <2>2. ToSet(sq') \subseteq ToSet(s) \cup {Accept} BY <1>5, <1>6, Entries, PutSet
  <2>3. Accept.op = "accept" BY DEF Accept
  <2>4. \A e \in ToSet(sq') : e \in ToSet(sq) \/ e.op = "accept" \/ e.conn = Head(cq).conn
    BY <1>7, <2>1, <2>2, <2>3
  <2>5. \A g \in Fds : fds'[g] \in {fds[g], NoConn} BY <1>2, <1>3, <1>5
  <2>6. loose \subseteq loose' BY <1>5
  <2> QED BY <1>0, <1>5, <2>4, <2>5, <2>6, TakenKnown
<1>10. StaysOnConnection'
  <2>1. hit = {} => StaysOnConnection' BY <1>5 DEF Apart, StaysOnConnection
  <2>2. ASSUME hit # {} PROVE d \in loose
    <3>1. f # NoFd /\ f \in Fds /\ d \in Conns /\ Hit(f, d) # {} BY <1>3, <2>2
    <3>2. SUFFICES ASSUME d \notin loose PROVE FALSE
      OBVIOUS
    <3>3. LifeCqe(cqe, d) BY <1>1 DEF LifeCqe
    <3>4. fds[f] = d BY <1>0, <3>1, <3>2, <3>3, TakenSound
    <3> QED BY <3>1, <3>4 DEF Hit
  <2> QED BY <1>5, <2>1, <2>2 DEF Apart, StaysOnConnection
<1>11. ASSUME NEW c \in Conns \ loose' PROVE Sound(c)'
  <2>0. c \in Conns \ loose /\ c # NoConn BY <1>5 DEF Conns, NoConn
  <2>1. /\ OneLife(c, cq', sq, receiving) /\ LastWord(c, cq', sq)
        /\ Behind(c, cq', sq, receiving, fds)
        /\ LifeCqe(cqe, c) => NoLife(c, cq', sq, receiving)
        /\ AcceptOf(cqe, c) => NoData(c, cq') /\ NoSend(c, sq)
        /\ LifeCqe(cqe, c) \/ DataOf(cqe, c) => fds[cqe.fd] = c
    BY <1>0, <2>0, TakenSound
  <2>2. c = d => LifeCqe(cqe, c) /\ AcceptOf(cqe, c) BY <1>1 DEF LifeCqe, AcceptOf
  <2>3. OneLife(c, cq', s, receiving) /\ LastWord(c, cq', s) /\ Behind(c, cq', s, receiving, fds')
    <3>1. CASE f # NoFd /\ Room
      <4>1. s = Append(sq, Recv(f, d)) /\ fds' = fds BY <1>5, <1>8, <3>1
      <4>2. Recv(f, d) \in Sqe BY <1>3, <3>1, Entries
      <4>3. ~SendOf(Recv(f, d), c) /\ ~CloseOf(Recv(f, d), c) /\ (LifeSqe(Recv(f, d), c) => c = d)
        BY <1>7 DEF SendOf, CloseOf, LifeSqe
      <4> QED BY <1>1, <1>7, <2>1, <2>2, <4>1, <4>2, <4>3, AddSqe
    <3>2. CASE f # NoFd /\ ~Room
      <4>1. s = sq /\ fds' = [fds EXCEPT ![f] = NoConn] BY <1>5, <1>8, <3>2
      <4>2. CASE c = d
        <5>1. NoLife(c, cq', sq, receiving) /\ NoData(c, cq') /\ NoSend(c, sq) BY <2>1, <2>2, <4>2
        <5>2. Behind(c, cq', sq, receiving, fds') BY <1>1, <2>0, <2>1, <5>1, Rewired
        <5> QED BY <2>1, <4>1, <5>2
      <4>3. CASE c # d
        <5>1. c \notin Hit(f, d) BY <1>5, <1>11, <3>2
        <5>2. \A g \in Fds : fds[g] = c => fds'[g] = c BY <1>3, <2>0, <3>2, <4>1, <4>3, <5>1, OthersKeep
        <5>3. Behind(c, cq', sq, receiving, fds') BY <1>1, <2>0, <2>1, <5>2, Rewired
        <5> QED BY <2>1, <4>1, <5>3
      <4> QED BY <4>2, <4>3
    <3>3. CASE f = NoFd
      <4>1. s = sq /\ fds' = fds BY <1>5, <3>3
      <4> QED BY <2>1, <4>1
    <3> QED BY <3>1, <3>2, <3>3
  <2>4. sq' = s \/ sq' = Append(s, Accept) BY <1>5 DEF PutSqe
  <2>5. /\ Accept \in Sqe /\ Accept.op = "accept"
        /\ ~LifeSqe(Accept, c) /\ ~SendOf(Accept, c) /\ ~CloseOf(Accept, c)
    BY Entries DEF Accept, LifeSqe, SendOf, CloseOf
  <2> HIDE DEF s, cqe, f, d, hit
  <2>6. /\ OneLife(c, cq', Append(s, Accept), receiving) /\ LastWord(c, cq', Append(s, Accept))
        /\ Behind(c, cq', Append(s, Accept), receiving, fds')
    BY <1>6, <2>3, <2>5, AddSqe
  <2> QED BY <1>5, <2>3, <2>4, <2>6 DEF Sound
<1> QED BY <1>9, <1>10, <1>11 DEF Apart

\* Renewing a receive: the connection goes on with the new entry.
LEMMA NoBufsApart == Types /\ Apart /\ HandleNoBufs => Apart'
<1> SUFFICES ASSUME Types, Apart, HandleNoBufs PROVE Apart'
  OBVIOUS
<1> DEFINE cqe == Head(cq)
           e == Recv(cqe.fd, cqe.conn)
<1>0. Take("recv") /\ cqe.res = "nobufs" BY DEF HandleNoBufs
<1>1. /\ sq \in Seq(Sqe) /\ cq' \in Seq(Cqe) /\ receiving \in SUBSET Receives
      /\ cqe \in Cqe /\ cqe.op = "recv"
  BY <1>0, Taken
<1>2. e \in Sqe BY <1>1, CqeFields, Entries
<1>3. sq' = PutSqe(sq, e) /\ UNCHANGED <<fds, conns, receiving, sends, loose, stray>>
  BY DEF HandleNoBufs, kernel
<1>4. e.op = "recv" /\ e.fd = cqe.fd /\ e.conn = cqe.conn BY DEF Recv
<1>5. Known' /\ FailedAreLoose'
  <2>1. ToSet(sq') \subseteq ToSet(sq) \cup {e} BY <1>1, <1>2, <1>3, PutSet
  <2>2. \A x \in ToSet(sq') : x \in ToSet(sq) \/ x.op = "accept" \/ x.conn = Head(cq).conn
    BY <1>4, <2>1
  <2>3. \A g \in Fds : fds'[g] \in {fds[g], NoConn} BY <1>3
  <2> QED BY <1>0, <1>3, <2>2, <2>3, TakenKnown
<1> HIDE DEF e
<1>6. ASSUME NEW c \in Conns \ loose' PROVE Sound(c)'
  <2>1. /\ OneLife(c, cq', sq, receiving) /\ LastWord(c, cq', sq)
        /\ Behind(c, cq', sq, receiving, fds)
        /\ LifeCqe(cqe, c) => NoLife(c, cq', sq, receiving)
        /\ LifeCqe(cqe, c) \/ DataOf(cqe, c) => fds[cqe.fd] = c
    BY <1>0, <1>3, <1>6, TakenSound
  <2>2. cqe.conn = c => LifeCqe(cqe, c) BY <1>0, <1>1 DEF LifeCqe
  <2>3. ~SendOf(e, c) /\ ~CloseOf(e, c) /\ (LifeSqe(e, c) => cqe.conn = c)
    BY <1>4 DEF SendOf, CloseOf, LifeSqe
  <2>4. /\ OneLife(c, cq', Append(sq, e), receiving) /\ LastWord(c, cq', Append(sq, e))
        /\ Behind(c, cq', Append(sq, e), receiving, fds)
    BY <1>1, <1>2, <1>4, <2>1, <2>2, <2>3, AddSqe
  <2>5. sq' = sq \/ sq' = Append(sq, e) BY <1>3 DEF PutSqe
  <2> QED BY <1>3, <2>1, <2>4, <2>5 DEF Sound
<1> QED BY <1>3, <1>5, <1>6 DEF Apart, StaysOnConnection

\* Answering a request: the stream has not ended, so no close comes before the
\* answer.
LEMMA DataApart == Types /\ Apart /\ HandleRecvData => Apart'
<1> SUFFICES ASSUME Types, Apart, HandleRecvData PROVE Apart'
  OBVIOUS
<1> DEFINE cqe == Head(cq)
<1>0. Take("recv") /\ cqe.res = "data" BY DEF HandleRecvData
<1>1. /\ sq \in Seq(Sqe) /\ cq' \in Seq(Cqe) /\ receiving \in SUBSET Receives
      /\ cqe \in Cqe /\ cqe.op = "recv"
  BY <1>0, Taken
<1>2. cqe.fd \in Fds /\ cqe.conn \in Conns /\ cqe.bid \in Bufs BY <1>0, <1>1, CqeFields
<1>3. UNCHANGED <<fds, conns, receiving, sends, loose, stray>> BY DEF HandleRecvData
<1>4. CASE sq' = sq BY <1>0, <1>3, <1>4, TakeApart
<1>5. ASSUME NEW m \in Message, Reply(cqe, m) PROVE Apart'
  <2> DEFINE e == Send(cqe.fd, cqe.conn, cqe.bid, m, NextPosition)
  <2>1. e \in Sqe BY <1>2, Entries, PositionInt
  <2>2. sq' = PutSqe(sq, e) BY <1>5 DEF Reply
  <2>3. e.op = "send" /\ e.fd = cqe.fd /\ e.conn = cqe.conn BY DEF Send
  <2> HIDE DEF e
  <2>4. Known' /\ FailedAreLoose'
    <3>1. ToSet(sq') \subseteq ToSet(sq) \cup {e} BY <1>1, <2>1, <2>2, PutSet
    <3>2. \A x \in ToSet(sq') : x \in ToSet(sq) \/ x.op = "accept" \/ x.conn = Head(cq).conn
      BY <2>3, <3>1
    <3>3. \A g \in Fds : fds'[g] \in {fds[g], NoConn} BY <1>3
    <3> QED BY <1>0, <1>3, <3>2, <3>3, TakenKnown
  <2>5. ASSUME NEW c \in Conns \ loose' PROVE Sound(c)'
    <3>1. /\ OneLife(c, cq', sq, receiving) /\ LastWord(c, cq', sq)
          /\ Behind(c, cq', sq, receiving, fds)
          /\ DataOf(cqe, c) => NoClose(c, sq) /\ \A i \in DOMAIN cq' : ~AcceptOf(cq'[i], c)
          /\ LifeCqe(cqe, c) \/ DataOf(cqe, c) => fds[cqe.fd] = c
      BY <1>0, <1>3, <2>5, TakenSound
    <3>2. cqe.conn = c => DataOf(cqe, c) BY <1>0, <1>1 DEF DataOf
    <3>3. ~LifeSqe(e, c) /\ ~CloseOf(e, c) /\ (SendOf(e, c) => cqe.conn = c)
      BY <2>3 DEF SendOf, CloseOf, LifeSqe
    <3>4. /\ OneLife(c, cq', Append(sq, e), receiving) /\ LastWord(c, cq', Append(sq, e))
          /\ Behind(c, cq', Append(sq, e), receiving, fds)
      BY <1>1, <2>1, <2>3, <3>1, <3>2, <3>3, AddSqe
    <3>5. sq' = sq \/ sq' = Append(sq, e) BY <2>2 DEF PutSqe
    <3> QED BY <1>3, <3>1, <3>4, <3>5 DEF Sound
  <2> QED BY <1>3, <2>4, <2>5 DEF Apart, StaysOnConnection
<1>6. content[cqe.bid] \in Message /\ ReplyTo(content[cqe.bid]) \in Message
  <2>1. content \in [Bufs -> Message] BY DEF Types, TypeOK
  <2> QED BY <1>2, <2>1, ServerBounds DEF Message, ReplyTo
<1>7. \/ sq' = sq \/ Reply(cqe, content[cqe.bid]) \/ Reply(cqe, ReplyTo(content[cqe.bid]))
  BY DEF HandleRecvData, Put
<1> QED BY <1>4, <1>5, <1>6, <1>7

\* Taking an entry.  It finds its own connection unless that is loose.
LEMMA TakeSqeApart == Types /\ Types' /\ Apart /\ TakeSqe => Apart'
<1> SUFFICES ASSUME Types, Types', Apart, TakeSqe PROVE Apart'
  OBVIOUS
<1> DEFINE e == Head(sq)
           d == e.conn
           b == fds[e.fd]
           hit == IF e.op = "accept" THEN {} ELSE Hit(e.fd, d)
<1>1. sq \in Seq(Sqe) /\ sq # << >> /\ sq' = Tail(sq) /\ cq \in Seq(Cqe) /\ receiving \in SUBSET Receives
  BY DEF Types, TakeSqe
<1>2. e \in Sqe /\ sq' \in Seq(Sqe) /\ ToSet(sq) = ToSet(sq') \cup {e} BY <1>1, TailElements, TailSet
<1>3. /\ e.op \in {"accept", "recv", "close", "send"}
      /\ e.op # "accept" => e.fd \in Fds /\ d \in Conns
  BY <1>2, SqeFields
<1>4. fds \in [Fds -> Conns \cup {NoConn}] /\ conns \in Nat BY ServerBounds DEF Types, TypeOK
<1>5. /\ stray' = IF hit = {} THEN stray ELSE stray \cup {d}
      /\ loose' = loose \cup hit \cup IF e.op = "send" /\ ~(b # NoConn) THEN {d} ELSE {}
      /\ conns' = conns
  BY DEF TakeSqe
<1>6. d \notin loose /\ e.op # "accept" => b = d /\ b # NoConn /\ hit = {}
  <2> SUFFICES ASSUME d \notin loose, e.op # "accept" PROVE b = d /\ b # NoConn /\ hit = {}
    OBVIOUS
  <2>1. d \in Conns \ loose BY <1>3
  <2>2. Behind(d, cq, sq, receiving, fds) BY <2>1 DEF Apart, Sound
  <2>3. b = d BY <1>1, <2>2, DropSqe
  <2> QED BY <1>3, <2>3 DEF Hit, Conns, NoConn
<1>7. StaysOnConnection'
  <2>1. hit # {} => d \in loose BY <1>6
  <2> QED BY <1>5, <2>1 DEF Apart, StaysOnConnection
<1>8. ASSUME NEW c \in Conns \ loose'
      PROVE  /\ c \in Conns \ loose /\ c \notin hit
             /\ OneLife(c, cq, sq', receiving) /\ LastWord(c, cq, sq')
             /\ Behind(c, cq, sq', receiving, fds)
             /\ LifeSqe(e, c) => NoLife(c, cq, sq', receiving)
             /\ CloseOf(e, c) => NoData(c, cq) /\ NoSend(c, sq')
             /\ e.op # "accept" /\ d = c => b = c
  <2>1. c \in Conns \ loose /\ c \notin hit BY <1>5
  <2>2. OneLife(c, cq, sq, receiving) /\ LastWord(c, cq, sq) /\ Behind(c, cq, sq, receiving, fds)
    BY <2>1 DEF Apart, Sound
  <2> QED BY <1>1, <2>1, <2>2, DropSqe
<1>9. Known BY DEF Apart
<1>10. CASE UNCHANGED <<cq, fds, receiving>> /\ (sends' = sends \/ (e.op = "send" /\ sends' = sends \cup {e}))
  <2>1. Known' BY <1>2, <1>5, <1>9, <1>10 DEF Known
  <2>2. FailedAreLoose' BY <1>5, <1>10 DEF Apart, FailedAreLoose
  <2>3. ASSUME NEW c \in Conns \ loose' PROVE Sound(c)' BY <1>8, <1>10 DEF Sound
  <2> QED BY <1>7, <2>1, <2>2, <2>3 DEF Apart
<1>11. CASE /\ e.op # "accept" /\ b = NoConn /\ Post(Done(e, "end"))
            /\ UNCHANGED <<fds, receiving, sends>>
  <2> DEFINE p == Done(e, "end")
  <2>1. p \in Cqe /\ p.op = e.op /\ p.conn = d /\ p.res = "end" BY <1>2, <1>11, Completions
  <2>2. cq' = Append(cq, p) /\ ToSet(cq') = ToSet(cq) \cup {p} BY <1>11, <2>1, PostTypes, PostSet
  <2>3. d \in loose BY <1>6, <1>11
  <2>4. Known' BY <1>2, <1>5, <1>9, <1>11, <2>1, <2>2 DEF Known
  <2>5. FailedAreLoose' BY <1>5, <2>1, <2>2, <2>3 DEF Apart, FailedAreLoose
  <2> HIDE DEF p
  <2>6. ASSUME NEW c \in Conns \ loose' PROVE Sound(c)'
    <3>1. p.conn # c BY <1>8, <2>1, <2>3, <2>6
    <3>2. ~LifeCqe(p, c) /\ ~AcceptOf(p, c) /\ ~DataOf(p, c) BY <3>1 DEF LifeCqe, AcceptOf, DataOf
    <3>3. /\ OneLife(c, cq', sq', receiving) /\ LastWord(c, cq', sq')
          /\ Behind(c, cq', sq', receiving, fds)
      BY <1>1, <1>8, <2>1, <2>2, <2>6, <3>2, AddCqe
    <3> QED BY <1>11, <3>3 DEF Sound
  <2> QED BY <1>7, <2>4, <2>5, <2>6 DEF Apart
<1>12. CASE /\ e.op = "recv" /\ b # NoConn /\ receiving' = receiving \cup {Receive(e, b)}
            /\ UNCHANGED <<cq, fds, sends>>
  <2> DEFINE r == Receive(e, b)
  <2>1. r.conn = b /\ r.fd = e.fd BY DEF Receive
  <2>2. Known'
    <3>1. b <= conns BY <1>3, <1>9, <1>12 DEF Known
    <3> QED BY <1>2, <1>5, <1>9, <1>12, <2>1, <3>1 DEF Known
  <2>3. FailedAreLoose' BY <1>5, <1>12 DEF Apart, FailedAreLoose
  <2> HIDE DEF r
  <2>4. ASSUME NEW c \in Conns \ loose' PROVE Sound(c)'
    <3>1. b = c => d = c BY <1>8, <1>12, <2>4 DEF Hit
    <3>2. d = c => LifeSqe(e, c) BY <1>12 DEF LifeSqe
    <3>3. receiving' = receiving \cup {r} BY <1>12 DEF r
    <3>4. /\ OneLife(c, cq, sq', receiving')
          /\ Behind(c, cq, sq', receiving', fds)
      BY <1>8, <2>1, <2>4, <3>1, <3>2, <3>3, Receiving
    <3> QED BY <1>8, <1>12, <2>4, <3>4 DEF Sound
  <2> QED BY <1>7, <2>2, <2>3, <2>4 DEF Apart
<1>13. CASE /\ e.op = "close" /\ b # NoConn /\ fds' = [fds EXCEPT ![e.fd] = NoConn]
            /\ Post(Done(e, "ok")) /\ UNCHANGED <<receiving, sends>>
  <2> DEFINE p == Done(e, "ok")
  <2>1. p \in Cqe /\ p.op = "close" /\ p.conn = d BY <1>2, <1>13, Completions
  <2>2. cq' = Append(cq, p) /\ ToSet(cq') = ToSet(cq) \cup {p} /\ cq' \in Seq(Cqe)
    BY <1>13, <2>1, PostTypes, PostSet
  <2>3. Known'
    <3>1. d <= conns BY <1>2, <1>9, <1>13 DEF Known
    <3>2. \A g \in Fds : fds'[g] \in {fds[g], NoConn} BY <1>3, <1>4, <1>13
    <3>3. \A g \in Fds : fds'[g] <= conns BY <1>4, <1>9, <3>2 DEF Known, NoConn
    <3> QED BY <1>2, <1>5, <1>9, <1>13, <2>1, <2>2, <3>1, <3>3 DEF Known
  <2>4. FailedAreLoose' BY <1>5, <2>1, <2>2 DEF Apart, FailedAreLoose
  <2> HIDE DEF p
  <2>5. ASSUME NEW c \in Conns \ loose' PROVE Sound(c)'
    <3>1. ~LifeCqe(p, c) /\ ~AcceptOf(p, c) /\ ~DataOf(p, c)
      BY <2>1 DEF LifeCqe, AcceptOf, DataOf
    <3>2. Behind(c, cq, sq', receiving, fds')
      <4>1. CASE c = d
        <5>1. LifeSqe(e, c) /\ CloseOf(e, c) BY <1>13, <4>1 DEF LifeSqe, CloseOf
        <5>2. NoLife(c, cq, sq', receiving) /\ NoData(c, cq) /\ NoSend(c, sq') BY <1>8, <2>5, <5>1
        <5> QED BY <1>1, <1>2, <1>8, <2>5, <5>2, Rewired
      <4>2. CASE c # d
        <5>1. c \notin Hit(e.fd, d) BY <1>8, <1>13, <2>5
        <5>2. \A g \in Fds : fds[g] = c => fds'[g] = c BY <1>3, <1>13, <2>5, <4>2, <5>1, OthersKeep
        <5> QED BY <1>1, <1>2, <1>8, <2>5, <5>2, Rewired
      <4> QED BY <4>1, <4>2
    <3>3. /\ OneLife(c, cq', sq', receiving) /\ LastWord(c, cq', sq')
          /\ Behind(c, cq', sq', receiving, fds')
      BY <1>1, <1>8, <2>1, <2>2, <2>5, <3>1, <3>2, AddCqe
    <3> QED BY <1>13, <3>3 DEF Sound
  <2> QED BY <1>7, <2>3, <2>4, <2>5 DEF Apart
<1> QED BY <1>10, <1>11, <1>12, <1>13 DEF TakeSqe

\* A new connection has a name nobody has used.
LEMMA ConnectApart == Types /\ Apart /\ Connect => Apart'
<1> SUFFICES ASSUME Types, Apart, Connect PROVE Apart'
  OBVIOUS
<1> DEFINE n == conns + 1
<1>1. PICK f \in Fds, more \in BOOLEAN :
        /\ fds[f] = NoConn /\ fds' = [fds EXCEPT ![f] = n]
        /\ Post([op |-> "accept", fd |-> f, conn |-> n, more |-> more])
  BY DEF Connect
<1> DEFINE a == [op |-> "accept", fd |-> f, conn |-> n, more |-> more]
<1>2. conns \in Nat /\ n \in Conns /\ conns' = n BY ServerBounds DEF Connect, Types, TypeOK, Conns
<1>3. a \in Cqe BY <1>2 DEF Cqe
<1>4. cq' = Append(cq, a) /\ ToSet(cq') = ToSet(cq) \cup {a} /\ cq' \in Seq(Cqe)
  BY <1>1, <1>3, PostTypes, PostSet
<1>5. UNCHANGED <<sq, receiving, sends, loose, stray>> BY DEF Connect, history
<1>6. a.op = "accept" /\ a.fd = f /\ a.conn = n OBVIOUS
<1>7. sq \in Seq(Sqe) /\ cq \in Seq(Cqe) /\ receiving \in SUBSET Receives BY DEF Types
<1>8. fds \in [Fds -> Conns \cup {NoConn}] BY DEF Types, TypeOK
<1>9. /\ \A e \in ToSet(sq) : e \in Sqe /\ (e.op # "accept" => e.conn \in Int)
      /\ \A e \in ToSet(cq) : e \in Cqe /\ e.conn \in Int
      /\ \A r \in receiving : r.conn \in Int
      /\ \A s \in sends : s.conn \in Int
  <2>1. ToSet(sq) \subseteq Sqe /\ ToSet(cq) \subseteq Cqe BY SetTypes
  <2>2. \A s \in sends : s \in Sqe /\ s.op = "send" BY DEF Types
  <2>3. \A r \in receiving : r.conn \in Conns BY DEF Types, Receives
  <2>4. Conns \cup {NoConn} \subseteq Int BY DEF Conns, NoConn
  <2> QED BY <2>1, <2>2, <2>3, <2>4, SqeFields, CqeFields
<1> HIDE DEF a, n
<1>10. conns < n /\ n \in Int /\ conns \in Int BY <1>2 DEF n
<1>11. Known BY DEF Apart
<1>12. Known'
  <2>1. \A g \in Fds : fds'[g] <= n
    <3>1. \A g \in Fds : fds[g] \in Int BY <1>8 DEF Conns, NoConn
    <3>2. \A g \in Fds : fds'[g] \in {fds[g], n} BY <1>1, <1>8
    <3> QED BY <1>10, <1>11, <3>1, <3>2 DEF Known
  <2>2. \A e \in ToSet(sq) : e.op # "accept" => e.conn <= n BY <1>9, <1>10, <1>11 DEF Known
  <2>3. \A e \in ToSet(cq') : e.conn <= n BY <1>4, <1>6, <1>9, <1>10, <1>11 DEF Known
  <2>4. (\A r \in receiving : r.conn <= n) /\ (\A s \in sends : s.conn <= n)
    BY <1>9, <1>10, <1>11 DEF Known
  <2> QED BY <1>2, <1>5, <2>1, <2>2, <2>3, <2>4 DEF Known
<1>13. FailedAreLoose' BY <1>4, <1>5, <1>6 DEF Apart, FailedAreLoose
<1>14. ASSUME NEW c \in Conns \ loose' PROVE Sound(c)'
  <2>1. OneLife(c, cq, sq, receiving) /\ LastWord(c, cq, sq) /\ Behind(c, cq, sq, receiving, fds)
    BY <1>5, <1>14 DEF Apart, Sound
  <2>2. c # NoConn BY <1>14 DEF Conns, NoConn
  <2>3. \A g \in Fds : fds[g] = c => fds'[g] = c BY <1>1, <1>8, <2>2
  <2>4. Behind(c, cq, sq, receiving, fds') BY <1>7, <1>14, <2>1, <2>3, Rewired
  <2>5. CASE c # n
    <3>1. ~LifeCqe(a, c) /\ ~AcceptOf(a, c) /\ ~DataOf(a, c) BY <1>6, <2>5 DEF LifeCqe, AcceptOf, DataOf
    <3>2. /\ OneLife(c, cq', sq, receiving) /\ LastWord(c, cq', sq)
          /\ Behind(c, cq', sq, receiving, fds')
      BY <1>3, <1>4, <1>7, <2>1, <2>4, <3>1, AddCqe
    <3> QED BY <1>5, <3>2 DEF Sound
  <2>6. CASE c = n
    <3>1. /\ \A i \in DOMAIN sq : sq[i] \in ToSet(sq)
          /\ \A i \in DOMAIN cq : cq[i] \in ToSet(cq)
      BY <1>7, SeqSet
    <3>2. /\ \A e \in ToSet(sq) : e.op # "accept" => e.conn # c
          /\ \A e \in ToSet(cq) : e.conn # c
          /\ \A r \in receiving : r.conn # c
      BY <1>9, <1>10, <1>11, <2>6 DEF Known
    <3>3. NoLife(c, cq, sq, receiving) /\ NoData(c, cq) /\ NoSend(c, sq)
      BY <3>1, <3>2 DEF NoLife, NoData, NoSend, LifeCqe, LifeSqe, DataOf, SendOf
    <3>4. AcceptOf(a, c) /\ fds'[a.fd] = c BY <1>1, <1>6, <1>8, <2>6 DEF AcceptOf
    <3>5. /\ OneLife(c, cq', sq, receiving) /\ LastWord(c, cq', sq)
          /\ Behind(c, cq', sq, receiving, fds')
      BY <1>3, <1>4, <1>7, <2>1, <2>4, <3>3, <3>4, AddCqe
    <3> QED BY <1>5, <3>5 DEF Sound
  <2> QED BY <2>5, <2>6
<1> QED BY <1>5, <1>12, <1>13, <1>14 DEF Apart, StaysOnConnection

\* A completion that says nothing about a connection's life.
LEMMA PostApart ==
  ASSUME Types, Apart, NEW e \in Cqe, Post(e), e.conn <= conns, loose \subseteq loose',
         e.op = "send" /\ e.res # "ok" => e.conn \in loose',
         e.op \notin {"accept", "recv"} \/ e.conn = NoConn,
         sends' \subseteq sends, UNCHANGED <<sq, fds, conns, receiving, stray>>
  PROVE  Apart'
<1>1. cq' = Append(cq, e) /\ ToSet(cq') = ToSet(cq) \cup {e} BY PostTypes, PostSet
<1>2. cq \in Seq(Cqe) BY DEF Types
<1>3. Known' BY <1>1 DEF Apart, Known
<1>4. FailedAreLoose' BY <1>1 DEF Apart, FailedAreLoose
<1>5. ASSUME NEW c \in Conns \ loose' PROVE Sound(c)'
  <2>1. OneLife(c, cq, sq, receiving) /\ LastWord(c, cq, sq) /\ Behind(c, cq, sq, receiving, fds)
    BY <1>5 DEF Apart, Sound
  <2>2. c # NoConn BY <1>5 DEF Conns, NoConn
  <2>3. ~LifeCqe(e, c) /\ ~AcceptOf(e, c) /\ ~DataOf(e, c) BY <2>2 DEF LifeCqe, AcceptOf, DataOf
  <2>4. OneLife(c, cq', sq, receiving) /\ LastWord(c, cq', sq) /\ Behind(c, cq', sq, receiving, fds)
    BY <1>1, <1>2, <2>1, <2>3, AddCqe
  <2> QED BY <2>4 DEF Sound
<1> QED BY <1>3, <1>4, <1>5 DEF Apart, StaysOnConnection

\* A completion of a receive that the kernel holds.
LEMMA ReceivedApart ==
  ASSUME Types, Apart, NEW r \in receiving, NEW e \in Cqe, Post(e),
         e.op = "recv", e.fd = r.fd, e.conn = r.conn,
         \/ e.res = "data" /\ receiving' = receiving
         \/ receiving' = receiving \ {r},
         UNCHANGED <<sq, fds, conns, sends, loose, stray>>
  PROVE  Apart'
<1>1. cq' = Append(cq, e) /\ ToSet(cq') = ToSet(cq) \cup {e} BY PostTypes, PostSet
<1>2. cq \in Seq(Cqe) BY DEF Types
<1>3. Known' BY <1>1 DEF Apart, Known
<1>4. FailedAreLoose' BY <1>1 DEF Apart, FailedAreLoose
<1>5. ASSUME NEW c \in Conns \ loose' PROVE Sound(c)'
  <2> DEFINE R == receiving \ {r}
  <2>1. OneLife(c, cq, sq, receiving) /\ LastWord(c, cq, sq) /\ Behind(c, cq, sq, receiving, fds)
    BY <1>5 DEF Apart, Sound
  <2>2. /\ OneLife(c, cq, sq, R) /\ Behind(c, cq, sq, R, fds)
        /\ r.conn = c => NoLife(c, cq, sq, R)
    BY <2>1, Receiving
  <2>3. r.conn = c => fds[e.fd] = c BY <2>1 DEF Behind
  <2>4. LifeCqe(e, c) \/ AcceptOf(e, c) \/ DataOf(e, c) => r.conn = c BY DEF LifeCqe, AcceptOf, DataOf
  <2>5. ~AcceptOf(e, c) BY DEF AcceptOf
  <2>6. LastWord(c, cq', sq)
    <3>1. CASE DataOf(e, c)
      <4>1. NoLife(c, cq, sq, R) BY <2>2, <2>4, <3>1
      <4> QED BY <1>1, <1>2, <2>1, <3>1, <4>1, AddCqe
    <3>2. CASE ~DataOf(e, c) BY <1>1, <1>2, <2>1, <2>5, <3>2, AddCqe
    <3> QED BY <3>1, <3>2
  <2>7. CASE e.res = "data" /\ receiving' = receiving
    <3>1. ~LifeCqe(e, c) BY <2>7 DEF LifeCqe
    <3>2. OneLife(c, cq', sq, receiving) /\ Behind(c, cq', sq, receiving, fds)
      BY <1>1, <1>2, <2>1, <2>3, <2>4, <3>1, AddCqe
    <3> QED BY <2>6, <2>7, <3>2 DEF Sound
  <2>8. CASE receiving' = R
    <3>1. OneLife(c, cq', sq, R) BY <1>1, <1>2, <2>2, <2>4, AddCqe
    <3>2. Behind(c, cq', sq, R, fds) BY <1>1, <1>2, <2>2, <2>3, <2>4, AddCqe
    <3> QED BY <2>6, <2>8, <3>1, <3>2 DEF Sound
  <2> QED BY <2>7, <2>8
<1> QED BY <1>3, <1>4, <1>5 DEF Apart, StaysOnConnection

\* The steps of the kernel on its receives.
LEMMA ReceiveApart ==
  ASSUME Types, Apart, NEW r \in receiving, Request(r) \/ NoBufs(r) \/ Disconnect(r)
  PROVE  Apart'
<1>1. r \in Receives BY DEF Types
<1>2. CASE Request(r)
  <2>1. PICK b \in Bufs, more \in BOOLEAN :
          /\ receiving' = IF more THEN receiving ELSE receiving \ {r}
          /\ Post([op |-> "recv", fd |-> r.fd, conn |-> r.conn, res |-> "data",
                   more |-> more, bid |-> b, data |-> msgs'])
    BY <1>2 DEF Request
  <2> DEFINE e == [op |-> "recv", fd |-> r.fd, conn |-> r.conn, res |-> "data",
                   more |-> more, bid |-> b, data |-> msgs']
  <2>2. msgs' \in Message BY <1>2, ServerBounds DEF Request, Types, TypeOK, Message
  <2>3. e \in Cqe BY <1>1, <2>2 DEF Receives, Cqe
  <2>4. UNCHANGED <<sq, fds, conns, sends, loose, stray>> BY <1>2 DEF Request
  <2>5. e.op = "recv" /\ e.fd = r.fd /\ e.conn = r.conn /\ e.res = "data" /\ Post(e) BY <2>1
  <2>6. (e.res = "data" /\ receiving' = receiving) \/ receiving' = receiving \ {r} BY <2>1
  <2> HIDE DEF e
  <2> QED BY <2>3, <2>4, <2>5, <2>6, ReceivedApart
<1>3. CASE NoBufs(r) \/ Disconnect(r)
  <2>1. PICK res \in {"nobufs", "end"} : Post(Done(r, res)) BY <1>3 DEF NoBufs, Disconnect
  <2>2. /\ Done(r, res) \in Cqe /\ Done(r, res).fd = r.fd /\ Done(r, res).conn = r.conn
        /\ Done(r, res).op = "recv"
    BY <1>1, Completions DEF Receives
  <2>3. receiving' = receiving \ {r} /\ UNCHANGED <<sq, fds, conns, sends, loose, stray>>
    BY <1>3 DEF NoBufs, Disconnect, history
  <2> QED BY <2>1, <2>2, <2>3, ReceivedApart
<1> QED BY <1>2, <1>3

\* Every step keeps the connections apart.
LEMMA StepApart == Types /\ Types' /\ Apart /\ [Next]_vars => Apart'
<1> SUFFICES ASSUME Types, Types', Apart, [Next]_vars PROVE Apart'
  OBVIOUS
<1>1. CASE EnterReturns \/ EnterFails \/ CqesDone \/ Flush \/ NeighbourPops \/ UNCHANGED vars
  <2>1. UNCHANGED <<cq, sq, fds, conns, receiving, sends, loose, stray>>
    BY <1>1 DEF EnterReturns, EnterFails, CqesDone, Flush, NeighbourPops, vars, kernel, history
  <2> QED BY <2>1 DEF Apart, Known, Sound, FailedAreLoose, StaysOnConnection
<1>2. CASE ConnectFails
  <2> DEFINE a == [op |-> "accept", fd |-> NoFd, conn |-> NoConn, more |-> FALSE]
  <2>1. a \in Cqe /\ a.conn = NoConn /\ a.op = "accept" BY DEF Cqe
  <2>2. Post(a) /\ UNCHANGED <<sq, fds, conns, receiving, sends, loose, stray>>
    BY <1>2 DEF ConnectFails, history
  <2>3. a.conn <= conns BY <2>1, ServerBounds DEF Types, TypeOK, NoConn
  <2> HIDE DEF a
  <2> QED BY <2>1, <2>2, <2>3, PostApart
<1>3. CASE \E s \in sends : SendDone(s)
  <2>1. PICK s \in sends : SendDone(s) BY <1>3
  <2>2. s \in Sqe /\ s.op = "send" /\ s.conn <= conns BY DEF Types, Apart, Known
  <2>3. PICK res \in {"ok", "end"} :
          Post(Done(s, res)) /\ loose' = IF res = "ok" THEN loose ELSE loose \cup {s.conn}
    BY <2>1 DEF SendDone
  <2>4. /\ Done(s, res) \in Cqe /\ Done(s, res).op = "send" /\ Done(s, res).conn = s.conn
        /\ Done(s, res).res = res
    BY <2>2, Completions
  <2>5. sends' \subseteq sends /\ UNCHANGED <<sq, fds, conns, receiving, stray>> BY <2>1 DEF SendDone
  <2> QED BY <2>2, <2>3, <2>4, <2>5, PostApart
<1>4. CASE Worker
  BY <1>1, <1>4, AcceptApart, NoBufsApart, ClosesApart, DataApart DEF Worker
<1>5. CASE Environment
  BY <1>1, <1>2, <1>3, <1>5, TakeSqeApart, ConnectApart, ReceiveApart DEF Environment
<1> QED BY <1>1, <1>4, <1>5 DEF Next

\* What is prepared for a connection acts on that connection or on none, for any
\* number of descriptors, connections and ring entries, unless the connection
\* had a failed send, was closed past a full ring or was hit by such a one.
THEOREM EntriesStayApart == Spec => []StaysOnConnection
<1>1. Init /\ Types => Apart
  <2> SUFFICES ASSUME Init, Types PROVE Apart
    OBVIOUS
  <2>1. /\ sq = << >> /\ cq = << >> /\ receiving = {} /\ sends = {} /\ stray = {}
        /\ fds = [f \in Fds |-> NoConn] /\ conns = 0
    BY DEF Init
  <2>2. DOMAIN sq = {} /\ DOMAIN cq = {} BY <2>1
  <2>3. ToSet(sq) = {} /\ ToSet(cq) = {} BY <2>2, SeqSet DEF Types
  <2>4. Known /\ FailedAreLoose BY <2>1, <2>3 DEF Known, FailedAreLoose, NoConn
  <2>5. ASSUME NEW c \in Conns PROVE Sound(c)
    BY <2>1, <2>2 DEF Sound, OneLife, LastWord, Behind
  <2> QED BY <2>1, <2>4, <2>5 DEF Apart, StaysOnConnection
<1>2. Apart => StaysOnConnection BY DEF Apart
<1> QED BY <1>1, <1>2, StepApart, ServerTypes, PTL DEF Spec

-----------------------------------------------------------------------------
(* The arithmetic of positions *)

\* Multiples of m: none lies strictly between -m and m but zero.
LEMMA Multiple ==
  ASSUME NEW m \in Nat \ {0}, NEW k \in Int
  PROVE  /\ m * k \in Int
         /\ k >= 1 => m * k >= m
         /\ k <= -1 => m * k <= -m
         /\ k = 0 => m * k = 0
<1>1. k <= -1 => m * (-k) >= m OBVIOUS
<1>2. m * (-k) = -(m * k) OBVIOUS
<1> QED BY <1>1, <1>2

\* A number is so many times m and its remainder.
LEMMA Remainder ==
  ASSUME NEW m \in Nat \ {0}, NEW x \in Int
  PROVE  (x % m) \in 0 .. m - 1 /\ \E k \in Int : x = m * k + (x % m)
<1>1. x \div m \in Int /\ x = m * (x \div m) + (x % m) /\ (x % m) \in 0 .. m - 1 OBVIOUS
<1> QED BY <1>1

\* The remainder is the only one.
LEMMA RemainderUnique ==
  ASSUME NEW m \in Nat \ {0}, NEW x \in Int, NEW a \in Int, NEW r \in 0 .. m - 1, x = m * a + r
  PROVE  (x % m) = r
<1>1. PICK k \in Int : x = m * k + (x % m) BY Remainder
<1>2. (x % m) \in 0 .. m - 1 BY Remainder
<1>3. m * (a - k) = m * a - m * k OBVIOUS
<1>4. m * a \in Int /\ m * k \in Int BY Multiple
<1>5. m * (a - k) = (x % m) - r BY <1>1, <1>2, <1>3, <1>4
<1>6. a - k \in Int OBVIOUS
<1>7. CASE a - k >= 1
  <2>1. m * (a - k) >= m BY <1>6, <1>7, Multiple
  <2> QED BY <1>2, <1>5, <2>1
<1>8. CASE a - k <= -1
  <2>1. m * (a - k) <= -m BY <1>6, <1>8, Multiple
  <2> QED BY <1>2, <1>5, <2>1
<1>9. CASE a - k = 0
  <2>1. m * (a - k) = 0 BY <1>6, <1>9, Multiple
  <2> QED BY <1>2, <1>5, <2>1
<1> QED BY <1>6, <1>7, <1>8, <1>9

\* Two numbers less than m apart have different remainders.
LEMMA RemaindersDiffer ==
  ASSUME NEW m \in Nat \ {0}, NEW x \in Int, NEW y \in Int, x < y, y < x + m
  PROVE  (x % m) # (y % m)
<1> SUFFICES ASSUME (x % m) = (y % m) PROVE FALSE
  OBVIOUS
<1>1. PICK a \in Int : x = m * a + (x % m) BY Remainder
<1>2. PICK b \in Int : y = m * b + (y % m) BY Remainder
<1>3. (x % m) \in 0 .. m - 1 BY Remainder
<1>4. m * (b - a) = m * b - m * a OBVIOUS
<1>5. m * a \in Int /\ m * b \in Int BY Multiple
<1>6. m * (b - a) = y - x BY <1>1, <1>2, <1>3, <1>4, <1>5
<1>7. b - a \in Int OBVIOUS
<1>8. CASE b - a >= 1
  <2>1. m * (b - a) >= m BY <1>7, <1>8, Multiple
  <2> QED BY <1>6, <2>1
<1>9. CASE b - a <= -1
  <2>1. m * (b - a) <= -m BY <1>7, <1>9, Multiple
  <2> QED BY <1>6, <2>1
<1>10. CASE b - a = 0
  <2>1. m * (b - a) = 0 BY <1>7, <1>10, Multiple
  <2> QED BY <1>6, <2>1
<1> QED BY <1>7, <1>8, <1>9, <1>10

\* The remainder does not change by m.
LEMMA RemainderShift ==
  ASSUME NEW m \in Nat \ {0}, NEW x \in Int
  PROVE  (x - m) % m = (x % m)
<1>1. PICK k \in Int : x = m * k + (x % m) BY Remainder
<1>2. (x % m) \in 0 .. m - 1 /\ m * k \in Int BY Remainder, Multiple
<1>3. m * (k - 1) = m * k - m OBVIOUS
<1>4. x - m = m * (k - 1) + (x % m) BY <1>1, <1>2, <1>3
<1>5. k - 1 \in Int /\ x - m \in Int OBVIOUS
<1> QED BY <1>2, <1>4, <1>5, RemainderUnique

\* Counting modulo m.
LEMMA RemainderNext ==
  ASSUME NEW m \in Nat \ {0}, NEW x \in Int
  PROVE  ((x % m) + 1) % m = (x + 1) % m
<1>1. PICK k \in Int : x = m * k + (x % m) BY Remainder
<1>2. (x % m) \in 0 .. m - 1 /\ m * k \in Int BY Remainder, Multiple
<1>3. CASE (x % m) + 1 < m
  <2>1. (x % m) + 1 \in 0 .. m - 1 BY <1>2, <1>3
  <2>2. x + 1 = m * k + ((x % m) + 1) BY <1>1, <1>2
  <2>3. (x % m) + 1 = m * 0 + ((x % m) + 1) BY <1>2
  <2>0. x + 1 \in Int OBVIOUS
  <2>4. (x + 1) % m = (x % m) + 1 BY <2>0, <2>1, <2>2, RemainderUnique
  <2>5. ((x % m) + 1) % m = (x % m) + 1 BY <1>2, <2>1, <2>3, RemainderUnique
  <2> QED BY <2>4, <2>5
<1>4. CASE ~((x % m) + 1 < m)
  <2>1. (x % m) + 1 = m BY <1>2, <1>4
  <2>2. m * (k + 1) = m * k + m OBVIOUS
  <2>3. x + 1 = m * (k + 1) + 0
    <3>1. x = m * k + (m - 1) BY <1>1, <1>2, <2>1
    <3> QED BY <1>2, <2>2, <3>1
  <2>4. m = m * 1 + 0 /\ 0 \in 0 .. m - 1 /\ k + 1 \in Int OBVIOUS
  <2>0. x + 1 \in Int OBVIOUS
  <2>5. (x + 1) % m = 0 BY <2>0, <2>3, <2>4, RemainderUnique
  <2>6. m % m = 0 BY <2>4, RemainderUnique
  <2> QED BY <2>1, <2>5, <2>6
<1> QED BY <1>3, <1>4

\* A position and what the 16-bit counter holds of it name the same entry.
LEMMA IdxOfTail ==
  ASSUME NEW x \in Int
  PROVE  Idx(x % TailMod) = Idx(x)
<1>1. BufEntries \in Nat \ {0} /\ TailMod \in Nat \ {0} /\ TailMod % BufEntries = 0
  BY BufEntriesAssumption, TailModAssumption
<1> DEFINE B == BufEntries
           M == TailMod
<1>2. PICK t \in Int : M = B * t
  <2>0. M \in Int BY <1>1
  <2>1. PICK t \in Int : M = B * t + (M % B) BY <1>1, <2>0, Remainder
  <2>2. B * t \in Int BY <1>1, Multiple
  <2> QED BY <1>1, <2>1, <2>2
<1>3. PICK k \in Int : x = M * k + (x % M) BY <1>1, Remainder
<1>4. (x % M) \in Int BY <1>1, Remainder
<1>5. PICK j \in Int : (x % M) = B * j + ((x % M) % B) BY <1>1, <1>4, Remainder
<1>6. ((x % M) % B) \in 0 .. B - 1 BY <1>1, <1>4, Remainder
<1>7. M * k = B * (t * k) BY <1>1, <1>2
<1>8. t * k \in Int /\ t * k + j \in Int OBVIOUS
<1>9. B * (t * k + j) = B * (t * k) + B * j BY <1>1, <1>8
<1>10. B * (t * k) \in Int /\ B * j \in Int BY <1>1, <1>8, Multiple
<1>11. x = B * (t * k + j) + ((x % M) % B) BY <1>3, <1>5, <1>6, <1>7, <1>9, <1>10
<1>12. (x % B) = ((x % M) % B) BY <1>1, <1>6, <1>8, <1>11, RemainderUnique
<1> QED BY <1>12 DEF Idx

-----------------------------------------------------------------------------
(* Buffers *)

IsData(e) == e.op = "recv" /\ e.res = "data"

\* The positions of the requests among completions q.
Waiting(q) == {i \in DOMAIN q : IsData(q[i])}

\* There are finitely many.
LEMMA WaitingFinite ==
  ASSUME NEW q \in Seq(Cqe)
  PROVE  IsFiniteSet(Waiting(q)) /\ Cardinality(Waiting(q)) \in Nat
<1>1. DOMAIN q = 1 .. Len(q) /\ Len(q) \in Nat BY LenProperties
<1>2. IsFiniteSet(1 .. Len(q)) BY <1>1, FS_Interval
<1>3. Waiting(q) \in SUBSET (1 .. Len(q)) BY <1>1 DEF Waiting
<1>4. IsFiniteSet(Waiting(q)) BY <1>2, <1>3, FS_Subset
<1> QED BY <1>4, FS_CardinalityType

\* One more when a request is posted.
LEMMA WaitingAppend ==
  ASSUME NEW q \in Seq(Cqe), NEW e \in Cqe
  PROVE  Cardinality(Waiting(Append(q, e))) = Cardinality(Waiting(q)) + IF IsData(e) THEN 1 ELSE 0
<1> DEFINE t == Append(q, e)
           n == Len(q) + 1
<1>1. /\ Len(q) \in Nat /\ DOMAIN q = 1 .. Len(q) /\ DOMAIN t = 1 .. (Len(q) + 1)
      /\ \A i \in 1 .. Len(q) : t[i] = q[i]
      /\ t[Len(q) + 1] = e
  BY AppendElements, LenProperties
<1>2. /\ DOMAIN t = DOMAIN q \cup {n} /\ t[n] = e /\ n \notin DOMAIN q
      /\ \A i \in DOMAIN q : t[i] = q[i]
  BY <1>1
<1> HIDE DEF t, n
<1>3. Waiting(t) = IF IsData(e) THEN Waiting(q) \cup {n} ELSE Waiting(q) BY <1>2 DEF Waiting
<1>4. n \notin Waiting(q) BY <1>2 DEF Waiting
<1>5. IsFiniteSet(Waiting(q)) /\ Cardinality(Waiting(q)) \in Nat BY WaitingFinite
<1>6. Cardinality(Waiting(q) \cup {n}) = Cardinality(Waiting(q)) + 1 BY <1>4, <1>5, FS_AddElement
<1> QED BY <1>3, <1>5, <1>6 DEF t

\* One less when a request is taken.
LEMMA WaitingTail ==
  ASSUME NEW q \in Seq(Cqe), q # << >>
  PROVE  Cardinality(Waiting(Tail(q))) = Cardinality(Waiting(q)) - IF IsData(Head(q)) THEN 1 ELSE 0
<1> DEFINE t == Tail(q)
           S == Waiting(t)
           T == Waiting(q) \ {1}
           g == [i \in S |-> i + 1]
<1>1. /\ t \in Seq(Cqe) /\ Len(q) \in Nat \ {0} /\ DOMAIN q = 1 .. Len(q) /\ DOMAIN t = 1 .. (Len(q) - 1)
      /\ \A i \in 1 .. (Len(q) - 1) : i + 1 \in 1 .. Len(q) /\ t[i] = q[i + 1]
      /\ Head(q) = q[1]
  BY TailElements
<1>2. IsFiniteSet(S) /\ IsFiniteSet(Waiting(q)) /\ Cardinality(Waiting(q)) \in Nat BY <1>1, WaitingFinite
<1> HIDE DEF t
<1>3. S \subseteq Int /\ \A i \in S : i + 1 \in T BY <1>1 DEF Waiting
<1>4. \A j \in T : j - 1 \in S /\ (j - 1) + 1 = j
  <2> SUFFICES ASSUME NEW j \in T PROVE j - 1 \in S /\ (j - 1) + 1 = j
    OBVIOUS
  <2>1. j \in 1 .. Len(q) /\ j # 1 /\ IsData(q[j]) BY <1>1 DEF Waiting
  <2>2. j - 1 \in 1 .. (Len(q) - 1) /\ (j - 1) + 1 = j BY <1>1, <2>1
  <2>3. t[j - 1] = q[j] BY <1>1, <2>2
  <2> QED BY <1>1, <2>1, <2>2, <2>3 DEF Waiting
<1> HIDE DEF S, T
<1>5. g \in Bijection(S, T)
  <2>1. g \in [S -> T] BY <1>3
  <2>2. \A a, b \in S : g[a] = g[b] => a = b BY <1>3
  <2>3. \A j \in T : \E i \in S : g[i] = j BY <1>4
  <2> QED BY <2>1, <2>2, <2>3 DEF Bijection, Injection, Surjection, IsInjective
<1>6. ExistsBijection(S, T) BY <1>5 DEF ExistsBijection
<1>7. Cardinality(T) = Cardinality(S) BY <1>2, <1>6, FS_Bijection
<1>8. Cardinality(Waiting(q) \ {1}) =
        IF 1 \in Waiting(q) THEN Cardinality(Waiting(q)) - 1 ELSE Cardinality(Waiting(q))
  BY <1>2, FS_RemoveElement
<1>9. 1 \in Waiting(q) <=> IsData(Head(q)) BY <1>1 DEF Waiting
<1> QED BY <1>2, <1>7, <1>8, <1>9 DEF S, T, t

\* The requests not handled yet, lo + 1 to hi, wait in order, each in the buffer
\* of its own number.
Pending(q, lo, hi) ==
  /\ \A i \in DOMAIN q : IsData(q[i]) =>
       q[i].data > lo /\ q[i].data <= hi /\ q[i].bid = Idx(q[i].data - 1)
  /\ \A i, j \in DOMAIN q : IsData(q[i]) /\ IsData(q[j]) /\ i < j => q[i].data < q[j].data
  /\ \A d \in Nat : d > lo /\ d <= hi => \E i \in DOMAIN q : IsData(q[i]) /\ q[i].data = d

\* A request has a number.
LEMMA DataInt ==
  ASSUME NEW q \in Seq(Cqe), NEW i \in DOMAIN q, IsData(q[i])
  PROVE  q[i].data \in Nat /\ q[i].bid \in Bufs
<1>1. q[i] \in Cqe BY SeqSet
<1>2. q[i].data \in Message /\ q[i].bid \in Bufs BY <1>1, CqeFields DEF IsData
<1> QED BY <1>2, ServerBounds DEF Message

\* The first request that waits is the next to be handled.
LEMMA PendingTail ==
  ASSUME NEW q \in Seq(Cqe), q # << >>, NEW lo \in Nat, NEW hi \in Nat, Pending(q, lo, hi)
  PROVE  /\ ~IsData(Head(q)) => Pending(Tail(q), lo, hi)
         /\ IsData(Head(q)) => /\ Head(q).data = lo + 1 /\ Head(q).bid = Idx(lo) /\ lo < hi
                               /\ Pending(Tail(q), lo + 1, hi)
<1> DEFINE t == Tail(q)
<1>1. /\ t \in Seq(Cqe) /\ Len(q) \in Nat \ {0} /\ DOMAIN q = 1 .. Len(q) /\ DOMAIN t = 1 .. (Len(q) - 1)
      /\ \A i \in 1 .. (Len(q) - 1) : i + 1 \in 1 .. Len(q) /\ t[i] = q[i + 1]
      /\ Head(q) = q[1]
  BY TailElements
<1>2. 1 \in DOMAIN q /\ \A i \in DOMAIN t : i \in Int /\ i >= 1 /\ i + 1 \in DOMAIN q /\ t[i] = q[i + 1]
  BY <1>1
<1>3. \A i \in DOMAIN q : i = 1 \/ (1 < i /\ i - 1 \in DOMAIN t /\ t[i - 1] = q[i])
  <2> SUFFICES ASSUME NEW i \in DOMAIN q, i # 1 PROVE 1 < i /\ i - 1 \in DOMAIN t /\ t[i - 1] = q[i]
    OBVIOUS
  <2>1. i \in Int /\ 1 < i /\ i <= Len(q) /\ i - 1 \in 1 .. (Len(q) - 1) /\ (i - 1) + 1 = i BY <1>1
  <2> QED BY <1>1, <2>1
<1> HIDE DEF t
<1>4. \A i, j \in DOMAIN t : IsData(t[i]) /\ IsData(t[j]) /\ i < j => t[i].data < t[j].data
  <2> SUFFICES ASSUME NEW i \in DOMAIN t, NEW j \in DOMAIN t, IsData(t[i]), IsData(t[j]), i < j
               PROVE  t[i].data < t[j].data
    OBVIOUS
  <2>1. i + 1 < j + 1 BY <1>2
  <2> QED BY <1>2, <2>1 DEF Pending
<1>5. CASE ~IsData(Head(q))
  <2>1. \A d \in Nat : d > lo /\ d <= hi => \E i \in DOMAIN t : IsData(t[i]) /\ t[i].data = d
    <3> SUFFICES ASSUME NEW d \in Nat, d > lo, d <= hi PROVE \E i \in DOMAIN t : IsData(t[i]) /\ t[i].data = d
      OBVIOUS
    <3>1. PICK i \in DOMAIN q : IsData(q[i]) /\ q[i].data = d BY DEF Pending
    <3>2. i # 1 BY <1>1, <1>5, <3>1
    <3> QED BY <1>3, <3>1, <3>2
  <2>2. Pending(t, lo, hi) BY <1>2, <1>4, <2>1 DEF Pending
  <2> QED BY <1>5, <2>2 DEF t
<1>6. CASE IsData(Head(q))
  <2>1. IsData(q[1]) /\ q[1].data \in Nat BY <1>1, <1>2, <1>6, DataInt
  <2>2. q[1].data > lo /\ q[1].data <= hi /\ q[1].bid = Idx(q[1].data - 1) BY <1>2, <2>1 DEF Pending
  <2>3. lo + 1 \in Nat /\ lo + 1 > lo /\ lo + 1 <= hi /\ lo < hi BY <2>1, <2>2
  <2>4. PICK i \in DOMAIN q : IsData(q[i]) /\ q[i].data = lo + 1 BY <2>3 DEF Pending
  <2>5. q[1].data = lo + 1
    <3>1. CASE i = 1 BY <2>4, <3>1
    <3>2. CASE i # 1
      <4>1. 1 < i BY <1>3, <3>2
      <4>2. q[1].data < lo + 1 BY <1>2, <2>1, <2>4, <4>1 DEF Pending
      <4> QED BY <2>1, <2>2, <4>2
    <3> QED BY <3>1, <3>2
  <2>6. q[1].bid = Idx(lo)
    <3>1. (lo + 1) - 1 = lo OBVIOUS
    <3> QED BY <2>2, <2>5, <3>1
  <2>7. \A k \in DOMAIN t : IsData(t[k]) =>
          t[k].data > lo + 1 /\ t[k].data <= hi /\ t[k].bid = Idx(t[k].data - 1)
    <3> SUFFICES ASSUME NEW k \in DOMAIN t, IsData(t[k])
                 PROVE  t[k].data > lo + 1 /\ t[k].data <= hi /\ t[k].bid = Idx(t[k].data - 1)
      OBVIOUS
    <3>1. k + 1 \in DOMAIN q /\ t[k] = q[k + 1] /\ 1 < k + 1 BY <1>2
    <3>2. q[1].data < q[k + 1].data BY <1>2, <2>1, <3>1 DEF Pending
    <3>3. q[k + 1].data \in Nat BY <3>1, DataInt
    <3>4. q[k + 1].data > lo + 1 BY <2>5, <3>2, <3>3
    <3> QED BY <3>1, <3>4 DEF Pending
  <2>8. \A d \in Nat : d > lo + 1 /\ d <= hi => \E k \in DOMAIN t : IsData(t[k]) /\ t[k].data = d
    <3> SUFFICES ASSUME NEW d \in Nat, d > lo + 1, d <= hi
                 PROVE  \E k \in DOMAIN t : IsData(t[k]) /\ t[k].data = d
      OBVIOUS
    <3>0. d > lo OBVIOUS
    <3>1. PICK k \in DOMAIN q : IsData(q[k]) /\ q[k].data = d BY <3>0 DEF Pending
    <3>2. k # 1 BY <2>5, <3>1
    <3> QED BY <1>3, <3>1, <3>2
  <2>9. Pending(t, lo + 1, hi) BY <1>4, <2>7, <2>8 DEF Pending
  <2> QED BY <1>1, <1>6, <2>3, <2>5, <2>6, <2>9 DEF t
<1> QED BY <1>5, <1>6

\* A completion that is posted comes after those that wait.
LEMMA PendingAppend ==
  ASSUME NEW q \in Seq(Cqe), NEW e \in Cqe, NEW lo \in Nat, NEW hi \in Nat, Pending(q, lo, hi)
  PROVE  /\ ~IsData(e) => Pending(Append(q, e), lo, hi)
         /\ IsData(e) /\ e.data = hi + 1 /\ e.bid = Idx(hi) /\ lo <= hi => Pending(Append(q, e), lo, hi + 1)
<1> DEFINE t == Append(q, e)
           n == Len(q) + 1
<1>1. /\ Len(q) \in Nat /\ DOMAIN q = 1 .. Len(q) /\ DOMAIN t = 1 .. (Len(q) + 1)
      /\ \A i \in 1 .. Len(q) : t[i] = q[i]
      /\ t[Len(q) + 1] = e
  BY AppendElements, LenProperties
<1>2. /\ DOMAIN t = DOMAIN q \cup {n} /\ t[n] = e
      /\ \A i \in DOMAIN q : t[i] = q[i] /\ i < n /\ ~(n < i) /\ ~(n < n)
  BY <1>1
<1> HIDE DEF t, n
<1>3. CASE ~IsData(e)
  <2>1. \A i \in DOMAIN t : IsData(t[i]) => i \in DOMAIN q /\ t[i] = q[i] BY <1>2, <1>3
  <2>2. \A d \in Nat : d > lo /\ d <= hi => \E i \in DOMAIN t : IsData(t[i]) /\ t[i].data = d
    BY <1>2 DEF Pending
  <2>3. Pending(t, lo, hi) BY <2>1, <2>2 DEF Pending
  <2> QED BY <1>3, <2>3 DEF t
<1>4. CASE IsData(e) /\ e.data = hi + 1 /\ e.bid = Idx(hi) /\ lo <= hi
  <2>1. \A i \in DOMAIN t : IsData(t[i]) =>
          t[i].data > lo /\ t[i].data <= hi + 1 /\ t[i].bid = Idx(t[i].data - 1)
    <3> SUFFICES ASSUME NEW i \in DOMAIN t, IsData(t[i])
                 PROVE  t[i].data > lo /\ t[i].data <= hi + 1 /\ t[i].bid = Idx(t[i].data - 1)
      OBVIOUS
    <3>1. CASE i = n
      <4>1. t[i] = e /\ (hi + 1) - 1 = hi /\ hi + 1 > lo /\ hi + 1 <= hi + 1 BY <1>2, <1>4, <3>1
      <4> QED BY <1>4, <4>1
    <3>2. CASE i \in DOMAIN q
      <4>1. t[i] = q[i] /\ q[i].data \in Nat BY <1>2, <3>2, DataInt
      <4>2. q[i].data > lo /\ q[i].data <= hi /\ q[i].bid = Idx(q[i].data - 1) BY <3>2, <4>1 DEF Pending
      <4> QED BY <4>1, <4>2
    <3> QED BY <1>2, <3>1, <3>2
  <2>2. \A i, j \in DOMAIN t : IsData(t[i]) /\ IsData(t[j]) /\ i < j => t[i].data < t[j].data
    <3> SUFFICES ASSUME NEW i \in DOMAIN t, NEW j \in DOMAIN t, IsData(t[i]), IsData(t[j]), i < j
                 PROVE  t[i].data < t[j].data
      OBVIOUS
    <3>1. i \in DOMAIN q /\ t[i] = q[i] BY <1>2
    <3>2. q[i].data \in Nat /\ q[i].data <= hi BY <3>1, DataInt DEF Pending
    <3>3. CASE j = n BY <1>2, <1>4, <3>1, <3>2, <3>3
    <3>4. CASE j \in DOMAIN q BY <1>2, <3>1, <3>4 DEF Pending
    <3> QED BY <1>2, <3>3, <3>4
  <2>3. \A d \in Nat : d > lo /\ d <= hi + 1 => \E i \in DOMAIN t : IsData(t[i]) /\ t[i].data = d
    <3> SUFFICES ASSUME NEW d \in Nat, d > lo, d <= hi + 1
                 PROVE  \E i \in DOMAIN t : IsData(t[i]) /\ t[i].data = d
      OBVIOUS
    <3>1. CASE d = hi + 1 BY <1>2, <1>4, <3>1
    <3>2. CASE d <= hi
      <4>1. PICK i \in DOMAIN q : IsData(q[i]) /\ q[i].data = d BY <3>2 DEF Pending
      <4> QED BY <1>2, <4>1
    <3> QED BY <3>1, <3>2
  <2>4. Pending(t, lo, hi + 1) BY <2>1, <2>2, <2>3 DEF Pending
  <2> QED BY <1>4, <2>4 DEF t
<1> QED BY <1>3, <1>4

\* The number of requests handled so far.
Handled == NextPosition - BufEntries

\* The ring never changes: requests are handled in the order in which the
\* kernel took their buffers, so every buffer goes back to its own place.
Positions ==
  /\ ring = [i \in Bufs |-> i]
  /\ head = msgs % TailMod
  /\ tail = NextPosition % TailMod
  /\ Handled \in Nat
  /\ overrun \/ msgs <= NextPosition

Outgoing == sends \cup {e \in ToSet(sq) : e.op = "send"}

\* A reply was put into the buffer that was then added at its position.
Replies == \A s \in Outgoing : s.at \in Nat /\ s.at < NextPosition /\ s.bid = Idx(s.at)

Buffers ==
  /\ Positions
  /\ Pending(cq, Handled, msgs)
  /\ Replies
  /\ RequestIntact
  /\ ReplyIntact

\* The position at which the next buffer is added, in numbers.
LEMMA PositionValue ==
  ASSUME Types
  PROVE  /\ NextPosition = BufEntries + msgs - Cardinality(Waiting(cq))
         /\ Cardinality(Waiting(cq)) \in Nat /\ NextPosition \in Int
         /\ NextPosition = BufEntries + Handled /\ Handled <= msgs /\ Handled \in Int
         /\ msgs \in Nat /\ BufEntries \in Nat \ {0} /\ TailMod \in Nat \ {0}
<1>1. NextPosition = BufEntries + msgs - Cardinality(Waiting(cq)) BY DEF NextPosition, Waiting, IsData
<1>2. Cardinality(Waiting(cq)) \in Nat BY WaitingFinite DEF Types
<1>3. msgs \in Nat BY ServerBounds DEF Types, TypeOK
<1>4. BufEntries \in Nat \ {0} BY BufEntriesAssumption
<1>5. TailMod \in Nat \ {0} BY <1>4, TailModAssumption
<1>6. Handled = NextPosition - BufEntries BY DEF Handled
<1> HIDE DEF Handled
<1> QED BY <1>1, <1>2, <1>3, <1>4, <1>5, <1>6

\* The same after a step.
LEMMA PositionValueNext ==
  ASSUME Types'
  PROVE  /\ NextPosition' = BufEntries + msgs' - Cardinality(Waiting(cq'))
         /\ Cardinality(Waiting(cq')) \in Nat /\ NextPosition' \in Int
         /\ Handled' = NextPosition' - BufEntries
<1>1. NextPosition' = BufEntries + msgs' - Cardinality(Waiting(cq')) BY DEF NextPosition, Waiting, IsData
<1>2. Cardinality(Waiting(cq')) \in Nat BY WaitingFinite DEF Types
<1>3. msgs' \in Nat BY ServerBounds DEF Types, TypeOK
<1>4. BufEntries \in Nat \ {0} BY BufEntriesAssumption
<1>5. Handled' = NextPosition' - BufEntries BY DEF Handled
<1> QED BY <1>1, <1>2, <1>3, <1>4, <1>5

\* RequestIntact in terms of IsData.
LEMMA IntactByData ==
  /\ RequestIntact <=> \A i \in DOMAIN cq : IsData(cq[i]) => content[cq[i].bid] = cq[i].data \/ overrun
  /\ RequestIntact' <=>
       \A i \in DOMAIN cq' : IsData(cq'[i]) => content'[cq'[i].bid] = cq'[i].data \/ overrun'
  BY DEF RequestIntact, IsData

\* A step that handles and receives no request and prepares no reply.
LEMMA NeutralBuffers ==
  ASSUME Types, Types', Buffers,
         UNCHANGED <<ring, head, tail, content, msgs, overrun>>,
         \/ cq' = cq
         \/ cq # << >> /\ ~IsData(Head(cq)) /\ cq' = Tail(cq)
         \/ \E e \in Cqe : ~IsData(e) /\ cq' = Append(cq, e),
         Outgoing' \subseteq Outgoing
  PROVE  Buffers'
<1>1. cq \in Seq(Cqe) BY DEF Types
<1>2. Cardinality(Waiting(cq')) = Cardinality(Waiting(cq))
  <2>1. CASE cq' = cq BY <2>1
  <2>2. CASE cq # << >> /\ ~IsData(Head(cq)) /\ cq' = Tail(cq)
    <3>1. Cardinality(Waiting(cq')) = Cardinality(Waiting(cq)) - 0 BY <1>1, <2>2, WaitingTail
    <3>2. Cardinality(Waiting(cq)) \in Nat BY <1>1, WaitingFinite
    <3> QED BY <3>1, <3>2
  <2>3. CASE \E e \in Cqe : ~IsData(e) /\ cq' = Append(cq, e)
    <3>0. PICK e \in Cqe : ~IsData(e) /\ cq' = Append(cq, e) BY <2>3
    <3>1. Cardinality(Waiting(cq')) = Cardinality(Waiting(cq)) + 0 BY <1>1, <3>0, WaitingAppend
    <3>2. Cardinality(Waiting(cq)) \in Nat BY <1>1, WaitingFinite
    <3> QED BY <3>1, <3>2
  <2> QED BY <2>1, <2>2, <2>3
<1>3. NextPosition' = NextPosition BY <1>2, PositionValue, PositionValueNext
<1>4. Handled' = Handled BY <1>3 DEF Handled
<1>5. Positions' BY <1>3, <1>4 DEF Buffers, Positions
<1>6. Handled \in Nat /\ msgs \in Nat /\ Pending(cq, Handled, msgs) BY PositionValue DEF Buffers, Positions
<1>7. Pending(cq', Handled, msgs) BY <1>1, <1>6, PendingTail, PendingAppend
<1>8. Replies' BY <1>3 DEF Buffers, Replies
<1>9. ReplyIntact'
  <2>1. \A s \in Outgoing : content[s.bid] = s.data \/ msgs > s.at BY DEF Buffers, ReplyIntact, Outgoing
  <2>2. \A s \in Outgoing' : content'[s.bid] = s.data \/ msgs' > s.at BY <2>1
  <2> QED BY <2>2 DEF ReplyIntact, Outgoing
<1>10. RequestIntact'
  <2>1. \A i \in DOMAIN cq : IsData(cq[i]) => content[cq[i].bid] = cq[i].data \/ overrun
    BY IntactByData DEF Buffers
  <2>2. \A i \in DOMAIN cq' : IsData(cq'[i]) => \E j \in DOMAIN cq : cq[j] = cq'[i]
    <3>1. CASE cq' = cq BY <3>1
    <3>2. CASE cq # << >> /\ cq' = Tail(cq)
      <4>1. ToSet(cq') \subseteq ToSet(cq) BY <1>1, <3>2, TailSet
      <4>2. cq' \in Seq(Cqe) BY DEF Types
      <4> QED BY <1>1, <4>1, <4>2, SeqSet
    <3>3. CASE \E e \in Cqe : ~IsData(e) /\ cq' = Append(cq, e)
      <4>0. PICK e \in Cqe : ~IsData(e) /\ cq' = Append(cq, e) BY <3>3
      <4>1. ToSet(cq') = ToSet(cq) \cup {e} BY <1>1, <4>0, AppendSet
      <4>2. cq' \in Seq(Cqe) BY DEF Types
      <4>3. ASSUME NEW i \in DOMAIN cq', IsData(cq'[i]) PROVE \E j \in DOMAIN cq : cq[j] = cq'[i]
        <5>1. cq'[i] \in ToSet(cq') BY <4>2, SeqSet
        <5>2. cq'[i] \in ToSet(cq) BY <4>0, <4>1, <4>3, <5>1
        <5> QED BY <1>1, <5>2, SeqSet
      <4> QED BY <4>3
    <3> QED BY <3>1, <3>2, <3>3
  <2>3. \A i \in DOMAIN cq' : IsData(cq'[i]) => content'[cq'[i].bid] = cq'[i].data \/ overrun'
    BY <2>1, <2>2
  <2> QED BY <2>3, IntactByData
<1> QED BY <1>4, <1>5, <1>7, <1>8, <1>9, <1>10 DEF Buffers

\* Positions less than the size of the ring apart name different entries.
LEMMA IdxDiffers ==
  ASSUME NEW x \in Int, NEW y \in Int, x < y, y < x + BufEntries
  PROVE  Idx(x) # Idx(y)
  BY BufEntriesAssumption, RemaindersDiffer DEF Idx

\* A request takes the buffer of its own number, which no request that waits
\* and no reply that is still due has, unless the ring was overrun.
LEMMA RequestBuffers ==
  ASSUME Types, Types', Buffers, NEW r \in receiving, Request(r)
  PROVE  Buffers'
<1>1. PICK b \in Bufs, more \in BOOLEAN :
        /\ Select(b)
        /\ content' = [content EXCEPT ![b] = msgs']
        /\ Post([op |-> "recv", fd |-> r.fd, conn |-> r.conn, res |-> "data",
                 more |-> more, bid |-> b, data |-> msgs'])
  BY DEF Request
<1> DEFINE e == [op |-> "recv", fd |-> r.fd, conn |-> r.conn, res |-> "data",
                 more |-> more, bid |-> b, data |-> msgs']
<1>2. /\ cq \in Seq(Cqe) /\ cq' \in Seq(Cqe) /\ content \in [Bufs -> Message] /\ r \in Receives
      /\ msgs' \in 0 .. MaxMsgs
  BY DEF Types, TypeOK
<1>3. e \in Cqe
  <2>1. msgs' \in Message BY <1>2, ServerBounds DEF Message
  <2> QED BY <1>2, <2>1 DEF Receives, Cqe
<1>4. cq' = Append(cq, e) BY <1>1 DEF Post
<1>5. IsData(e) /\ e.bid = b /\ e.data = msgs' BY DEF IsData
<1>6. msgs' = msgs + 1 /\ overrun' = (overrun \/ head = tail) /\ UNCHANGED <<sq, sends>> BY DEF Request
<1> HIDE DEF e
<1>7. /\ NextPosition = BufEntries + msgs - Cardinality(Waiting(cq))
      /\ Cardinality(Waiting(cq)) \in Nat /\ NextPosition \in Int
      /\ NextPosition = BufEntries + Handled /\ Handled <= msgs /\ Handled \in Nat
      /\ msgs \in Nat /\ BufEntries \in Nat \ {0} /\ TailMod \in Nat \ {0}
  BY PositionValue DEF Buffers, Positions
<1>8. NextPosition' = NextPosition
  <2>1. Cardinality(Waiting(cq')) = Cardinality(Waiting(cq)) + 1 BY <1>2, <1>3, <1>4, <1>5, WaitingAppend
  <2>2. NextPosition' = BufEntries + msgs' - Cardinality(Waiting(cq')) BY PositionValueNext
  <2> QED BY <1>6, <1>7, <2>1, <2>2
<1>9. Handled' = Handled BY <1>8 DEF Handled
<1>10. b = Idx(msgs)
  <2>1. head = msgs % TailMod /\ ring = [i \in Bufs |-> i] BY DEF Buffers, Positions
  <2>2. Idx(head) = Idx(msgs) BY <1>7, <2>1, IdxOfTail
  <2>3. Idx(head) \in Bufs BY RingTypes
  <2> QED BY <1>1, <2>1, <2>2, <2>3 DEF Select
<1>11. ~overrun' => ~overrun /\ msgs < NextPosition
  <2>1. msgs = NextPosition => overrun' BY <1>6 DEF Buffers, Positions
  <2>2. overrun \/ msgs <= NextPosition BY DEF Buffers, Positions
  <2>3. msgs <= NextPosition /\ msgs # NextPosition => msgs < NextPosition BY <1>7
  <2>4. overrun => overrun' BY <1>6
  <2> QED BY <2>1, <2>2, <2>3, <2>4
<1>12. Positions'
  <2>1. /\ ring' = ring /\ tail' = tail /\ head' = (head + 1) % TailMod BY <1>1 DEF Select
  <2>2. head' = (msgs + 1) % TailMod
    <3>1. head = (msgs % TailMod) BY DEF Buffers, Positions
    <3>2. msgs \in Int BY <1>7
    <3>3. ((msgs % TailMod) + 1) % TailMod = (msgs + 1) % TailMod BY <1>7, <3>2, RemainderNext
    <3> QED BY <2>1, <3>1, <3>3
  <2>3. overrun' \/ msgs + 1 <= NextPosition BY <1>7, <1>11
  <2> QED BY <1>6, <1>7, <1>8, <1>9, <2>1, <2>2, <2>3 DEF Buffers, Positions
<1>13. Pending(cq', Handled', msgs')
  <2>1. Pending(cq, Handled, msgs) BY DEF Buffers
  <2>2. Pending(Append(cq, e), Handled, msgs + 1)
    BY <1>2, <1>3, <1>5, <1>6, <1>7, <1>10, <2>1, PendingAppend
  <2> QED BY <1>4, <1>6, <1>9, <2>2
<1>14. Outgoing' = Outgoing BY <1>6 DEF Outgoing
<1>15. Replies' BY <1>8, <1>14 DEF Buffers, Replies
<1>16. ReplyIntact'
  <2>1. \A s \in Outgoing : content[s.bid] = s.data \/ msgs > s.at BY DEF Buffers, ReplyIntact, Outgoing
  <2>2. ASSUME NEW s \in Outgoing PROVE content'[s.bid] = s.data \/ msgs' > s.at
    <3>1. s.at \in Nat /\ s.at < NextPosition /\ s.bid = Idx(s.at) BY DEF Buffers, Replies
    <3>2. CASE s.at <= msgs
      <4>1. msgs + 1 > s.at BY <1>7, <3>1, <3>2
      <4> QED BY <1>6, <4>1
    <3>3. CASE s.at > msgs
      <4>1. s.at < msgs + BufEntries BY <1>7, <3>1
      <4>2. Idx(msgs) # Idx(s.at) BY <1>7, <3>1, <3>3, <4>1, IdxDiffers
      <4>3. content[s.bid] = s.data BY <1>7, <2>1, <3>1, <3>3
      <4>4. s.bid # b BY <1>10, <3>1, <4>2
      <4>5. s.bid \in Bufs
        <5>1. s.at \in Int BY <3>1
        <5>2. s.at % BufEntries \in 0 .. BufEntries - 1 BY <1>7, <5>1, Remainder
        <5> QED BY <3>1, <5>2 DEF Idx, Bufs
      <4>6. content'[s.bid] = content[s.bid] BY <1>1, <1>2, <4>4, <4>5
      <4> QED BY <4>3, <4>6
    <3> QED BY <1>7, <3>1, <3>2, <3>3
  <2>3. \A s \in Outgoing' : content'[s.bid] = s.data \/ msgs' > s.at BY <1>14, <2>2
  <2> QED BY <2>3 DEF ReplyIntact, Outgoing
<1>17. RequestIntact'
  <2>1. \A i \in DOMAIN cq : IsData(cq[i]) => content[cq[i].bid] = cq[i].data \/ overrun
    BY IntactByData DEF Buffers
  <2>2. ASSUME NEW i \in DOMAIN cq', IsData(cq'[i]), ~overrun' PROVE content'[cq'[i].bid] = cq'[i].data
    <3>1. cq'[i] \in ToSet(cq') /\ ToSet(cq') = ToSet(cq) \cup {e}
      BY <1>2, <1>3, <1>4, AppendSet, SeqSet
    <3>2. CASE cq'[i] = e
      <4>1. content'[b] = msgs' BY <1>1, <1>2
      <4> QED BY <1>5, <3>2, <4>1
    <3>3. CASE cq'[i] \in ToSet(cq)
      <4>1. PICK j \in DOMAIN cq : cq[j] = cq'[i] BY <1>2, <3>3, SeqSet
      <4>2. IsData(cq[j]) /\ cq[j].data \in Nat /\ cq[j].bid \in Bufs BY <1>2, <2>2, <4>1, DataInt
      <4>3. cq[j].data > Handled /\ cq[j].data <= msgs /\ cq[j].bid = Idx(cq[j].data - 1)
        BY <4>2 DEF Buffers, Pending
      <4>4. cq[j].data - 1 \in Int /\ cq[j].data - 1 < msgs /\ msgs < (cq[j].data - 1) + BufEntries
        BY <1>7, <1>11, <2>2, <4>2, <4>3
      <4>5. Idx(cq[j].data - 1) # Idx(msgs) BY <1>7, <4>4, IdxDiffers
      <4>6. content'[cq[j].bid] = content[cq[j].bid] BY <1>1, <1>2, <1>10, <4>2, <4>3, <4>5
      <4>7. content[cq[j].bid] = cq[j].data BY <1>11, <2>1, <2>2, <4>2
      <4> QED BY <4>1, <4>6, <4>7
    <3> QED BY <3>1, <3>2, <3>3
  <2> QED BY <2>2, IntactByData
<1> QED BY <1>12, <1>13, <1>15, <1>16, <1>17 DEF Buffers

\* What goes out after a request was handled: perhaps a reply from its buffer.
LEMMA DataOutgoing ==
  ASSUME Types, HandleRecvData
  PROVE  \E d \in Message :
           /\ content' = content \/ content' = [content EXCEPT ![Head(cq).bid] = d]
           /\ \A s \in Outgoing' :
                \/ s \in Outgoing
                \/ /\ s.at = NextPosition /\ s.bid = Head(cq).bid /\ s.data = d
                   /\ content' = [content EXCEPT ![Head(cq).bid] = d]
<1> DEFINE cqe == Head(cq)
<1>1. cqe \in Cqe /\ cqe.op = "recv" /\ cqe.res = "data" BY TakeTypes DEF HandleRecvData
<1>2. cqe.fd \in Fds /\ cqe.conn \in Conns /\ cqe.bid \in Bufs BY <1>1, CqeFields
<1>3. sq \in Seq(Sqe) /\ content \in [Bufs -> Message] BY DEF Types, TypeOK
<1>4. content[cqe.bid] \in Message /\ ReplyTo(content[cqe.bid]) \in Message
  BY <1>2, <1>3, ServerBounds DEF Message, ReplyTo
<1>5. sends' = sends BY DEF HandleRecvData
<1>6. CASE UNCHANGED <<sq, content>>
  <2>1. Outgoing' = Outgoing BY <1>5, <1>6 DEF Outgoing
  <2> QED BY <1>4, <1>6, <2>1
<1>7. ASSUME NEW d \in Message, Reply(cqe, d)
      PROVE  /\ content' = [content EXCEPT ![cqe.bid] = d]
             /\ \A s \in Outgoing' : \/ s \in Outgoing
                                     \/ s.at = NextPosition /\ s.bid = cqe.bid /\ s.data = d
  <2> DEFINE e == Send(cqe.fd, cqe.conn, cqe.bid, d, NextPosition)
  <2>1. e \in Sqe BY <1>2, Entries, PositionInt
  <2>2. e.at = NextPosition /\ e.bid = cqe.bid /\ e.data = d BY DEF Send
  <2>3. sq' = PutSqe(sq, e) /\ content' = [content EXCEPT ![cqe.bid] = d] BY <1>7 DEF Reply
  <2> HIDE DEF e
  <2>4. ToSet(sq') \subseteq ToSet(sq) \cup {e} BY <1>3, <2>1, <2>3, PutSet
  <2>5. \A s \in Outgoing' : s \in Outgoing \/ s = e BY <1>5, <2>4 DEF Outgoing
  <2> QED BY <2>2, <2>3, <2>5
<1>8. CASE Put BY <1>6, <1>8 DEF Put
<1>9. CASE UNCHANGED <<sq, content, store>> BY <1>6, <1>9
<1>10. CASE Reply(cqe, content[cqe.bid]) BY <1>4, <1>7, <1>10
<1>11. CASE Reply(cqe, ReplyTo(content[cqe.bid])) BY <1>4, <1>7, <1>11
<1> QED BY <1>8, <1>9, <1>10, <1>11 DEF HandleRecvData

\* The buffer of the request that is handled goes back to its own place, and
\* what the worker leaves in it disturbs no request that waits and no reply
\* that may still be relied on.
LEMMA DataBuffers ==
  ASSUME Types, Types', Buffers, HandleRecvData
  PROVE  Buffers'
<1> DEFINE P == NextPosition
           H == Handled
           x == Head(cq).bid
<1>1. /\ cq \in Seq(Cqe) /\ cq # << >> /\ cq' = Tail(cq) /\ cq' \in Seq(Cqe) /\ IsData(Head(cq))
      /\ content \in [Bufs -> Message] /\ x \in Bufs
  <2>1. cq # << >> /\ Head(cq) \in Cqe /\ cq' = Tail(cq) /\ IsData(Head(cq))
    BY TakeTypes DEF HandleRecvData, IsData
  <2>2. x \in Bufs BY <2>1, CqeFields DEF IsData
  <2> QED BY <2>1, <2>2 DEF Types, TypeOK
<1>2. /\ P = BufEntries + msgs - Cardinality(Waiting(cq))
      /\ Cardinality(Waiting(cq)) \in Nat /\ P \in Int
      /\ P = BufEntries + H /\ H <= msgs /\ H \in Nat
      /\ msgs \in Nat /\ BufEntries \in Nat \ {0} /\ TailMod \in Nat \ {0}
  BY PositionValue DEF Buffers, Positions
<1>3. msgs' = msgs /\ sends' = sends /\ overrun' = overrun /\ Add(x) BY DEF HandleRecvData
<1>4. NextPosition' = P + 1
  <2>1. Cardinality(Waiting(cq')) = Cardinality(Waiting(cq)) - 1 BY <1>1, WaitingTail
  <2>2. NextPosition' = BufEntries + msgs' - Cardinality(Waiting(cq')) BY PositionValueNext
  <2> QED BY <1>2, <1>3, <2>1, <2>2
<1>5. Handled' = H + 1
  <2>1. Handled' = NextPosition' - BufEntries BY PositionValueNext
  <2> QED BY <1>2, <1>4, <2>1
<1>6. x = Idx(H) /\ H < msgs /\ Pending(cq', H + 1, msgs)
  <2>1. Pending(cq, H, msgs) BY DEF Buffers
  <2> QED BY <1>1, <1>2, <2>1, PendingTail
<1>7. x = Idx(P)
  <2>1. P - BufEntries = H BY DEF Handled
  <2>2. (P - BufEntries) % BufEntries = (P % BufEntries) BY <1>2, RemainderShift
  <2> QED BY <1>6, <2>1, <2>2 DEF Idx
<1> HIDE DEF P, H, x
<1>8. Positions'
  <2>1. ring = [i \in Bufs |-> i] /\ head = (msgs % TailMod) /\ tail = (P % TailMod)
    BY DEF Buffers, Positions, P
  <2>2. Idx(tail) = x BY <1>2, <1>7, <2>1, IdxOfTail
  <2>3. /\ ring' = [ring EXCEPT ![x] = x] /\ tail' = (tail + 1) % TailMod /\ head' = head
    BY <1>3, <2>2 DEF Add
  <2>4. ring' = [i \in Bufs |-> i] BY <1>1, <2>1, <2>3
  <2>5. tail' = (P + 1) % TailMod
    <3>1. ((P % TailMod) + 1) % TailMod = (P + 1) % TailMod BY <1>2, RemainderNext
    <3> QED BY <2>1, <2>3, <3>1
  <2>6. H + 1 \in Nat BY <1>2
  <2>7. overrun \/ msgs <= P + 1
    <3>1. overrun \/ msgs <= P BY DEF Buffers, Positions, P
    <3>2. msgs <= P => msgs <= P + 1 BY <1>2
    <3> QED BY <3>1, <3>2
  <2> QED BY <1>3, <1>4, <1>5, <2>1, <2>3, <2>4, <2>5, <2>6, <2>7 DEF Positions
<1>9. Pending(cq', Handled', msgs') BY <1>3, <1>5, <1>6
<1>10. PICK d \in Message :
         /\ content' = content \/ content' = [content EXCEPT ![x] = d]
         /\ \A s \in Outgoing' :
              \/ s \in Outgoing
              \/ s.at = P /\ s.bid = x /\ s.data = d /\ content' = [content EXCEPT ![x] = d]
  BY DataOutgoing DEF P, x
<1>11. \A s \in Outgoing : s.at \in Nat /\ s.at < P /\ s.bid = Idx(s.at) BY DEF Buffers, Replies, P
<1>12. Replies'
  <2>1. ASSUME NEW s \in Outgoing' PROVE s.at \in Nat /\ s.at < P + 1 /\ s.bid = Idx(s.at)
    <3>1. CASE s \in Outgoing BY <1>2, <1>11, <3>1
    <3>2. CASE s.at = P /\ s.bid = x BY <1>2, <1>7, <3>2
    <3> QED BY <1>10, <3>1, <3>2
  <2> QED BY <1>4, <2>1 DEF Replies
<1>13. ReplyIntact'
  <2>1. \A s \in Outgoing : content[s.bid] = s.data \/ msgs > s.at BY DEF Buffers, ReplyIntact, Outgoing
  <2>2. ASSUME NEW s \in Outgoing' PROVE content'[s.bid] = s.data \/ msgs > s.at
    <3>1. CASE s \in Outgoing
      <4>1. s.at \in Nat /\ s.at < P /\ s.bid = Idx(s.at) BY <1>11, <3>1
      <4>2. CASE s.at <= H
        <5>1. msgs > s.at BY <1>2, <1>6, <4>1, <4>2
        <5> QED BY <5>1
      <4>3. CASE s.at > H
        <5>1. P < s.at + BufEntries BY <1>2, <4>1, <4>3
        <5>2. s.bid # x BY <1>2, <1>7, <4>1, <5>1, IdxDiffers
        <5>3. s.bid \in Bufs
          <6>1. s.at \in Int BY <4>1
          <6>2. s.at % BufEntries \in 0 .. BufEntries - 1 BY <1>2, <6>1, Remainder
          <6> QED BY <4>1, <6>2 DEF Idx, Bufs
        <5>4. content'[s.bid] = content[s.bid] BY <1>1, <1>10, <5>2, <5>3
        <5> QED BY <2>1, <3>1, <5>4
      <4> QED BY <1>2, <4>1, <4>2, <4>3
    <3>2. CASE s.bid = x /\ s.data = d /\ content' = [content EXCEPT ![x] = d]
      BY <1>1, <3>2
    <3> QED BY <1>10, <3>1, <3>2
  <2> QED BY <1>3, <2>2 DEF ReplyIntact, Outgoing
<1>14. RequestIntact'
  <2>1. \A i \in DOMAIN cq : IsData(cq[i]) => content[cq[i].bid] = cq[i].data \/ overrun
    BY IntactByData DEF Buffers
  <2>2. ASSUME NEW i \in DOMAIN cq', IsData(cq'[i]), ~overrun PROVE content'[cq'[i].bid] = cq'[i].data
    <3>1. cq'[i] \in ToSet(cq) BY <1>1, TailSet, SeqSet
    <3>2. PICK j \in DOMAIN cq : cq[j] = cq'[i] BY <1>1, <3>1, SeqSet
    <3>3. cq'[i].data \in Nat /\ cq'[i].bid \in Bufs BY <1>1, <2>2, DataInt
    <3>4. cq'[i].data > H + 1 /\ cq'[i].data <= msgs /\ cq'[i].bid = Idx(cq'[i].data - 1)
      BY <1>6, <2>2 DEF Pending
    <3>5. msgs <= P BY <2>2 DEF Buffers, Positions, P
    <3>6. cq'[i].data - 1 \in Int /\ H < cq'[i].data - 1 /\ cq'[i].data - 1 < H + BufEntries
      BY <1>2, <3>3, <3>4, <3>5
    <3>7. Idx(H) # Idx(cq'[i].data - 1) BY <1>2, <3>6, IdxDiffers
    <3>8. content'[cq'[i].bid] = content[cq'[i].bid] BY <1>1, <1>6, <1>10, <3>3, <3>4, <3>7
    <3> QED BY <2>1, <2>2, <3>2, <3>8
  <2> QED BY <1>3, <2>2, IntactByData
<1> QED BY <1>8, <1>9, <1>12, <1>13, <1>14 DEF Buffers

\* What the worker or the kernel puts into the submission ring, other than a
\* send, is no reply.
LEMMA PutNoReply ==
  ASSUME NEW s \in Seq(Sqe), NEW e \in Sqe, e.op # "send"
  PROVE  \A x \in ToSet(PutSqe(s, e)) \cup ToSet(Append(s, e)) : x.op = "send" => x \in ToSet(s)
  BY PutSet, AppendSet

\* The replies that go out, by the changes of the ring and of the sends.
LEMMA OutgoingShrinks ==
  ASSUME \A x \in ToSet(sq') : x.op = "send" => x \in Outgoing, sends' \subseteq Outgoing
  PROVE  Outgoing' \subseteq Outgoing
  BY DEF Outgoing

\* Neither does closing a descriptor prepare one.
LEMMA CloseOutgoing ==
  ASSUME Types, NEW f \in Fds, NEW c \in Conns, CloseFd(f, c), sends' = sends
  PROVE  Outgoing' \subseteq Outgoing
<1>1. Close(f, c) \in Sqe /\ Close(f, c).op # "send" BY Entries DEF Close
<1>2. sq \in Seq(Sqe) BY DEF Types
<1>3. \A x \in ToSet(sq') : x.op = "send" => x \in ToSet(sq)
  <2>1. sq' = Append(sq, Close(f, c)) \/ sq' = sq BY DEF CloseFd
  <2> QED BY <1>1, <1>2, <2>1, PutNoReply
<1> QED BY <1>3, OutgoingShrinks DEF Outgoing

\* The worker's steps about accepts, ends, failed sends and closed descriptors.
LEMMA WorkerBuffers ==
  ASSUME Types, Types', Buffers,
         HandleAccept \/ HandleNoBufs \/ HandleRecvEnd \/ HandleSend \/ HandleClose
  PROVE  Buffers'
<1> DEFINE cqe == Head(cq)
<1>0. sq \in Seq(Sqe) BY DEF Types
<1>1. cq # << >> /\ cqe \in Cqe /\ ~IsData(cqe) /\ cq' = Tail(cq)
  <2>1. CASE HandleAccept BY <2>1, TakeTypes DEF HandleAccept, IsData
  <2>2. CASE HandleNoBufs BY <2>2, TakeTypes DEF HandleNoBufs, IsData
  <2>3. CASE HandleRecvEnd BY <2>3, TakeTypes DEF HandleRecvEnd, IsData
  <2>4. CASE HandleSend BY <2>4, TakeTypes DEF HandleSend, IsData
  <2>5. CASE HandleClose BY <2>5, TakeTypes DEF HandleClose, IsData
  <2> QED BY <2>1, <2>2, <2>3, <2>4, <2>5
<1>2. UNCHANGED <<ring, head, tail, content, msgs, overrun, sends>>
  BY DEF HandleAccept, HandleNoBufs, HandleRecvEnd, HandleSend, HandleClose, bufring, kernel, history
<1>3. Outgoing' \subseteq Outgoing
  <2>1. CASE HandleAccept
    <3> DEFINE s == IF cqe.fd # NoFd THEN PutSqe(sq, Recv(cqe.fd, cqe.conn)) ELSE sq
    <3>1. cqe.op = "accept" BY <2>1, TakeTypes DEF HandleAccept
    <3>2. cqe.fd # NoFd => Recv(cqe.fd, cqe.conn) \in Sqe BY <1>1, <3>1, CqeFields, Entries
    <3>3. Recv(cqe.fd, cqe.conn).op # "send" /\ Accept.op # "send" /\ Accept \in Sqe
      BY Entries DEF Recv, Accept
    <3>4. s \in Seq(Sqe)
      <4>1. Len(sq) <= SqEntries BY DEF Types, TypeOK
      <4> QED BY <1>0, <3>2, <4>1, PutTypes
    <3>5. \A x \in ToSet(s) : x.op = "send" => x \in ToSet(sq) BY <1>0, <3>2, <3>3, PutNoReply
    <3>6. sq' = s \/ sq' = PutSqe(s, Accept) BY <2>1 DEF HandleAccept
    <3> HIDE DEF s
    <3>7. \A x \in ToSet(sq') : x.op = "send" => x \in ToSet(s) BY <3>3, <3>4, <3>6, PutNoReply
    <3> QED BY <1>2, <3>5, <3>7, OutgoingShrinks DEF Outgoing
  <2>2. CASE HandleNoBufs
    <3>1. cqe.op = "recv" BY <2>2, TakeTypes DEF HandleNoBufs
    <3>2. Recv(cqe.fd, cqe.conn) \in Sqe BY <1>1, <3>1, CqeFields, Entries
    <3>3. Recv(cqe.fd, cqe.conn).op # "send" BY DEF Recv
    <3>4. sq' = PutSqe(sq, Recv(cqe.fd, cqe.conn)) BY <2>2 DEF HandleNoBufs
    <3>5. \A x \in ToSet(sq') : x.op = "send" => x \in ToSet(sq) BY <1>0, <3>2, <3>3, <3>4, PutNoReply
    <3> QED BY <1>2, <3>5, OutgoingShrinks DEF Outgoing
  <2>3. CASE HandleRecvEnd \/ HandleSend
    <3>1. cqe.op \in {"recv", "send"} BY <2>3, TakeTypes DEF HandleRecvEnd, HandleSend
    <3>2. cqe.fd \in Fds /\ cqe.conn \in Conns BY <1>1, <3>1, CqeFields
    <3>3. CloseFd(cqe.fd, cqe.conn) \/ sq' = sq BY <2>3 DEF HandleRecvEnd, HandleSend
    <3>4. sq' = sq => Outgoing' = Outgoing BY <1>2 DEF Outgoing
    <3> QED BY <1>2, <3>2, <3>3, <3>4, CloseOutgoing
  <2>4. CASE HandleClose BY <1>2, <2>4 DEF HandleClose, Outgoing
  <2> QED BY <2>1, <2>2, <2>3, <2>4
<1> QED BY <1>1, <1>2, <1>3, NeutralBuffers

\* The kernel's steps that fill no buffer.
LEMMA KernelBuffers ==
  ASSUME Types, Types', Buffers,
         \/ TakeSqe \/ Connect \/ ConnectFails
         \/ \E r \in receiving : NoBufs(r) \/ Disconnect(r)
         \/ \E s \in sends : SendDone(s)
  PROVE  Buffers'
<1>1. UNCHANGED <<ring, head, tail, content, msgs, overrun>>
  BY DEF TakeSqe, Connect, ConnectFails, NoBufs, Disconnect, SendDone, bufring, history
<1>2. cq \in Seq(Cqe) /\ sq \in Seq(Sqe) /\ receiving \subseteq Receives
      /\ sends \subseteq {e \in Sqe : e.op = "send"}
  BY DEF Types
<1>3. \A e, res : res # "data" => ~IsData(Done(e, res)) BY Completions DEF IsData
<1>4. CASE TakeSqe
  <2> DEFINE e == Head(sq)
  <2>1. sq # << >> /\ sq' = Tail(sq) BY <1>4 DEF TakeSqe
  <2>2. e \in Sqe /\ e \in ToSet(sq) /\ ToSet(sq') \subseteq ToSet(sq)
    BY <1>2, <2>1, TailElements, TailSet
  <2>3. sends' = sends \/ (e.op = "send" /\ sends' = sends \cup {e}) BY <1>4 DEF TakeSqe
  <2>4. Outgoing' \subseteq Outgoing BY <2>2, <2>3 DEF Outgoing
  <2>5. cq' = cq \/ \E c \in Cqe : ~IsData(c) /\ cq' = Append(cq, c)
    <3>1. \/ cq' = cq
          \/ e.op # "accept" /\ Post(Done(e, "end"))
          \/ e.op = "close" /\ Post(Done(e, "ok"))
      BY <1>4 DEF TakeSqe
    <3>2. e.op # "accept" => Done(e, "end") \in Cqe BY <2>2, Completions
    <3>3. e.op = "close" => Done(e, "ok") \in Cqe BY <2>2, Completions
    <3>4. ~IsData(Done(e, "end")) /\ ~IsData(Done(e, "ok")) BY <1>3
    <3> QED BY <3>1, <3>2, <3>3, <3>4 DEF Post
  <2> QED BY <1>1, <2>4, <2>5, NeutralBuffers
<1>5. CASE Connect \/ ConnectFails
  <2>1. Outgoing' = Outgoing BY <1>5 DEF Connect, ConnectFails, Outgoing
  <2>2. \E c \in Cqe : ~IsData(c) /\ cq' = Append(cq, c)
    <3>1. CASE Connect
      <4>1. PICK f \in Fds, more \in BOOLEAN :
              Post([op |-> "accept", fd |-> f, conn |-> conns + 1, more |-> more])
        BY <3>1 DEF Connect
      <4> DEFINE a == [op |-> "accept", fd |-> f, conn |-> conns + 1, more |-> more]
      <4>2. conns + 1 \in Conns BY <3>1, ServerBounds DEF Connect, Types, TypeOK, Conns
      <4>3. a \in Cqe BY <4>2 DEF Cqe
      <4>4. ~IsData(a) BY DEF IsData
      <4> QED BY <4>1, <4>3, <4>4 DEF Post
    <3>2. CASE ConnectFails
      <4> DEFINE a == [op |-> "accept", fd |-> NoFd, conn |-> NoConn, more |-> FALSE]
      <4>1. a \in Cqe /\ ~IsData(a) BY DEF Cqe, IsData
      <4>2. Post(a) BY <3>2 DEF ConnectFails
      <4> QED BY <4>1, <4>2 DEF Post
    <3> QED BY <1>5, <3>1, <3>2
  <2> QED BY <1>1, <2>1, <2>2, NeutralBuffers
<1>6. CASE \E r \in receiving : NoBufs(r) \/ Disconnect(r)
  <2>1. PICK r \in receiving : NoBufs(r) \/ Disconnect(r) BY <1>6
  <2>2. Outgoing' = Outgoing BY <2>1 DEF NoBufs, Disconnect, Outgoing
  <2>3. PICK res \in {"nobufs", "end"} : Post(Done(r, res)) BY <2>1 DEF NoBufs, Disconnect
  <2>4. Done(r, res) \in Cqe /\ ~IsData(Done(r, res)) BY <1>2, <1>3, Completions
  <2> QED BY <1>1, <2>2, <2>3, <2>4, NeutralBuffers DEF Post
<1>7. CASE \E s \in sends : SendDone(s)
  <2>1. PICK s \in sends : SendDone(s) BY <1>7
  <2>2. Outgoing' \subseteq Outgoing BY <2>1 DEF SendDone, Outgoing
  <2>3. PICK res \in {"ok", "end"} : Post(Done(s, res)) BY <2>1 DEF SendDone
  <2>4. Done(s, res) \in Cqe /\ ~IsData(Done(s, res)) BY <1>2, <1>3, Completions
  <2> QED BY <1>1, <2>2, <2>3, <2>4, NeutralBuffers DEF Post
<1> QED BY <1>4, <1>5, <1>6, <1>7

\* Every step keeps the buffers.
LEMMA StepBuffers == Types /\ Types' /\ Buffers /\ [Next]_vars => Buffers'
<1> SUFFICES ASSUME Types, Types', Buffers, [Next]_vars PROVE Buffers'
  OBVIOUS
<1>1. CASE EnterReturns \/ EnterFails \/ CqesDone \/ Flush \/ NeighbourPops \/ UNCHANGED vars
  <2>1. UNCHANGED <<cq, sq, sends, ring, head, tail, content, msgs, overrun>>
    BY <1>1 DEF EnterReturns, EnterFails, CqesDone, Flush, PublishTail, NeighbourPops,
                vars, kernel, bufring, history
  <2>2. Outgoing' = Outgoing BY <2>1 DEF Outgoing
  <2> QED BY <2>1, <2>2, NeutralBuffers
<1>2. CASE Worker BY <1>1, <1>2, WorkerBuffers, DataBuffers DEF Worker
<1>3. CASE Environment BY <1>1, <1>3, KernelBuffers, RequestBuffers DEF Environment
<1> QED BY <1>1, <1>2, <1>3 DEF Next

\* At first every buffer is in its place and none has been used.
LEMMA InitBuffers == Init /\ Types => Buffers
<1> SUFFICES ASSUME Init, Types PROVE Buffers
  OBVIOUS
<1>1. /\ ring = [i \in Bufs |-> i] /\ tail = BufEntries /\ head = 0 /\ msgs = 0 /\ sends = {}
      /\ sq = << >> /\ cq = << >>
  BY DEF Init, BufRingInit
<1>2. DOMAIN sq = {} /\ DOMAIN cq = {} BY <1>1
<1>3. Outgoing = {}
  <2>1. ToSet(sq) = {} BY <1>2, SeqSet DEF Types
  <2> QED BY <1>1, <2>1 DEF Outgoing
<1>4. NextPosition = BufEntries /\ Handled = 0
  <2>1. Waiting(cq) = {} BY <1>2 DEF Waiting
  <2>2. Cardinality(Waiting(cq)) = 0 BY <2>1, FS_EmptySet
  <2>3. NextPosition = BufEntries BY <1>1, <2>2, PositionValue
  <2> QED BY <2>3, BufEntriesAssumption DEF Handled
<1>5. BufEntries % TailMod = BufEntries /\ 0 % TailMod = 0
  BY BufEntriesAssumption, TailModAssumption
<1>6. Positions BY <1>1, <1>4, <1>5, BufEntriesAssumption DEF Positions
<1>7. Pending(cq, Handled, msgs) BY <1>1, <1>2, <1>4 DEF Pending
<1> QED BY <1>2, <1>3, <1>6, <1>7 DEF Buffers, Replies, RequestIntact, ReplyIntact, Outgoing

\* For any number of buffers and any range of the counters, a request is still
\* in its buffer when the worker comes to it, unless the kernel has run past the
\* buffers that were added.
THEOREM RequestsIntact == Spec => []RequestIntact
<1>1. Buffers => RequestIntact BY DEF Buffers
<1> QED BY <1>1, InitBuffers, StepBuffers, ServerTypes, PTL DEF Spec

\* A reply that waits to be sent is still in its buffer until the kernel comes to
\* the place at which that buffer was added again.
THEOREM RepliesIntact == Spec => []ReplyIntact
<1>1. Buffers => ReplyIntact BY DEF Buffers
<1> QED BY <1>1, InitBuffers, StepBuffers, ServerTypes, PTL DEF Spec
=============================================================================
