---------------------------- MODULE EngineProofs ----------------------------
(***************************************************************************)
(* Proofs about Engine for any keys, any number of workers, any memtable   *)
(* limit and queue capacity, and any number of writes and lives.           *)
(***************************************************************************)
EXTENDS Engine, TLAPS

-----------------------------------------------------------------------------
(* The inductive invariant *)

\* A worker between taking a task and finishing it.
Busy(w) == at[w] \in {"create", "write", "add", "remove"}

NobodyBusy == \A w \in Workers : ~Busy(w)

FlushTask == [mem |-> imm, wal |-> rotated]

\* A node that is down keeps nothing in memory, and no worker runs.
DownState ==
  phase = "down" =>
    /\ pc = "idle" /\ l0 = << >>
    /\ \A w \in Workers : at[w] \in {"exited", "dead"}

\* The writes of a life are numbered in the order of the calls, and lives in
\* the order of the openings.
Numbering ==
  /\ \A e \in acked : e.life <= life
  /\ phase # "down" => life >= 1
  /\ \A e \in active \cup imm \cup op : e.life = life /\ e.seq < seq
  /\ \A e \in imm, f \in active : e.seq < f.seq
  /\ pc = "insert" => \A e \in active \cup imm, f \in op : e.seq < f.seq

\* The write in progress is the last one, and has gone as far as pc says.
Call ==
  /\ pc # "idle" => \E e \in Writes : op = {e} /\ e.seq + 1 = seq
  /\ pc = "idle" => op = {}
  /\ phase = "closing" => pc = "idle"
  /\ pc = "insert" => wal \in DOMAIN wals /\ op \subseteq wals[wal] \cup cut /\ ~unwritten
  /\ pc = "freeze" => imm = {} /\ op \subseteq active
  /\ pc = "push" => /\ imm # {} /\ op \subseteq imm /\ active = {}
                    /\ queue = << >> /\ NobodyBusy /\ l0 = << >>

\* What was acknowledged in this life is what the memtables hold.
Held ==
  phase # "down" =>
    active \cup imm = IF pc \in {"freeze", "push"} THEN ThisLife \cup op ELSE ThisLife

\* The active memtable is in the log being written; the frozen one is in the
\* first log until the table holds it.  What is not was cut off.
Logged ==
  phase # "down" =>
    /\ wal \in DOMAIN wals
    /\ active # {} => ~unwritten /\ active \subseteq wals[wal] \cup cut
    /\ imm = {} => wal = FirstWal /\ queue = << >> /\ l0 = << >> /\ NobodyBusy
    /\ imm # {} => rotated = FirstWal /\ wal # FirstWal
    /\ imm # {} /\ l0 = << >> => FirstWal \in DOMAIN wals /\ imm \subseteq wals[FirstWal] \cup cut

\* The one task of a life is in the queue, or with one worker, or done.
OneFlush ==
  /\ queue # << >> => queue = <<FlushTask>> /\ NobodyBusy /\ l0 = << >>
  /\ \A w \in Workers : Busy(w) =>
       /\ task[w] = FlushTask /\ queue = << >>
       /\ \A v \in Workers : Busy(v) => v = w
       /\ at[w] # "remove" => l0 = << >>
       /\ at[w] = "add" => sst = imm
       /\ at[w] = "remove" => l0 # << >>
  /\ l0 # << >> => l0 = <<SstPath>> /\ sst = imm

Inv ==
  /\ TypeOK /\ DownState /\ Numbering /\ Call /\ Held /\ Logged /\ OneFlush
  /\ AckedInFilesUnlessCut

\* While the node runs, the files hold what was acknowledged because they hold
\* the memtables.
LEMMA MemtablesInFiles ==
  phase # "down" /\ Held /\ Logged /\ OneFlush => AckedInFilesUnlessCut
<1> SUFFICES ASSUME phase # "down", Held, Logged, OneFlush, NEW e \in ThisLife \ cut
             PROVE  e \in sst \/ \E p \in DOMAIN wals : e \in wals[p]
  BY DEF AckedInFilesUnlessCut
<1>1. e \in active \cup imm BY DEF Held
<1>2. CASE e \in active BY <1>2 DEF Logged
<1>3. CASE e \in imm BY <1>3 DEF Logged, OneFlush
<1> QED BY <1>1, <1>2, <1>3

\* A node that was never opened.
LEMMA InitInv == Init => Inv
<1> SUFFICES ASSUME Init PROVE Inv
  OBVIOUS
<1> USE DEF Init
<1>1. TypeOK
  <2>1. NoTask \in [mem : SUBSET Writes, wal : Paths]
    BY EngineBoundsAssumption DEF NoTask, Paths, FirstWal
  <2>2. DOMAIN wals = {} OBVIOUS
  <2>3. Len(queue) <= QUEUE_CAPACITY BY QueueAssumption
  <2>4. /\ full \in BOOLEAN /\ split \in BOOLEAN /\ torn \in BOOLEAN /\ unwritten \in BOOLEAN
        /\ (pc = "idle") = (op = {})
    BY Zenon
  <2>5. /\ wal \in Paths /\ rotated \in Paths /\ life \in 0 .. MaxLives
        /\ seq \in 1 .. MaxSeq + 1
    BY EngineBoundsAssumption DEF Paths, FirstWal
  <2> QED BY <2>1, <2>2, <2>3, <2>4, <2>5 DEF TypeOK
<1>2. DownState /\ Numbering BY DEF DownState, Numbering
<1>3. Call /\ Held /\ Logged BY DEF Call, Held, Logged
<1>4. OneFlush BY DEF OneFlush, Busy
<1>5. AckedInFilesUnlessCut BY DEF AckedInFilesUnlessCut, ThisLife
<1> QED BY <1>1, <1>2, <1>3, <1>4, <1>5 DEF Inv

\* Forgetting the memory leaves no memtable, no task and no table in L0.
LEMMA ForgetTypes ==
  ASSUME Forget
  PROVE  /\ seq' \in 1 .. MaxSeq + 1 /\ wal' \in Paths /\ rotated' \in Paths
         /\ queue' \in Seq([mem : SUBSET Writes, wal : Paths])
         /\ Len(queue') <= QUEUE_CAPACITY /\ l0' \in Seq({SstPath})
         /\ task' \in [Workers -> [mem : SUBSET Writes, wal : Paths]]
         /\ tail' = {} /\ full' \in BOOLEAN /\ split' \in BOOLEAN /\ torn' \in BOOLEAN
<1> USE EngineBoundsAssumption, QueueAssumption DEF Forget, NewWriter
<1>1. NoTask \in [mem : SUBSET Writes, wal : Paths]
  BY DEF NoTask, Paths, FirstWal
<1>2. tail' = {} /\ full' \in BOOLEAN /\ split' \in BOOLEAN /\ torn' \in BOOLEAN
  BY Zenon
<1> QED BY <1>1, <1>2 DEF Paths, FirstWal

-----------------------------------------------------------------------------
(* Opening, closing, crashing *)

\* Opening starts a life in which nothing is acknowledged yet.
LEMMA OpenStep ==
  ASSUME Inv, Open
  PROVE  Inv'
<1> USE EngineBoundsAssumption DEF Open
<1>1. TypeOK /\ DownState /\ Numbering BY DEF Inv
<1>2. /\ active' = {} /\ imm' = {} /\ op' = {} /\ pc' = "idle" /\ phase' = "up"
      /\ queue' = << >> /\ l0' = << >> /\ wal' = FirstWal /\ life' = life + 1
      /\ unwritten' = TRUE
      /\ at' = [w \in Workers |-> "check"] /\ acked' = acked /\ sst' = sst
      /\ cut' = {}
  BY DEF Forget
<1>3. /\ DOMAIN wals' = DOMAIN wals \cup {FirstWal}
      /\ \A q \in DOMAIN wals' : wals'[q] = IF q \in DOMAIN wals THEN wals[q] ELSE {}
  BY DEF Opened
<1>4. TypeOK'
  <2>1. /\ DOMAIN wals' \subseteq Paths /\ \A p \in DOMAIN wals' : wals'[p] \subseteq Writes
    <3>1. DOMAIN wals \subseteq Paths /\ \A p \in DOMAIN wals : wals[p] \subseteq Writes
      BY <1>1 DEF TypeOK
    <3>2. FirstWal \in Paths BY DEF Paths, FirstWal
    <3> QED BY <1>3, <3>1, <3>2
  <2>2. life' \in 0 .. MaxLives BY <1>1, <1>2 DEF TypeOK
  <2> QED BY <1>1, <1>2, <2>1, <2>2, ForgetTypes DEF TypeOK
<1>5. ThisLife' = {}
  BY <1>1, <1>2 DEF ThisLife, Numbering, TypeOK, Writes
<1>6. DownState' /\ Call' BY <1>2 DEF DownState, Call
<1>7. Numbering'
  <2>1. \A e \in acked : e.life <= life /\ e.life \in Int
    BY <1>1 DEF Numbering, TypeOK, Writes
  <2> QED BY <1>1, <1>2, <2>1 DEF Numbering, TypeOK
<1>8. Held' BY <1>2, <1>5 DEF Held
<1>9. OneFlush' /\ NobodyBusy' BY <1>2 DEF OneFlush, NobodyBusy, Busy
<1>10. Logged' BY <1>2, <1>3, <1>9 DEF Logged
<1>11. AckedInFilesUnlessCut' BY <1>5 DEF AckedInFilesUnlessCut
<1> QED BY <1>4, <1>6, <1>7, <1>8, <1>9, <1>10, <1>11 DEF Inv

\* Whatever a crash or a shutdown interrupts, the files are left as they are.
LEMMA DownStep ==
  ASSUME Inv, Joined \/ Crash
  PROVE  Inv'
<1>1. TypeOK /\ Numbering /\ AckedInFilesUnlessCut BY DEF Inv
<1>2. /\ active' = {} /\ imm' = {} /\ op' = {} /\ pc' = "idle" /\ phase' = "down"
      /\ queue' = << >> /\ l0' = << >> /\ wal' = FirstWal
      /\ unwritten' = TRUE
      /\ UNCHANGED <<life, wals, sst, cut, acked>> /\ Forget
  BY DEF Joined, Crash, Forget
<1>3. /\ \A w \in Workers : at'[w] \in {"exited", "dead"}
      /\ at' \in [Workers -> {"check", "pop", "create", "write", "add", "remove",
                              "exited", "dead"}]
  BY <1>1 DEF Joined, Crash, TypeOK
<1>4. TypeOK' BY <1>1, <1>2, <1>3, ForgetTypes DEF TypeOK
<1>5. DownState' /\ Call' /\ Held' /\ Logged'
  BY <1>2, <1>3 DEF DownState, Call, Held, Logged
<1>6. Numbering' BY <1>1, <1>2 DEF Numbering
<1>7. OneFlush' BY <1>2, <1>3 DEF OneFlush, Busy
<1>8. AckedInFilesUnlessCut' BY <1>1, <1>2 DEF AckedInFilesUnlessCut, ThisLife
<1> QED BY <1>4, <1>5, <1>6, <1>7, <1>8 DEF Inv

\* Clearing is_running changes nothing else.
LEMMA CloseStep ==
  ASSUME Inv, Close
  PROVE  Inv'
<1>1. /\ phase = "up" /\ pc = "idle" /\ phase' = "closing"
      /\ UNCHANGED <<life, seq, active, imm, wal, unwritten, pc, op, rotated, queue, at,
                     task, l0, wals, sst, tail, full, split, torn, cut, acked>>
  BY DEF Close, memory, files, log, sector
<1>2. TypeOK' BY <1>1 DEF Inv, TypeOK
<1>3. DownState' /\ Numbering' BY <1>1 DEF Inv, DownState, Numbering
<1>4. Call' /\ Held' BY <1>1 DEF Inv, Call, Held, ThisLife
<1>5. NobodyBusy' <=> NobodyBusy BY <1>1 DEF NobodyBusy, Busy
<1>6. Logged' BY <1>1, <1>5 DEF Inv, Logged
<1>7. OneFlush' BY <1>1, <1>5 DEF Inv, OneFlush, FlushTask, Busy
<1>8. AckedInFilesUnlessCut' BY <1>1 DEF Inv, AckedInFilesUnlessCut, ThisLife
<1> QED BY <1>2, <1>3, <1>4, <1>6, <1>7, <1>8 DEF Inv

-----------------------------------------------------------------------------
(* The write path *)

\* The write is in the log before anything else happens to it.
LEMMA WriteAppendStep ==
  ASSUME Inv, NEW k \in Keys, WriteAppend(k)
  PROVE  Inv'
<1> USE EngineBoundsAssumption
<1> DEFINE e == [life |-> life, seq |-> seq, key |-> k]
<1>1. TypeOK /\ DownState /\ Numbering /\ Call /\ Held /\ Logged /\ OneFlush
  BY DEF Inv
<1>2. /\ phase = "up" /\ pc = "idle" /\ seq <= MaxSeq
      /\ unwritten' = FALSE /\ op' = {e} /\ seq' = seq + 1 /\ pc' = "insert"
      /\ UNCHANGED <<phase, life, active, imm, wal, rotated, queue, at, task, l0, sst, acked>>
  BY DEF WriteAppend
<1>3. /\ life \in 1 .. MaxLives /\ seq \in 1 .. MaxSeq
      /\ e \in Writes /\ e.seq = seq /\ e.life = life
  BY <1>1, <1>2 DEF TypeOK, Numbering, Writes
<1>4. PICK found \in {{}, {e}} :
        /\ wals' = [wals EXCEPT ![wal] = IF unwritten THEN {e} ELSE (@ \ Doomed) \cup found]
        /\ cut' = cut \cup Doomed \cup ({e} \ found)
  BY DEF WriteAppend
<1>5. /\ tail' \subseteq tail \cup {e} /\ torn' = Tears
      /\ split' \in BOOLEAN /\ full' \in BOOLEAN
  BY DEF WriteAppend
<1> HIDE DEF e
<1>6. /\ wal \in DOMAIN wals /\ DOMAIN wals' = DOMAIN wals
      /\ \A p \in DOMAIN wals : p # wal => wals'[p] = wals[p]
      /\ wals'[wal] \subseteq wals[wal] \cup {e}
      /\ ~unwritten => wals[wal] \cup cut \subseteq wals'[wal] \cup cut'
      /\ e \in wals'[wal] \cup cut'
      /\ cut \subseteq cut'
  BY <1>1, <1>2, <1>4 DEF Logged
<1>7. Doomed \subseteq Writes /\ Tears \in BOOLEAN BY <1>1 DEF TypeOK, Doomed, Tears
<1>8. TypeOK'
  <2>1. \A p \in DOMAIN wals' : wals'[p] \subseteq Writes BY <1>1, <1>3, <1>6 DEF TypeOK
  <2>2. seq' \in 1 .. MaxSeq + 1 BY <1>2, <1>3
  <2>3. cut' \subseteq Writes /\ tail' \subseteq Writes
    BY <1>1, <1>3, <1>4, <1>5, <1>7 DEF TypeOK
  <2> QED BY <1>1, <1>2, <1>3, <1>5, <1>6, <1>7, <2>1, <2>2, <2>3 DEF TypeOK
<1>9. DownState' BY <1>2 DEF DownState
<1>10. Numbering'
  <2>1. \A f \in active \cup imm : f.life = life /\ f.seq < seq /\ f.seq \in Int
    BY <1>1 DEF Numbering, TypeOK, Writes
  <2>2. \A f \in active \cup imm : f.seq < seq + 1 BY <1>3, <2>1
  <2>3. e.seq < seq + 1 BY <1>3
  <2> QED BY <1>1, <1>2, <1>3, <2>1, <2>2, <2>3 DEF Numbering
<1>11. Call' BY <1>2, <1>3, <1>6 DEF Call
<1>12. Held' BY <1>1, <1>2 DEF Held, ThisLife
<1>13. NobodyBusy' <=> NobodyBusy BY <1>2 DEF NobodyBusy, Busy
<1>14. Logged'
  <2>1. active # {} => active \subseteq wals'[wal] \cup cut' BY <1>1, <1>2, <1>6 DEF Logged
  <2>2. imm # {} /\ l0 = << >> =>
          FirstWal \in DOMAIN wals' /\ imm \subseteq wals'[FirstWal] \cup cut'
    BY <1>1, <1>2, <1>6 DEF Logged
  <2> QED BY <1>1, <1>2, <1>6, <1>13, <2>1, <2>2 DEF Logged
<1>15. OneFlush' BY <1>1, <1>2, <1>13 DEF OneFlush, FlushTask, Busy
<1>16. AckedInFilesUnlessCut'
  <2>1. (phase # "down" /\ Held /\ Logged /\ OneFlush => AckedInFilesUnlessCut)'
    BY MemtablesInFiles, PTL
  <2> QED BY <1>2, <1>12, <1>14, <1>15, <2>1
<1> QED BY <1>8, <1>9, <1>10, <1>11, <1>12, <1>14, <1>15, <1>16 DEF Inv

\* A failed append takes nothing from the log that is not recorded as cut off.
LEMMA AppendFailsStep ==
  ASSUME Inv, AppendFails
  PROVE  Inv'
<1> USE EngineBoundsAssumption
<1>1. TypeOK /\ DownState /\ Numbering /\ Call /\ Held /\ Logged /\ OneFlush
  BY DEF Inv
<1>2. /\ phase = "up" /\ pc = "idle" /\ seq <= MaxSeq /\ seq' = seq + 1
      /\ UNCHANGED <<phase, life, active, imm, wal, unwritten, pc, op, rotated, queue, at,
                     task, l0, sst, acked>>
  BY DEF AppendFails
<1>3. Doomed \subseteq Writes /\ Tears \in BOOLEAN BY <1>1 DEF TypeOK, Doomed, Tears
<1>4. \/ UNCHANGED <<wals, tail, full, split, torn, cut>>
      \/ /\ wals' = [wals EXCEPT ![wal] = IF unwritten THEN {} ELSE @ \ Doomed]
         /\ cut' = cut \cup Doomed
         /\ tail' = tail \ Doomed /\ split' \in BOOLEAN /\ full' = FALSE /\ torn' = Tears
  BY DEF AppendFails, log, sector
<1>5. /\ wal \in DOMAIN wals /\ DOMAIN wals' = DOMAIN wals
      /\ \A p \in DOMAIN wals : p # wal => wals'[p] = wals[p]
      /\ wals'[wal] \subseteq wals[wal]
      /\ ~unwritten => wals[wal] \cup cut \subseteq wals'[wal] \cup cut'
      /\ cut \subseteq cut'
  BY <1>1, <1>2, <1>4 DEF Logged
<1>6. TypeOK'
  <2>1. \A p \in DOMAIN wals' : wals'[p] \subseteq Writes BY <1>1, <1>5 DEF TypeOK
  <2>2. seq' \in 1 .. MaxSeq + 1 BY <1>1, <1>2 DEF TypeOK
  <2>3. /\ cut' \subseteq Writes /\ tail' \subseteq Writes
        /\ split' \in BOOLEAN /\ full' \in BOOLEAN /\ torn' \in BOOLEAN
    BY <1>1, <1>3, <1>4 DEF TypeOK
  <2> QED BY <1>1, <1>2, <1>5, <2>1, <2>2, <2>3 DEF TypeOK
<1>7. DownState' BY <1>2 DEF DownState
<1>8. Numbering'
  <2>1. \A f \in active \cup imm \cup op : f.seq < seq /\ f.seq \in Int
    BY <1>1 DEF Numbering, TypeOK, Writes
  <2>2. seq \in Int BY <1>1 DEF TypeOK
  <2>3. \A f \in active \cup imm \cup op : f.seq < seq + 1 BY <2>1, <2>2
  <2> QED BY <1>1, <1>2, <2>3 DEF Numbering
<1>9. Call' BY <1>1, <1>2 DEF Call
<1>10. Held' BY <1>1, <1>2 DEF Held, ThisLife
<1>11. NobodyBusy' <=> NobodyBusy BY <1>2 DEF NobodyBusy, Busy
<1>12. Logged'
  <2>1. active # {} => active \subseteq wals'[wal] \cup cut' BY <1>1, <1>2, <1>5 DEF Logged
  <2>2. imm # {} /\ l0 = << >> =>
          FirstWal \in DOMAIN wals' /\ imm \subseteq wals'[FirstWal] \cup cut'
    BY <1>1, <1>2, <1>5 DEF Logged
  <2> QED BY <1>1, <1>2, <1>5, <1>11, <2>1, <2>2 DEF Logged
<1>13. OneFlush' BY <1>1, <1>2, <1>11 DEF OneFlush, FlushTask, Busy
<1>14. AckedInFilesUnlessCut'
  <2>1. (phase # "down" /\ Held /\ Logged /\ OneFlush => AckedInFilesUnlessCut)'
    BY MemtablesInFiles, PTL
  <2> QED BY <1>2, <1>10, <1>12, <1>13, <2>1
<1> QED BY <1>6, <1>7, <1>8, <1>9, <1>10, <1>12, <1>13, <1>14 DEF Inv

\* The write is in the memtable; it is acknowledged unless it fills it.
LEMMA WriteInsertStep ==
  ASSUME Inv, WriteInsert
  PROVE  Inv'
<1>1. TypeOK /\ DownState /\ Numbering /\ Call /\ Held /\ Logged /\ OneFlush
  BY DEF Inv
<1>2. /\ pc = "insert" /\ active' = active \cup op
      /\ UNCHANGED <<phase, life, seq, imm, wal, unwritten, rotated, queue, at, task, l0,
                     wals, sst, tail, full, split, torn, cut>>
  BY DEF WriteInsert, files, log, sector
<1>3. \/ pc' = "freeze" /\ op' = op /\ acked' = acked /\ imm = {}
      \/ pc' = "idle" /\ acked' = acked \cup op /\ op' = {}
  BY DEF WriteInsert, Freezes
<1>4. /\ phase # "down" /\ op # {} /\ op \subseteq Writes
      /\ \E e \in Writes : op = {e} /\ e.seq + 1 = seq
  BY <1>1, <1>2 DEF DownState, Call, TypeOK
<1>5. TypeOK' BY <1>1, <1>2, <1>3, <1>4 DEF TypeOK
<1>6. DownState' BY <1>2, <1>4 DEF DownState
<1>7. \A e \in op : e.life = life /\ e.seq < seq BY <1>1 DEF Numbering
<1>8. Numbering'
  <2>1. \A e \in acked' : e.life <= life
    <3>1. \A e \in op : e.life <= life
      BY <1>1, <1>7 DEF TypeOK, Writes
    <3> QED BY <1>1, <1>3, <3>1 DEF Numbering
  <2>2. \A e \in imm, f \in active' : e.seq < f.seq
    BY <1>1, <1>2 DEF Numbering
  <2>3. op' \subseteq op /\ pc' # "insert" BY <1>3
  <2> QED BY <1>1, <1>2, <2>1, <2>2, <2>3 DEF Numbering
<1>9. Call' BY <1>1, <1>2, <1>3, <1>4 DEF Call
<1>10. Held'
  <2>1. ThisLife = active \cup imm BY <1>1, <1>2, <1>4 DEF Held
  <2>2. CASE pc' = "freeze" BY <1>2, <1>3, <2>1, <2>2 DEF Held, ThisLife
  <2>3. CASE pc' = "idle"
    <3>1. ThisLife' = ThisLife \cup op BY <1>2, <1>3, <1>7, <2>3 DEF ThisLife
    <3> QED BY <1>2, <2>1, <2>3, <3>1 DEF Held
  <2> QED BY <1>3, <2>2, <2>3
<1>11. NobodyBusy' <=> NobodyBusy BY <1>2 DEF NobodyBusy, Busy
<1>12. Logged' BY <1>1, <1>2, <1>4, <1>11 DEF Logged, Call
<1>13. OneFlush' BY <1>1, <1>2, <1>11 DEF OneFlush, FlushTask, Busy
<1>14. AckedInFilesUnlessCut'
  <2>1. (phase # "down" /\ Held /\ Logged /\ OneFlush => AckedInFilesUnlessCut)'
    BY MemtablesInFiles, PTL
  <2> QED BY <1>2, <1>4, <1>10, <1>12, <1>13, <2>1
<1> QED BY <1>5, <1>6, <1>8, <1>9, <1>10, <1>12, <1>13, <1>14 DEF Inv

\* The log the freeze opens is named by the number of the write in progress:
\* it is not the log that the frozen memtable is in.
LEMMA NextLog ==
  ASSUME Inv, pc = "freeze"
  PROVE  Max({e.seq : e \in active}) \in Paths \ {FirstWal}
<1>1. TypeOK /\ Numbering /\ Call BY DEF Inv
<1>2. PICK m \in Writes : op = {m} /\ m.seq + 1 = seq BY <1>1 DEF Call
<1>3. m \in active BY <1>1, <1>2 DEF Call
<1> DEFINE S == {e.seq : e \in active}
<1>4. m.seq \in S /\ m.seq \in 1 .. MaxSeq BY <1>2, <1>3 DEF Writes
<1>5. \A x \in S : x \in 1 .. MaxSeq /\ m.seq >= x
  <2> SUFFICES ASSUME NEW e \in active PROVE e.seq \in 1 .. MaxSeq /\ m.seq >= e.seq
    OBVIOUS
  <2>1. e \in Writes /\ e.seq < seq BY <1>1 DEF TypeOK, Numbering
  <2> QED BY <1>1, <1>2, <1>4, <2>1, EngineBoundsAssumption DEF Writes, TypeOK
<1>6. Max(S) \in S
  <2>1. \E x \in S : \A y \in S : x >= y BY <1>4, <1>5
  <2> HIDE DEF S
  <2> QED BY <2>1 DEF Max
<1> QED BY <1>5, <1>6, EngineBoundsAssumption DEF Paths, FirstWal

\* The freeze moves the memtable; what the truncation takes from its log is
\* recorded as cut off.
LEMMA FreezeStep ==
  ASSUME Inv, Freeze
  PROVE  Inv'
<1>1. TypeOK /\ DownState /\ Numbering /\ Call /\ Held /\ Logged /\ OneFlush
  BY DEF Inv
<1>2. /\ pc = "freeze" /\ imm' = active /\ active' = {} /\ rotated' = wal
      /\ unwritten' = TRUE /\ pc' = "push"
      /\ tail' = {} /\ full' = FALSE /\ split' = FALSE /\ torn' = FALSE
      /\ UNCHANGED <<phase, life, seq, op, queue, at, task, l0, sst, acked>>
  BY DEF Freeze, NewWriter
<1>3. wal' \in Paths \ {FirstWal} BY NextLog DEF Freeze
<1>4. /\ phase # "down" /\ imm = {} /\ op # {} /\ op \subseteq active
      /\ \E e \in Writes : op = {e} /\ e.seq + 1 = seq
  BY <1>1, <1>2 DEF DownState, Call
<1>5. /\ wal = FirstWal /\ queue = << >> /\ l0 = << >> /\ NobodyBusy
      /\ wal \in DOMAIN wals /\ active # {} /\ active \subseteq wals[FirstWal] \cup cut
  BY <1>1, <1>4 DEF Logged
<1>6. /\ DOMAIN wals' = DOMAIN wals \cup {wal'}
      /\ \A q \in DOMAIN wals' : wals'[q] \subseteq IF q \in DOMAIN wals THEN wals[q] ELSE {}
      /\ wals[FirstWal] \cup cut \subseteq wals'[FirstWal] \cup cut'
      /\ cut' \subseteq Writes
  <2>1. PICK off \in {{}, Doomed} : /\ wals' = [Opened(wal') EXCEPT ![wal] = @ \ off]
                                    /\ cut' = cut \cup off
    BY DEF Freeze
  <2>2. /\ DOMAIN Opened(wal') = DOMAIN wals \cup {wal'}
        /\ \A q \in DOMAIN wals \cup {wal'} :
             Opened(wal')[q] = IF q \in DOMAIN wals THEN wals[q] ELSE {}
    BY DEF Opened
  <2>3. off \subseteq Writes BY <1>1 DEF TypeOK, Doomed
  <2> QED BY <1>1, <1>5, <2>1, <2>2, <2>3 DEF TypeOK
<1>7. TypeOK'
  <2>1. DOMAIN wals \subseteq Paths /\ \A p \in DOMAIN wals : wals[p] \subseteq Writes
    BY <1>1 DEF TypeOK
  <2>2. DOMAIN wals' \subseteq Paths /\ \A p \in DOMAIN wals' : wals'[p] \subseteq Writes
    BY <1>3, <1>6, <2>1
  <2>3. full' \in BOOLEAN /\ split' \in BOOLEAN /\ torn' \in BOOLEAN
    BY Zenon DEF Freeze, NewWriter
  <2>4. tail' = {} /\ cut' \subseteq Writes BY <1>6 DEF Freeze, NewWriter
  <2> QED BY <1>1, <1>2, <1>3, <1>4, <2>2, <2>3, <2>4 DEF TypeOK
<1>8. DownState' BY <1>2, <1>4 DEF DownState
<1>9. Numbering' BY <1>1, <1>2 DEF Numbering
<1>10. NobodyBusy' BY <1>2, <1>5 DEF NobodyBusy, Busy
<1>11. Call' BY <1>1, <1>2, <1>4, <1>5, <1>10 DEF Call
<1>12. Held' BY <1>1, <1>2, <1>4 DEF Held, ThisLife
<1>13. Logged' BY <1>2, <1>3, <1>5, <1>6 DEF Logged
<1>14. OneFlush' BY <1>2, <1>5, <1>10 DEF OneFlush, NobodyBusy
<1>15. AckedInFilesUnlessCut'
  <2>1. (phase # "down" /\ Held /\ Logged /\ OneFlush => AckedInFilesUnlessCut)'
    BY MemtablesInFiles, PTL
  <2> QED BY <1>2, <1>4, <1>12, <1>13, <1>14, <2>1
<1> QED BY <1>7, <1>8, <1>9, <1>11, <1>12, <1>13, <1>14, <1>15 DEF Inv

\* The task is queued, or dropped, and the write is acknowledged.
LEMMA PushTaskStep ==
  ASSUME Inv, PushTask
  PROVE  Inv'
<1>1. TypeOK /\ DownState /\ Numbering /\ Call /\ Held /\ Logged /\ OneFlush
  BY DEF Inv
<1>2. /\ pc = "push" /\ pc' = "idle" /\ acked' = acked \cup op /\ op' = {}
      /\ UNCHANGED <<phase, life, seq, active, imm, wal, unwritten, rotated, at, task, l0,
                     wals, sst, tail, full, split, torn, cut>>
  BY DEF PushTask, files, log, sector
<1>3. /\ phase # "down" /\ imm # {} /\ op \subseteq imm /\ active = {}
      /\ queue = << >> /\ NobodyBusy /\ l0 = << >>
  BY <1>1, <1>2 DEF DownState, Call
<1>4. queue' = <<FlushTask>>
  <2>1. Len(queue) < QUEUE_CAPACITY BY <1>3, QueueAssumption
  <2> QED BY <1>3, <2>1 DEF PushTask, FlushTask
<1>5. TypeOK'
  <2>1. FlushTask \in [mem : SUBSET Writes, wal : Paths] BY <1>1 DEF TypeOK, FlushTask
  <2>2. queue' \in Seq([mem : SUBSET Writes, wal : Paths]) /\ Len(queue') <= QUEUE_CAPACITY
    BY <1>4, <2>1, QueueAssumption
  <2> QED BY <1>1, <1>2, <2>2 DEF TypeOK
<1>6. DownState' BY <1>2, <1>3 DEF DownState
<1>7. \A e \in op : e.life = life /\ e.seq < seq BY <1>1 DEF Numbering
<1>8. Numbering'
  <2>1. \A e \in op : e.life <= life BY <1>1, <1>7 DEF TypeOK, Writes
  <2> QED BY <1>1, <1>2, <2>1 DEF Numbering
<1>9. Call' BY <1>2 DEF Call
<1>10. Held'
  <2>1. ThisLife' = ThisLife \cup op BY <1>2, <1>7 DEF ThisLife
  <2> QED BY <1>1, <1>2, <1>3, <2>1 DEF Held
<1>11. NobodyBusy' BY <1>2, <1>3 DEF NobodyBusy, Busy
<1>12. Logged' BY <1>1, <1>2, <1>3 DEF Logged
<1>13. OneFlush' BY <1>2, <1>3, <1>4, <1>11 DEF OneFlush, FlushTask, NobodyBusy
<1>14. AckedInFilesUnlessCut'
  <2>1. (phase # "down" /\ Held /\ Logged /\ OneFlush => AckedInFilesUnlessCut)'
    BY MemtablesInFiles, PTL
  <2> QED BY <1>2, <1>3, <1>10, <1>12, <1>13, <2>1
<1> QED BY <1>5, <1>6, <1>8, <1>9, <1>10, <1>12, <1>13, <1>14 DEF Inv

-----------------------------------------------------------------------------
(* The workers *)

\* A worker step leaves the memtables and the history alone, and is taken only
\* while the node runs.
LEMMA ClientKept ==
  ASSUME Inv, UNCHANGED client,
         NEW w \in Workers, at[w] \notin {"exited", "dead"}
  PROVE  /\ phase # "down" /\ phase' = phase
         /\ UNCHANGED <<life, seq, active, imm, wal, unwritten, pc, op, rotated, acked>>
         /\ ThisLife' = ThisLife /\ DownState' /\ Numbering' /\ Held'
<1> USE DEF client
<1>1. phase # "down" BY DEF Inv, DownState
<1>2. ThisLife' = ThisLife BY DEF ThisLife
<1>3. DownState' BY <1>1 DEF DownState
<1>4. Numbering' BY DEF Inv, Numbering
<1>5. Held' BY <1>2 DEF Inv, Held
<1> QED BY <1>1, <1>2, <1>3, <1>4, <1>5

\* A worker that looks whether to go on, finds no task, or panics.
LEMMA IdleWorkerStep ==
  ASSUME Inv, NEW w \in Workers, CheckRunning(w) \/ PopEmpty(w) \/ WorkerPanics(w)
  PROVE  Inv'
<1>1. TypeOK /\ Call /\ Logged /\ OneFlush BY DEF Inv
<1>2. /\ UNCHANGED <<client, queue, l0, wals, sst, tail, full, split, torn, cut>>
      /\ at[w] \notin {"exited", "dead"}
      /\ at'[w] \in {"check", "pop", "exited", "dead"}
      /\ \A v \in Workers : v # w => at'[v] = at[v] /\ task'[v] = task[v]
  BY <1>1 DEF CheckRunning, PopEmpty, WorkerPanics, MoveTo, TypeOK, files, log, sector
<1>3. /\ phase # "down" /\ phase' = phase
      /\ UNCHANGED <<life, seq, active, imm, wal, unwritten, pc, op, rotated, acked>>
      /\ ThisLife' = ThisLife /\ DownState' /\ Numbering' /\ Held'
  BY <1>2, ClientKept
<1>4. TypeOK'
  <2>1. NoTask \in [mem : SUBSET Writes, wal : Paths]
    BY EngineBoundsAssumption DEF NoTask, Paths, FirstWal
  <2>2. /\ task' \in [Workers -> [mem : SUBSET Writes, wal : Paths]]
        /\ at' \in [Workers -> {"check", "pop", "create", "write", "add", "remove",
                                "exited", "dead"}]
    BY <1>1, <2>1 DEF CheckRunning, PopEmpty, WorkerPanics, MoveTo, TypeOK
  <2> QED BY <1>1, <1>2, <1>3, <2>2 DEF TypeOK
<1>5. \A v \in Workers : Busy(v)' => Busy(v) /\ v # w BY <1>2 DEF Busy
<1>6. NobodyBusy => NobodyBusy' BY <1>5 DEF NobodyBusy
<1>7. Call' BY <1>1, <1>2, <1>3, <1>6 DEF Call
<1>8. Logged' BY <1>1, <1>2, <1>3, <1>6 DEF Logged
<1>9. OneFlush' BY <1>1, <1>2, <1>3, <1>5, <1>6 DEF OneFlush, FlushTask
<1>10. AckedInFilesUnlessCut' BY <1>2, <1>3 DEF Inv, AckedInFilesUnlessCut
<1> QED BY <1>3, <1>4, <1>7, <1>8, <1>9, <1>10 DEF Inv

\* A worker takes the task: nobody else has one.
LEMMA PopTaskStep ==
  ASSUME Inv, NEW w \in Workers, PopTask(w)
  PROVE  Inv'
<1>1. TypeOK /\ Call /\ Logged /\ OneFlush BY DEF Inv
<1>2. /\ UNCHANGED <<client, l0, wals, sst, tail, full, split, torn, cut>>
      /\ at[w] = "pop" /\ at'[w] = "create" /\ queue # << >>
      /\ task' = [task EXCEPT ![w] = Head(queue)] /\ queue' = Tail(queue)
      /\ at' = [at EXCEPT ![w] = "create"]
      /\ \A v \in Workers : v # w => at'[v] = at[v]
  BY <1>1 DEF PopTask, MoveTo, TypeOK, files, log, sector
<1>3. /\ phase # "down" /\ phase' = phase
      /\ UNCHANGED <<life, seq, active, imm, wal, unwritten, pc, op, rotated, acked>>
      /\ ThisLife' = ThisLife /\ DownState' /\ Numbering' /\ Held'
  BY <1>2, ClientKept
<1>4. queue = <<FlushTask>> /\ NobodyBusy /\ l0 = << >> BY <1>1, <1>2 DEF OneFlush
<1>5. Head(queue) = FlushTask /\ queue' = << >> BY <1>2, <1>4
<1>6. FlushTask \in [mem : SUBSET Writes, wal : Paths] BY <1>1 DEF TypeOK, FlushTask
<1>7. task'[w] = FlushTask BY <1>1, <1>2, <1>5 DEF TypeOK
<1>8. TypeOK'
  <2>1. task' \in [Workers -> [mem : SUBSET Writes, wal : Paths]]
    BY <1>1, <1>2, <1>5, <1>6 DEF TypeOK
  <2>2. at' \in [Workers -> {"check", "pop", "create", "write", "add", "remove",
                            "exited", "dead"}]
    BY <1>1, <1>2 DEF TypeOK
  <2>3. queue' \in Seq([mem : SUBSET Writes, wal : Paths]) /\ Len(queue') <= QUEUE_CAPACITY
    BY <1>5, QueueAssumption
  <2> QED BY <1>1, <1>2, <1>3, <2>1, <2>2, <2>3 DEF TypeOK
<1>9. \A v \in Workers : Busy(v)' => v = w BY <1>2, <1>4 DEF Busy, NobodyBusy
<1>10. imm # {} /\ pc # "push" BY <1>1, <1>2, <1>3 DEF Logged, Call
<1>11. Call' BY <1>1, <1>2, <1>3, <1>10 DEF Call
<1>12. Logged' BY <1>1, <1>2, <1>3, <1>10 DEF Logged
<1>13. FlushTask' = FlushTask BY <1>3 DEF FlushTask
<1>14. OneFlush' BY <1>2, <1>4, <1>5, <1>7, <1>9, <1>13 DEF OneFlush
<1>15. AckedInFilesUnlessCut' BY <1>2, <1>3 DEF Inv, AckedInFilesUnlessCut
<1> QED BY <1>3, <1>8, <1>11, <1>12, <1>14, <1>15 DEF Inv

\* What holds for a worker with the task: there is a frozen memtable, its log
\* is not the one being written, and no call is freezing another.
LEMMA BusyWorker ==
  ASSUME Inv, NEW w \in Workers, Busy(w)
  PROVE  /\ phase # "down" /\ imm # {} /\ task[w] = FlushTask /\ queue = << >>
         /\ pc # "push" /\ wal # FirstWal /\ rotated = FirstWal
         /\ \A v \in Workers : Busy(v) => v = w
         /\ at[w] # "remove" =>
              l0 = << >> /\ FirstWal \in DOMAIN wals /\ imm \subseteq wals[FirstWal] \cup cut
         /\ at[w] = "add" => sst = imm
         /\ at[w] = "remove" => l0 = <<SstPath>> /\ sst = imm
<1>1. DownState /\ Call /\ Logged /\ OneFlush BY DEF Inv
<1>2. phase # "down" BY <1>1 DEF DownState, Busy
<1>3. ~NobodyBusy BY DEF NobodyBusy
<1>4. imm # {} /\ pc # "push" BY <1>1, <1>2, <1>3 DEF Logged, Call
<1> QED BY <1>1, <1>2, <1>4 DEF Logged, OneFlush

\* Truncating and writing the table file: the log still holds the memtable.
LEMMA SstStep ==
  ASSUME Inv, NEW w \in Workers, CreateSst(w) \/ WriteSst(w)
  PROVE  Inv'
<1>1. TypeOK /\ Call /\ Logged /\ OneFlush BY DEF Inv
<1>2. /\ UNCHANGED <<client, queue, task, l0, wals, tail, full, split, torn, cut>>
      /\ at[w] \in {"create", "write"}
      /\ at'[w] = "write" \/ (at'[w] = "add" /\ sst' = task[w].mem)
      /\ at' \in [Workers -> {"check", "pop", "create", "write", "add", "remove",
                              "exited", "dead"}]
      /\ \A v \in Workers : v # w => at'[v] = at[v]
      /\ sst' = {} \/ sst' = task[w].mem
  BY <1>1 DEF CreateSst, WriteSst, MoveTo, TypeOK, log, sector
<1>3. Busy(w) /\ Busy(w)' BY <1>2 DEF Busy
<1>4. /\ phase # "down" /\ imm # {} /\ task[w] = FlushTask /\ queue = << >>
      /\ pc # "push" /\ \A v \in Workers : Busy(v) => v = w
      /\ l0 = << >> /\ FirstWal \in DOMAIN wals /\ imm \subseteq wals[FirstWal] \cup cut
  BY <1>2, <1>3, BusyWorker
<1>5. task[w].mem = imm BY <1>4 DEF FlushTask
<1>6. /\ phase' = phase
      /\ UNCHANGED <<life, seq, active, imm, wal, unwritten, pc, op, rotated, acked>>
      /\ ThisLife' = ThisLife /\ DownState' /\ Numbering' /\ Held'
  BY <1>2, ClientKept
<1>7. TypeOK' BY <1>1, <1>2, <1>5, <1>6 DEF TypeOK
<1>8. \A v \in Workers : Busy(v)' => v = w BY <1>2, <1>4 DEF Busy
<1>9. Call' BY <1>1, <1>2, <1>4, <1>6 DEF Call
<1>10. Logged' BY <1>1, <1>2, <1>4, <1>6 DEF Logged
<1>11. FlushTask' = FlushTask BY <1>6 DEF FlushTask
<1>12. OneFlush' BY <1>2, <1>4, <1>5, <1>6, <1>8, <1>11 DEF OneFlush
<1>13. AckedInFilesUnlessCut'
  <2>1. (phase # "down" /\ Held /\ Logged /\ OneFlush => AckedInFilesUnlessCut)'
    BY MemtablesInFiles, PTL
  <2> QED BY <1>4, <1>6, <1>10, <1>12, <2>1
<1> QED BY <1>6, <1>7, <1>9, <1>10, <1>12, <1>13 DEF Inv

\* The table joins L0, where it is the only one.
LEMMA AddL0Step ==
  ASSUME Inv, NEW w \in Workers, AddL0(w)
  PROVE  Inv'
<1>1. TypeOK /\ Call /\ Logged /\ OneFlush BY DEF Inv
<1>2. /\ UNCHANGED <<client, queue, task, wals, sst, tail, full, split, torn, cut>>
      /\ at[w] = "add" /\ at'[w] = "remove" /\ l0' = Append(l0, SstPath)
      /\ at' \in [Workers -> {"check", "pop", "create", "write", "add", "remove",
                              "exited", "dead"}]
      /\ \A v \in Workers : v # w => at'[v] = at[v]
  BY <1>1 DEF AddL0, MoveTo, TypeOK, files, log, sector
<1>3. Busy(w) /\ Busy(w)' BY <1>2 DEF Busy
<1>4. /\ phase # "down" /\ imm # {} /\ task[w] = FlushTask /\ queue = << >>
      /\ pc # "push" /\ \A v \in Workers : Busy(v) => v = w
      /\ l0 = << >> /\ sst = imm
  BY <1>2, <1>3, BusyWorker
<1>5. /\ phase' = phase
      /\ UNCHANGED <<life, seq, active, imm, wal, unwritten, pc, op, rotated, acked>>
      /\ ThisLife' = ThisLife /\ DownState' /\ Numbering' /\ Held'
  BY <1>2, ClientKept
<1>6. l0' = <<SstPath>> /\ l0' # << >> /\ l0' \in Seq({SstPath})
  BY <1>2, <1>4
<1>7. TypeOK' BY <1>1, <1>2, <1>5, <1>6 DEF TypeOK
<1>8. \A v \in Workers : Busy(v)' => v = w BY <1>2, <1>4 DEF Busy
<1>9. Call' BY <1>1, <1>2, <1>4, <1>5 DEF Call
<1>10. Logged' BY <1>1, <1>2, <1>4, <1>5, <1>6 DEF Logged
<1>11. FlushTask' = FlushTask BY <1>5 DEF FlushTask
<1>12. OneFlush' BY <1>2, <1>4, <1>5, <1>6, <1>8, <1>11 DEF OneFlush
<1>13. AckedInFilesUnlessCut' BY <1>2, <1>5 DEF Inv, AckedInFilesUnlessCut
<1> QED BY <1>5, <1>7, <1>9, <1>10, <1>12, <1>13 DEF Inv

\* The log of the frozen memtable goes once the table holds it.
LEMMA RemoveWalStep ==
  ASSUME Inv, NEW w \in Workers, RemoveWal(w)
  PROVE  Inv'
<1>1. TypeOK /\ Call /\ Logged /\ OneFlush BY DEF Inv
<1>2. /\ UNCHANGED <<client, queue, l0, sst, tail, full, split, torn, cut>>
      /\ at[w] = "remove" /\ at'[w] = "check"
      /\ task' = [task EXCEPT ![w] = NoTask]
      /\ at' \in [Workers -> {"check", "pop", "create", "write", "add", "remove",
                              "exited", "dead"}]
      /\ \A v \in Workers : v # w => at'[v] = at[v]
  BY <1>1 DEF RemoveWal, MoveTo, TypeOK, sector
<1>3. Busy(w) /\ ~Busy(w)' BY <1>2 DEF Busy
<1>4. /\ phase # "down" /\ imm # {} /\ task[w] = FlushTask /\ queue = << >>
      /\ pc # "push" /\ \A v \in Workers : Busy(v) => v = w
      /\ wal # FirstWal /\ rotated = FirstWal /\ l0 = <<SstPath>> /\ sst = imm
  BY <1>2, <1>3, BusyWorker
<1>5. /\ phase' = phase
      /\ UNCHANGED <<life, seq, active, imm, wal, unwritten, pc, op, rotated, acked>>
      /\ ThisLife' = ThisLife /\ DownState' /\ Numbering' /\ Held'
  BY <1>2, ClientKept
<1>6. /\ wal \in DOMAIN wals /\ wal \in DOMAIN wals' /\ DOMAIN wals' \subseteq DOMAIN wals
      /\ \A p \in DOMAIN wals' : wals'[p] = wals[p]
  <2>1. wal \in DOMAIN wals BY <1>1, <1>4 DEF Logged
  <2>2. task[w].wal = FirstWal BY <1>4 DEF FlushTask
  <2>3. PICK gone \in {{}, {task[w].wal}} : wals' = [p \in DOMAIN wals \ gone |-> wals[p]]
    BY DEF RemoveWal
  <2> QED BY <1>4, <2>1, <2>2, <2>3
<1>7. TypeOK'
  <2>1. NoTask \in [mem : SUBSET Writes, wal : Paths]
    BY EngineBoundsAssumption DEF NoTask, Paths, FirstWal
  <2>2. task' \in [Workers -> [mem : SUBSET Writes, wal : Paths]]
    BY <1>1, <1>2, <2>1 DEF TypeOK
  <2>3. DOMAIN wals' \subseteq Paths /\ \A p \in DOMAIN wals' : wals'[p] \subseteq Writes
    BY <1>1, <1>6 DEF TypeOK
  <2> QED BY <1>1, <1>2, <1>5, <2>2, <2>3 DEF TypeOK
<1>8. \A v \in Workers : ~Busy(v)' BY <1>2, <1>3, <1>4 DEF Busy
<1>9. l0 # << >> BY <1>4
<1>10. Call' BY <1>1, <1>2, <1>4, <1>5, <1>6 DEF Call
<1>11. Logged' BY <1>1, <1>2, <1>4, <1>5, <1>6, <1>9 DEF Logged
<1>12. OneFlush' BY <1>2, <1>4, <1>5, <1>8 DEF OneFlush
<1>13. AckedInFilesUnlessCut'
  <2>1. (phase # "down" /\ Held /\ Logged /\ OneFlush => AckedInFilesUnlessCut)'
    BY MemtablesInFiles, PTL
  <2> QED BY <1>4, <1>5, <1>11, <1>12, <2>1
<1> QED BY <1>5, <1>7, <1>10, <1>11, <1>12, <1>13 DEF Inv

-----------------------------------------------------------------------------
(* Theorems *)

\* A step that changes nothing.
LEMMA StutterStep ==
  ASSUME Inv, UNCHANGED vars
  PROVE  Inv'
<1> USE DEF vars, memory, files, log, sector
<1>1. TypeOK' BY DEF Inv, TypeOK
<1>2. DownState' /\ Numbering' BY DEF Inv, DownState, Numbering
<1>3. ThisLife' = ThisLife /\ FlushTask' = FlushTask /\ (NobodyBusy' <=> NobodyBusy)
  BY DEF ThisLife, FlushTask, NobodyBusy, Busy
<1>4. Call' /\ Held' /\ Logged' BY <1>3 DEF Inv, Call, Held, Logged
<1>5. OneFlush' BY <1>3 DEF Inv, OneFlush, Busy
<1>6. AckedInFilesUnlessCut' BY <1>3 DEF Inv, AckedInFilesUnlessCut
<1> QED BY <1>1, <1>2, <1>4, <1>5, <1>6 DEF Inv

\* The invariant holds in every life of the node, for any number of workers.
THEOREM EngineInvariant == Spec => []Inv
<1>1. Init => Inv BY InitInv
<1>2. Inv /\ [Next]_vars => Inv'
  <2> SUFFICES ASSUME Inv, [Next]_vars PROVE Inv'
    OBVIOUS
  <2>1. CASE UNCHANGED vars BY <2>1, StutterStep
  <2>2. CASE Open \/ Close \/ Joined \/ Crash BY <2>2, OpenStep, CloseStep, DownStep
  <2>3. ASSUME NEW k \in Keys, WriteAppend(k) PROVE Inv' BY <2>3, WriteAppendStep
  <2>6. CASE AppendFails BY <2>6, AppendFailsStep
  <2>4. CASE WriteStep BY <2>4, WriteInsertStep, FreezeStep, PushTaskStep DEF WriteStep
  <2>5. ASSUME NEW w \in Workers, WorkerStep(w) \/ WorkerPanics(w) PROVE Inv'
    BY <2>5, IdleWorkerStep, PopTaskStep, SstStep, AddL0Step, RemoveWalStep DEF WorkerStep
  <2> QED BY <2>1, <2>2, <2>3, <2>4, <2>5, <2>6 DEF Next
<1> QED BY <1>1, <1>2, PTL DEF Spec

\* Every variable keeps its type; the name a freeze gives its log exists.
THEOREM EngineTypes == Spec => []TypeOK
<1>1. Inv => TypeOK BY DEF Inv
<1> QED BY <1>1, EngineInvariant, PTL

\* No acknowledged write of the current life is ever without a file, wherever
\* a worker panics, an append fails or the process ends (engine.rs lines 64-83),
\* except for what the end of a sector has taken from the log.
THEOREM AckedWritesInFiles == Spec => []AckedInFilesUnlessCut
<1>1. Inv => AckedInFilesUnlessCut BY DEF Inv
<1> QED BY <1>1, EngineInvariant, PTL

\* get finds the keys of this life, newest memtable first
\* (engine.rs lines 145-192).
THEOREM GetNewestLayer == Spec => []GetFindsNewestLayer
<1>1. Inv => GetFindsNewestLayer
  <2> SUFFICES ASSUME Inv, phase = "up", pc = "idle", NEW k \in Keys
               PROVE  /\ Of(ThisLife, k) # {} => Get(k) # {}
                      /\ Get(k) \subseteq ThisLife
                      /\ \A e \in Get(k), f \in Of(ThisLife, k) :
                           e.seq < f.seq => SameLayer(e, f)
    BY DEF GetFindsNewestLayer
  <2>1. active \cup imm = ThisLife BY DEF Inv, Held
  <2>2. InL0 = {} \/ InL0 = imm BY DEF Inv, OneFlush, InL0
  <2>3. ASSUME NEW e \in imm, NEW f \in active PROVE ~(f.seq < e.seq)
    <3>1. e.seq < f.seq BY DEF Inv, Numbering
    <3>2. e.seq \in Int /\ f.seq \in Int BY DEF Inv, TypeOK, Writes
    <3> QED BY <3>1, <3>2
  <2>4. Of(ThisLife, k) # {} => Get(k) # {} BY <2>1 DEF Of, Get
  <2>5. Get(k) \subseteq ThisLife BY <2>1, <2>2 DEF Of, Get
  <2>6. ASSUME NEW e \in Get(k), NEW f \in Of(ThisLife, k), e.seq < f.seq
        PROVE  SameLayer(e, f)
    <3>1. f \in active \cup imm /\ f.key = k BY <2>1 DEF Of
    <3>2. CASE Of(active, k) # {}
      <4>1. e \in active BY <3>2 DEF Get, Of
      <4>2. f \in active BY <2>3, <2>6, <3>1, <4>1
      <4> QED BY <4>1, <4>2 DEF SameLayer
    <3>3. CASE Of(active, k) = {}
      <4>1. f \in imm BY <3>1, <3>3 DEF Of
      <4>2. e \in imm BY <3>1, <3>3, <4>1 DEF Get, Of
      <4> QED BY <4>1, <4>2 DEF SameLayer
    <3> QED BY <3>2, <3>3
  <2> QED BY <2>4, <2>5, <2>6
<1> QED BY <1>1, EngineInvariant, PTL

\* engine.rs lines 76-79 and 195-197: imm_mem is set for good by the first
\* freeze.
CompactionNeverDue == Len(l0) < L0_TRIGGER_COUNT

\* A life of the node flushes one memtable, so that L0 never has the tables
\* a compaction waits for (manager.rs line 47): the call in AddL0 does nothing.
THEOREM NoCompaction == Spec => []CompactionNeverDue
<1>1. Inv => CompactionNeverDue
  <2> SUFFICES ASSUME Inv PROVE Len(l0) < L0_TRIGGER_COUNT
    BY DEF CompactionNeverDue
  <2>1. l0 = << >> \/ l0 = <<SstPath>> BY DEF Inv, OneFlush
  <2>2. Len(l0) = 0 \/ Len(l0) = 1 BY <2>1
  <2> QED BY <2>2, TriggerAssumption
<1> QED BY <1>1, EngineInvariant, PTL
=============================================================================
