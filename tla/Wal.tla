-------------------------------- MODULE Wal ---------------------------------
(***************************************************************************)
(* The write-ahead log of tier3_storage/src/wal: the O_DIRECT writer, the  *)
(* record format and the recovery scanner, on a disk that may lose what    *)
(* was not synced.                                                         *)
(*                                                                         *)
(* The unit of data is a cell.  A record occupies n >= 1 cells, the first  *)
(* is its header; a cell names the record and its place in it, so a run of *)
(* cells passes the checksum exactly if they are the cells of one record   *)
(* in order.  The disk writes whole sectors, each of them atomically.      *)
(***************************************************************************)
EXTENDS Integers, Sequences, FiniteSets

CONSTANTS
  SECTOR_SIZE,   \* cells in a sector
  STAGING_SIZE,  \* cells in the staging buffer, a whole number of sectors
  Sizes,         \* the sizes, in cells, of the records that are appended
  MaxSectors,    \* bound: sectors of the file
  MaxSeq,        \* bound: sequence numbers given out by one writer
  MaxEpoch,      \* bound: number of times the log is opened
  MaxFailures    \* bound: number of writes that fail

ASSUME SectorAssumption == SECTOR_SIZE \in Nat \ {0}
ASSUME StagingAssumption ==
  /\ STAGING_SIZE \in Nat \ {0}
  /\ STAGING_SIZE % SECTOR_SIZE = 0
ASSUME SizesAssumption == Sizes \subseteq Nat \ {0}
ASSUME BoundsAssumption == MaxSectors \in Nat /\ MaxSeq \in Nat /\ MaxEpoch \in Nat
                            /\ MaxFailures \in Nat

VARIABLES
  sector_offset, \* file offset of the sector being filled
  tail_offset,   \* where in that sector the next record starts
  next_seq,
  staging,       \* the staging buffer
  disk,          \* the sectors as a read would find them
  vers,          \* vers[k]: the images of sector k a power failure may leave
  open,          \* is there a writer
  epoch,         \* which writer, counting from 1
  acked,         \* history: acked[e], the records writer e acknowledged
  synced,        \* history: how many of them sync has made durable
  failed,        \* history: records whose append returned an I/O error,
                 \* at most MaxFailures of them
  flush_end      \* history: some record ended exactly at a sector's end

writer == <<sector_offset, tail_offset, next_seq, staging>>
file == <<disk, vers>>
history == <<acked, synced, failed, flush_end>>
vars == <<writer, file, open, epoch, history>>

Zero == [epoch |-> 0, seq |-> 0, at |-> 0, size |-> 0]
Sectors == 0 .. MaxSectors - 1
Places == 0 .. SECTOR_SIZE - 1
Blank == [i \in Places |-> Zero]

Rec(e, s, n) == [epoch |-> e, seq |-> s, size |-> n]
Cell(r, i) == [epoch |-> r.epoch, seq |-> r.seq, at |-> i, size |-> r.size]

RoundUp(n) == ((n + SECTOR_SIZE - 1) \div SECTOR_SIZE) * SECTOR_SIZE

Records == [epoch : 1 .. MaxEpoch, seq : 1 .. MaxSeq, size : Sizes]
Cells == [epoch : 1 .. MaxEpoch, seq : 1 .. MaxSeq, at : Nat, size : Sizes] \cup {Zero}

TypeOK ==
  /\ sector_offset \in {k * SECTOR_SIZE : k \in 0 .. MaxSectors}
  /\ tail_offset \in Places
  /\ next_seq \in 1 .. MaxSeq + 1
  /\ staging \in [0 .. STAGING_SIZE - 1 -> Cells]
  /\ disk \in [Sectors -> [Places -> Cells]]
  /\ \A k \in Sectors : disk[k] \in vers[k] /\ vers[k] \subseteq [Places -> Cells]
  /\ open \in BOOLEAN
  /\ epoch \in 0 .. MaxEpoch
  /\ acked \in [1 .. MaxEpoch -> Seq(Records)]
  /\ synced \in 0 .. MaxSeq
  /\ failed \subseteq Records
  /\ flush_end \in BOOLEAN

-----------------------------------------------------------------------------
(* Recovery *)

\* decode_record: the record at p, if its header is there and the cells that
\* follow pass the checksum, within the buffer and with a larger sequence.
Decodes(buf, p, prev) ==
  /\ p < Len(buf)
  /\ buf[p + 1].at = 1
  /\ p + buf[p + 1].size <= Len(buf)
  /\ \A i \in 1 .. buf[p + 1].size : buf[p + i] = [buf[p + 1] EXCEPT !.at = i]
  /\ buf[p + 1].seq > prev

\* One turn of replay_all, at position x[1] and after sequence number x[2]; the
\* turns from any x on return rest[x].
Turn(buf, rest, x) ==
  IF ~Decodes(buf, x[1], x[2]) THEN << >>
  ELSE LET h == buf[x[1] + 1]
       IN  <<Rec(h.epoch, h.seq, h.size)>> \o rest[<<x[1] + h.size, h.seq>>]

\* replay_all: decode from the start until a record does not decode.
ReplayFrom(buf) ==
  LET scan[x \in (0 .. Len(buf)) \X Nat] == Turn(buf, scan, x) IN scan
Replay(buf) == ReplayFrom(buf)[<<0, 0>>]

\* What RecoveryScanner::open reads from the sectors img.
Contents(img) ==
  [j \in 1 .. MaxSectors * SECTOR_SIZE |->
     img[(j - 1) \div SECTOR_SIZE][(j - 1) % SECTOR_SIZE]]

\* The sectors a power failure may leave behind.
CrashImages ==
  { img \in [Sectors -> UNION {vers[k] : k \in Sectors}] :
      \A k \in Sectors : img[k] \in vers[k] }

-----------------------------------------------------------------------------
(* Faulty variants of the definitions below, each a plausible slip *)

\* The tail is left where the record ends in the staging buffer.
NextTail_Unwrapped(n) == tail_offset + n

\* The writer does not move on to the sector it moved to the front.
NextSector_Stays(n) == sector_offset

\* The last sector is not moved to the front of the staging buffer.
Shifted_NotMoved(buf, end) ==
  [i \in 0 .. STAGING_SIZE - 1 |-> IF SECTOR_SIZE <= i /\ i < end THEN Zero ELSE buf[i]]

\* sync reports success and the device has not written anything.
Sync_LeavesCache ==
  /\ open
  /\ synced' = Len(acked[epoch])
  /\ UNCHANGED <<writer, file, open, epoch, acked, failed, flush_end>>

-----------------------------------------------------------------------------
(* The writer *)

\* AlignedBuffer::new
EmptyStaging == [i \in 0 .. STAGING_SIZE - 1 |-> Zero]

\* The fields of a writer that WalWriter::open builds; they are gone when the
\* writer is.
ResetWriter ==
  /\ sector_offset' = 0 /\ tail_offset' = 0 /\ next_seq' = 1
  /\ staging' = EmptyStaging

Init ==
  /\ sector_offset = 0 /\ tail_offset = 0 /\ next_seq = 1
  /\ staging = EmptyStaging
  /\ disk = [k \in Sectors |-> Blank]
  /\ vers = [k \in Sectors |-> {Blank}]
  /\ open = FALSE /\ epoch = 0
  /\ acked = [e \in 1 .. MaxEpoch |-> << >>]
  /\ synced = 0 /\ failed = {} /\ flush_end = FALSE

\* The file is created or opened as it is: neither truncated nor scanned.
Open ==
  /\ ~open /\ epoch < MaxEpoch
  /\ open' = TRUE
  /\ epoch' = epoch + 1
  /\ ResetWriter
  /\ synced' = 0
  /\ UNCHANGED <<file, acked, failed, flush_end>>

\* The staging buffer once record r is encoded at the tail and the rest of
\* its last sector is zeroed.
Staged(r) ==
  LET new_tail == tail_offset + r.size
  IN  [i \in 0 .. STAGING_SIZE - 1 |->
         IF i < tail_offset \/ i >= RoundUp(new_tail) THEN staging[i]
         ELSE IF i < new_tail THEN Cell(r, i - tail_offset + 1)
         ELSE Zero]

SectorOf(buf, k) == [i \in Places |-> buf[k * SECTOR_SIZE + i]]

\* pwrite at sector_offset, of which the sectors in done reach the device.
Write(buf, done) ==
  LET first == sector_offset \div SECTOR_SIZE
      hit == {first + k : k \in done}
  IN  /\ disk' = [k \in Sectors |->
                    IF k \in hit THEN SectorOf(buf, k - first) ELSE disk[k]]
      /\ vers' = [k \in Sectors |->
                    IF k \in hit THEN vers[k] \cup {SectorOf(buf, k - first)}
                    ELSE vers[k]]

\* The staging buffer after its last sector was moved to the front.
Shifted(buf, end) ==
  LET last == end - SECTOR_SIZE
  IN  [i \in 0 .. STAGING_SIZE - 1 |->
         IF i < SECTOR_SIZE THEN buf[last + i]
         ELSE IF i < end THEN Zero
         ELSE buf[i]]

\* The part of append before the write: the sequence number is taken, and the
\* record fits in what the staging buffer has left.
Fits(n) ==
  /\ open /\ next_seq <= MaxSeq
  /\ n <= STAGING_SIZE
  /\ tail_offset + n <= STAGING_SIZE
  /\ sector_offset + RoundUp(tail_offset + n) <= MaxSectors * SECTOR_SIZE

\* Where the writer stands after a record of n cells.
NextTail(n) == (tail_offset + n) % SECTOR_SIZE
NextSector(n) == sector_offset + (RoundUp(tail_offset + n) - SECTOR_SIZE)

AppendOk(n) ==
  LET r == Rec(epoch, next_seq, n)
      end == RoundUp(tail_offset + n)
  IN  /\ Fits(n)
      /\ next_seq' = next_seq + 1
      /\ Write(Staged(r), 0 .. (end \div SECTOR_SIZE) - 1)
      /\ staging' = Shifted(Staged(r), end)
      /\ tail_offset' = NextTail(n)
      /\ sector_offset' = NextSector(n)
      /\ acked' = [acked EXCEPT ![epoch] = Append(@, r)]
      /\ flush_end' = (flush_end \/ (tail_offset + n) % SECTOR_SIZE = 0)
      /\ UNCHANGED <<open, epoch, synced, failed>>

\* pwrite fails, or writes less than it was given.  The sequence number and
\* the encoded staging buffer stay; the tail does not move.  What an error
\* leaves on the device is any of the sectors.
AppendFails(n, done) ==
  LET r == Rec(epoch, next_seq, n)
  IN  /\ Fits(n)
      /\ Cardinality(failed) < MaxFailures
      /\ next_seq' = next_seq + 1
      /\ Write(Staged(r), done)
      /\ staging' = Staged(r)
      /\ failed' = failed \cup {r}
      /\ UNCHANGED <<sector_offset, tail_offset, open, epoch, acked, synced, flush_end>>

AppendIoError(n) ==
  \E done \in SUBSET (0 .. (RoundUp(tail_offset + n) \div SECTOR_SIZE) - 1) :
    AppendFails(n, done)

\* PayloadTooLarge after the sequence number was taken: the record would fit
\* in an empty staging buffer, not behind the tail.
AppendNoRoom(n) ==
  /\ open /\ next_seq <= MaxSeq
  /\ n <= STAGING_SIZE
  /\ tail_offset + n > STAGING_SIZE
  /\ next_seq' = next_seq + 1
  /\ UNCHANGED <<sector_offset, tail_offset, staging, file, open, epoch, history>>

Sync ==
  /\ open
  /\ vers' = [k \in Sectors |-> {disk[k]}]
  /\ synced' = Len(acked[epoch])
  /\ UNCHANGED <<writer, disk, open, epoch, acked, failed, flush_end>>

\* ftruncate to the logical end; cells past the end read as nothing, and the
\* new length is durable only after a sync.
TruncateToLogicalEnd ==
  LET end == sector_offset + tail_offset
      cut == [k \in Sectors |-> [i \in Places |->
                IF k * SECTOR_SIZE + i < end THEN disk[k][i] ELSE Zero]]
  IN  /\ open
      /\ disk' = cut
      /\ vers' = [k \in Sectors |-> vers[k] \cup {cut[k]}]
      /\ UNCHANGED <<writer, open, epoch, history>>

\* Dropping the writer closes the file descriptor and nothing more.
Close ==
  /\ open
  /\ open' = FALSE
  /\ ResetWriter
  /\ UNCHANGED <<file, epoch, history>>

\* Power failure: every sector keeps one of the images it had since the last
\* sync.
Crash ==
  /\ open
  /\ open' = FALSE
  /\ \E img \in CrashImages :
       /\ disk' = img
       /\ vers' = [k \in Sectors |-> {img[k]}]
  /\ ResetWriter
  /\ UNCHANGED <<epoch, history>>

Next ==
  \/ Open \/ Sync \/ TruncateToLogicalEnd \/ Close \/ Crash
  \/ \E n \in Sizes : AppendOk(n) \/ AppendIoError(n) \/ AppendNoRoom(n)

Spec == Init /\ [][Next]_vars

-----------------------------------------------------------------------------
(* Properties *)

IsPrefixOf(s, t) == Len(s) <= Len(t) /\ s = SubSeq(t, 1, Len(s))

\* The records rs are the first k or more that writer e acknowledged, perhaps
\* followed by one whose append failed.
Explained(rs, e, k) ==
  \/ Len(rs) >= k /\ IsPrefixOf(rs, acked[e])
  \/ /\ Len(rs) > k /\ rs[Len(rs)] \in failed
     /\ IsPrefixOf(SubSeq(rs, 1, Len(rs) - 1), acked[e])

\* append acknowledges a record when it can be read back: replaying the file
\* yields every acknowledged record in order.
AckedReadBack ==
  open /\ acked[epoch] # << >> =>
    Explained(Replay(Contents(disk)), epoch, Len(acked[epoch]))

\* README, Crash Recovery Invariants: whatever sectors of the unsynced writes
\* a power failure keeps, recovery returns a prefix of the log of one writer,
\* with every synced record in it.
CrashLeavesPrefix ==
  open => \A img \in CrashImages :
    LET rs == Replay(Contents(img))
    IN  \/ Explained(rs, epoch, synced)
        \/ synced = 0 /\ \E e \in 1 .. epoch : Explained(rs, e, 0)

\* The properties above while no record has ended exactly at a sector's end.
AckedReadBackOffBoundary == ~flush_end => AckedReadBack
CrashLeavesPrefixOffBoundary == ~flush_end => CrashLeavesPrefix

\* The staging buffer holds what the file holds before the tail, so that
\* rewriting the sector being filled loses nothing (writer.rs lines 91-102).
StagingMirrorsFile ==
  open /\ acked[epoch] # << >> =>
    \A i \in 0 .. tail_offset - 1 :
      staging[i] = disk[sector_offset \div SECTOR_SIZE][i]
=============================================================================
