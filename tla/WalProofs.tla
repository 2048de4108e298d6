------------------------------ MODULE WalProofs -----------------------------
(***************************************************************************)
(* Proofs about Wal for sectors, staging buffers, records and files of any *)
(* size, and any number of writers, failures and crashes.                  *)
(***************************************************************************)
EXTENDS Wal, SequenceTheorems, WellFoundedInduction, TLAPS

-----------------------------------------------------------------------------
(* The arithmetic of sectors *)

\* Whole sectors are ordered as their numbers.
LEMMA SectorOrder ==
  ASSUME NEW a \in Int, NEW b \in Int
  PROVE  /\ a * SECTOR_SIZE \in Int
         /\ (a + b) * SECTOR_SIZE = a * SECTOR_SIZE + b * SECTOR_SIZE
         /\ (a - b) * SECTOR_SIZE = a * SECTOR_SIZE - b * SECTOR_SIZE
         /\ a < b => a * SECTOR_SIZE + SECTOR_SIZE <= b * SECTOR_SIZE
         /\ a * SECTOR_SIZE < b * SECTOR_SIZE + SECTOR_SIZE => a <= b
         /\ a * SECTOR_SIZE <= b * SECTOR_SIZE => a <= b
<1> DEFINE S == SECTOR_SIZE
<1>1. S \in Nat \ {0} BY SectorAssumption
<1> HIDE DEF S
<1>2. a * S \in Int /\ b * S \in Int BY <1>1
<1>3. (a + b) * S = a * S + b * S /\ (a - b) * S = a * S - b * S BY <1>1
<1>4. \A x, y \in Int : x < y => x * S + S <= y * S
  <2> SUFFICES ASSUME NEW x \in Int, NEW y \in Int, x < y PROVE x * S + S <= y * S
    OBVIOUS
  <2>1. (y - x - 1) * S >= 0 BY <1>1
  <2>2. (y - x - 1) * S = y * S - x * S - S BY <1>1
  <2>3. x * S \in Int /\ y * S \in Int BY <1>1
  <2> QED BY <1>1, <2>1, <2>2, <2>3
<1>5. a * S < b * S + S => a <= b
  <2>1. b < a => b * S + S <= a * S BY <1>4
  <2> QED BY <1>1, <1>2, <2>1
<1>6. a * S <= b * S => a <= b BY <1>1, <1>2, <1>5
<1> QED BY <1>2, <1>3, <1>4, <1>5, <1>6 DEF S

\* A place in the file: its sector and where it is in it.
LEMMA Place ==
  ASSUME NEW x \in Int
  PROVE  /\ x \div SECTOR_SIZE \in Int /\ x % SECTOR_SIZE \in Places
         /\ x = (x \div SECTOR_SIZE) * SECTOR_SIZE + (x % SECTOR_SIZE)
         /\ \A a \in Int, r \in Places :
              x = a * SECTOR_SIZE + r => x \div SECTOR_SIZE = a /\ (x % SECTOR_SIZE) = r
<1> DEFINE S == SECTOR_SIZE
<1>1. S \in Nat \ {0} BY SectorAssumption
<1>2. x \div S \in Int /\ x = S * (x \div S) + (x % S) /\ (x % S) \in 0 .. S - 1 BY <1>1
<1>3. S * (x \div S) = (x \div S) * S BY <1>1, <1>2
<1>4. ASSUME NEW a \in Int, NEW r \in Places, x = a * S + r PROVE x \div S = a /\ (x % S) = r
  <2>1. r \in 0 .. S - 1 BY DEF Places
  <2> DEFINE d == x \div S
             m == (x % S)
  <2>2. d \in Int /\ m \in 0 .. S - 1 /\ d * S + m = a * S + r BY <1>2, <1>3, <1>4
  <2>3. d * S \in Int /\ a * S \in Int BY <2>2, SectorOrder
  <2> HIDE DEF d, m
  <2>4. d * S < a * S + S BY <1>1, <2>1, <2>2, <2>3
  <2>5. a * S < d * S + S BY <1>1, <2>1, <2>2, <2>3
  <2>6. d <= a /\ a <= d BY <2>2, <2>4, <2>5, SectorOrder
  <2>7. d = a BY <2>2, <2>6
  <2>8. m = r BY <2>1, <2>2, <2>3, <2>7
  <2> QED BY <2>7, <2>8 DEF d, m
<1> QED BY <1>2, <1>3, <1>4 DEF Places

\* A record that ends at x reaches into q sectors, the last of which it may
\* fill.
LEMMA Rounded ==
  ASSUME NEW x \in Nat \ {0}
  PROVE  \E q \in Nat \ {0} :
           /\ RoundUp(x) = q * SECTOR_SIZE /\ RoundUp(x) \div SECTOR_SIZE = q
           /\ (q - 1) * SECTOR_SIZE = q * SECTOR_SIZE - SECTOR_SIZE
           /\ q * SECTOR_SIZE \in Nat
           /\ q * SECTOR_SIZE - SECTOR_SIZE < x /\ x <= q * SECTOR_SIZE
           /\ (x % SECTOR_SIZE) = IF x = q * SECTOR_SIZE THEN 0 ELSE x - (q * SECTOR_SIZE - SECTOR_SIZE)
<1> DEFINE S == SECTOR_SIZE
           y == x + S - 1
           q == y \div S
           m == (y % S)
<1>1. S \in Nat \ {0} BY SectorAssumption
<1>2. y \in Int /\ y >= S BY <1>1
<1>3. q \in Int /\ m \in Places /\ y = q * S + m BY <1>2, Place
<1>4. m \in 0 .. S - 1 BY <1>3 DEF Places
<1>5. q * S \in Int /\ (q - 1) * S = q * S - 1 * S /\ 1 * S = S /\ 0 * S = 0
  BY <1>1, <1>3, SectorOrder
<1>6. q >= 1
  <2>1. 0 * S < q * S BY <1>1, <1>2, <1>3, <1>4, <1>5
  <2>2. ~(q <= 0)
    <3>1. q < 0 => q * S + S <= 0 * S BY <1>3, SectorOrder
    <3>2. q = 0 => q * S = 0 * S OBVIOUS
    <3> QED BY <1>1, <1>3, <1>5, <2>1, <3>1, <3>2
  <2> QED BY <1>3, <2>2
<1>7. RoundUp(x) = q * S BY DEF RoundUp
<1> HIDE DEF q, m
<1>8. q * S - S < x /\ x <= q * S
  <2>1. x + S - 1 = q * S + m BY <1>3
  <2> HIDE DEF S, y
  <2> QED BY <1>1, <1>4, <1>5, <2>1
<1>9. RoundUp(x) \div S = q
  <2>1. q * S = q * S + 0 /\ 0 \in Places BY <1>1, <1>5 DEF Places
  <2> QED BY <1>3, <1>5, <1>7, <2>1, Place
<1>10. (x % S) = IF x = q * S THEN 0 ELSE x - (q * S - S)
  <2>1. CASE x = q * S
    <3>1. x = q * S + 0 /\ 0 \in Places BY <1>1, <1>5, <2>1 DEF Places
    <3> QED BY <1>3, <2>1, <3>1, Place
  <2>2. CASE x # q * S
    <3>1. x - (q * S - S) \in 0 .. S - 1 BY <1>1, <1>5, <1>8, <2>2
    <3>2. x = (q - 1) * S + (x - (q * S - S)) BY <1>1, <1>5
    <3>3. q - 1 \in Int BY <1>3
    <3> QED BY <2>2, <3>1, <3>2, <3>3, Place DEF Places
  <2> QED BY <2>1, <2>2
<1> QED BY <1>1, <1>3, <1>5, <1>6, <1>7, <1>8, <1>9, <1>10

-----------------------------------------------------------------------------
(* Types *)

\* A writer has its own log, which is empty before it is opened, and has given
\* out more sequence numbers than it has acknowledged.
Types ==
  /\ TypeOK
  /\ \A e \in 1 .. MaxEpoch : e > epoch => acked[e] = << >>
  /\ open => epoch >= 1 /\ Len(acked[epoch]) < next_seq

Buffer == [0 .. STAGING_SIZE - 1 -> Cells]
Sector == [Places -> Cells]

\* Where a record of n cells goes: from sector k, in q sectors, the first q
\* of the staging buffer.
LEMMA AppendPlace ==
  ASSUME Types, NEW n \in Sizes, Fits(n)
  PROVE  \E k \in Nat, q \in Nat \ {0} :
           /\ sector_offset = k * SECTOR_SIZE /\ sector_offset \div SECTOR_SIZE = k
           /\ sector_offset \in Nat /\ tail_offset \in Places /\ n \in Nat \ {0}
           /\ RoundUp(tail_offset + n) = q * SECTOR_SIZE
           /\ RoundUp(tail_offset + n) \div SECTOR_SIZE = q
           /\ q * SECTOR_SIZE \in Nat /\ q * SECTOR_SIZE - SECTOR_SIZE < tail_offset + n
           /\ tail_offset + n <= q * SECTOR_SIZE
           /\ k + q <= MaxSectors
           /\ \A d \in 0 .. q - 1 : /\ d * SECTOR_SIZE \in Nat
                                    /\ d * SECTOR_SIZE + SECTOR_SIZE <= q * SECTOR_SIZE
           /\ q * SECTOR_SIZE <= STAGING_SIZE
           /\ ((tail_offset + n) % SECTOR_SIZE) =
                IF tail_offset + n = q * SECTOR_SIZE THEN 0
                ELSE tail_offset + n - (q * SECTOR_SIZE - SECTOR_SIZE)
<1> DEFINE S == SECTOR_SIZE
           x == tail_offset + n
<1>1. S \in Nat \ {0} /\ n \in Nat \ {0} /\ tail_offset \in Places /\ tail_offset \in 0 .. S - 1
  BY SectorAssumption, SizesAssumption DEF Types, TypeOK, Places
<1>2. x \in Nat \ {0} BY <1>1
<1>3. PICK k \in 0 .. MaxSectors : sector_offset = k * S BY DEF Types, TypeOK
<1>4. k \in Nat /\ MaxSectors \in Nat /\ STAGING_SIZE \in Nat BY BoundsAssumption, StagingAssumption
<1>5. k * S \in Nat BY <1>1, <1>4
<1>6. sector_offset \div S = k
  <2>1. k * S = k * S + 0 /\ 0 \in Places BY <1>1, <1>5 DEF Places
  <2> QED BY <1>3, <1>4, <1>5, <2>1, Place
<1>7. PICK q \in Nat \ {0} :
           /\ RoundUp(x) = q * S /\ RoundUp(x) \div S = q
           /\ (q - 1) * S = q * S - S
           /\ q * S \in Nat
           /\ q * S - S < x /\ x <= q * S
           /\ (x % S) = IF x = q * S THEN 0 ELSE x - (q * S - S)
  BY <1>2, Rounded
<1>8. k + q <= MaxSectors
  <2>1. k * S + q * S <= MaxSectors * S BY <1>3, <1>7 DEF Fits
  <2>2. (k + q) * S = k * S + q * S BY <1>4, SectorOrder
  <2>3. k + q \in Int /\ MaxSectors \in Int BY <1>4
  <2>4. (k + q) * S <= MaxSectors * S BY <2>1, <2>2
  <2> QED BY <2>3, <2>4, SectorOrder
<1>9. ASSUME NEW d \in 0 .. q - 1 PROVE d * S \in Nat /\ d * S + S <= q * S
  BY <1>1, <1>9, SectorOrder
<1>10. q * S <= STAGING_SIZE
  <2> DEFINE t == STAGING_SIZE \div S
  <2>1. t \in Int /\ STAGING_SIZE = t * S + (STAGING_SIZE % S) BY <1>4, Place
  <2>2. t * S \in Int BY <2>1, SectorOrder
  <2>3. STAGING_SIZE = t * S BY <2>1, <2>2, StagingAssumption
  <2>4. x <= STAGING_SIZE BY DEF Fits
  <2> HIDE DEF t
  <2>5. q * S < t * S + S BY <1>1, <1>2, <1>7, <2>2, <2>3, <2>4
  <2>6. q <= t BY <2>1, <2>5, SectorOrder
  <2>7. q < t => q * S + S <= t * S BY <2>1, SectorOrder
  <2>8. q * S <= t * S BY <1>1, <1>7, <2>1, <2>2, <2>6, <2>7
  <2> QED BY <2>3, <2>8
<1> QED BY <1>1, <1>3, <1>4, <1>5, <1>6, <1>7, <1>8, <1>9, <1>10

\* The encoded staging buffer is one.
LEMMA StagedTypes ==
  ASSUME Types, NEW n \in Sizes, Fits(n), epoch >= 1
  PROVE  /\ Rec(epoch, next_seq, n) \in Records
         /\ Staged(Rec(epoch, next_seq, n)) \in Buffer
<1> DEFINE r == Rec(epoch, next_seq, n)
<1>1. epoch \in 1 .. MaxEpoch /\ next_seq \in 1 .. MaxSeq
  BY BoundsAssumption DEF Types, TypeOK, Fits
<1>2. r \in Records /\ r.size = n BY <1>1 DEF Rec, Records
<1>3. staging \in Buffer /\ tail_offset \in Nat BY SectorAssumption DEF Types, TypeOK, Buffer, Places
<1>4. Zero \in Cells BY DEF Cells
<1>5. ASSUME NEW i \in 0 .. STAGING_SIZE - 1, ~(i < tail_offset) PROVE Cell(r, i - tail_offset + 1) \in Cells
  <2>1. i - tail_offset + 1 \in Nat BY <1>3, <1>5, StagingAssumption
  <2>2. r.epoch \in 1 .. MaxEpoch /\ r.seq \in 1 .. MaxSeq /\ r.size \in Sizes BY <1>1 DEF Rec
  <2> HIDE DEF r
  <2> QED BY <2>1, <2>2 DEF Cell, Cells
<1> HIDE DEF r
<1>6. Staged(r) \in Buffer BY <1>3, <1>4, <1>5 DEF Staged, Buffer
<1> QED BY <1>2, <1>6 DEF r

\* What a write of sectors of the staging buffer does to the file.
LEMMA WriteTypes ==
  ASSUME Types, NEW n \in Sizes, Fits(n), NEW buf \in Buffer,
         NEW done \in SUBSET (0 .. (RoundUp(tail_offset + n) \div SECTOR_SIZE) - 1), Write(buf, done)
  PROVE  /\ disk' \in [Sectors -> Sector]
         /\ \A k \in Sectors : disk'[k] \in vers'[k] /\ vers'[k] \subseteq Sector
<1>1. PICK k \in Nat, q \in Nat \ {0} :
        /\ sector_offset \div SECTOR_SIZE = k
        /\ RoundUp(tail_offset + n) \div SECTOR_SIZE = q
        /\ q * SECTOR_SIZE \in Nat
        /\ \A d \in 0 .. q - 1 : /\ d * SECTOR_SIZE \in Nat
                                 /\ d * SECTOR_SIZE + SECTOR_SIZE <= q * SECTOR_SIZE
        /\ q * SECTOR_SIZE <= STAGING_SIZE
  BY AppendPlace
<1>2. ASSUME NEW d \in 0 .. q - 1 PROVE SectorOf(buf, d) \in Sector
  <2>1. ASSUME NEW i \in Places PROVE buf[d * SECTOR_SIZE + i] \in Cells
    <3>1. d * SECTOR_SIZE + i \in 0 .. STAGING_SIZE - 1
      BY <1>1, <2>1, SectorAssumption, StagingAssumption DEF Places
    <3> QED BY <3>1 DEF Buffer
  <2> QED BY <2>1 DEF SectorOf, Sector
<1>3. \A s : s \in {k + d : d \in done} => s - k \in done
  BY <1>1
<1>4. ASSUME NEW s \in Sectors, s \in {k + d : d \in done} PROVE SectorOf(buf, s - k) \in Sector
  BY <1>1, <1>2, <1>3, <1>4
<1>5. disk \in [Sectors -> Sector] /\ \A s \in Sectors : disk[s] \in vers[s] /\ vers[s] \subseteq Sector
  BY DEF Types, TypeOK, Sector
<1>6. /\ disk' = [s \in Sectors |-> IF s \in {k + d : d \in done} THEN SectorOf(buf, s - k) ELSE disk[s]]
      /\ vers' = [s \in Sectors |->
                    IF s \in {k + d : d \in done} THEN vers[s] \cup {SectorOf(buf, s - k)} ELSE vers[s]]
  BY <1>1 DEF Write
<1> HIDE DEF Sector
<1>7. disk' \in [Sectors -> Sector] BY <1>4, <1>5, <1>6
<1>8. \A s \in Sectors : disk'[s] \in vers'[s] /\ vers'[s] \subseteq Sector BY <1>4, <1>5, <1>6
<1> QED BY <1>7, <1>8


\* The fields of a new writer have their types.
LEMMA ResetTypes ==
  /\ 0 \in {k * SECTOR_SIZE : k \in 0 .. MaxSectors}
  /\ 0 \in Places /\ 1 \in 1 .. MaxSeq + 1 /\ EmptyStaging \in Buffer
<1>1. 0 = 0 * SECTOR_SIZE /\ 0 \in 0 .. MaxSectors BY SectorAssumption, BoundsAssumption
<1>2. 0 \in Places /\ 1 \in 1 .. MaxSeq + 1 BY SectorAssumption, BoundsAssumption DEF Places
<1>3. EmptyStaging \in Buffer BY DEF EmptyStaging, Buffer, Cells
<1> QED BY <1>1, <1>2, <1>3

\* An acknowledged append keeps the types.
LEMMA AppendOkTypes ==
  ASSUME Types, NEW n \in Sizes, AppendOk(n)
  PROVE  Types'
<1> DEFINE r == Rec(epoch, next_seq, n)
           end == RoundUp(tail_offset + n)
<1>1. Fits(n) /\ open /\ epoch >= 1 /\ epoch \in 1 .. MaxEpoch /\ next_seq \in 1 .. MaxSeq
  BY BoundsAssumption DEF AppendOk, Fits, Types, TypeOK
<1>2. r \in Records /\ Staged(r) \in Buffer BY <1>1, StagedTypes
<1>3. PICK k \in Nat, q \in Nat \ {0} :
        /\ sector_offset = k * SECTOR_SIZE
        /\ end = q * SECTOR_SIZE /\ end \div SECTOR_SIZE = q
        /\ q * SECTOR_SIZE \in Nat
        /\ k + q <= MaxSectors
        /\ \A d \in 0 .. q - 1 : /\ d * SECTOR_SIZE \in Nat
                                 /\ d * SECTOR_SIZE + SECTOR_SIZE <= q * SECTOR_SIZE
        /\ q * SECTOR_SIZE <= STAGING_SIZE
  BY <1>1, AppendPlace
<1>4. SECTOR_SIZE \in Nat \ {0} /\ STAGING_SIZE \in Nat /\ MaxSectors \in Nat /\ SECTOR_SIZE <= end
  <2>1. 0 * SECTOR_SIZE + SECTOR_SIZE <= q * SECTOR_SIZE BY <1>3
  <2> QED BY <1>3, <2>1, SectorAssumption, StagingAssumption, BoundsAssumption
<1>5. sector_offset' \in {j * SECTOR_SIZE : j \in 0 .. MaxSectors}
  <2>1. sector_offset' = k * SECTOR_SIZE + (q * SECTOR_SIZE - SECTOR_SIZE)
    BY <1>3 DEF AppendOk, NextSector
  <2>2. /\ (k + q) * SECTOR_SIZE = k * SECTOR_SIZE + q * SECTOR_SIZE
        /\ k * SECTOR_SIZE \in Int
    BY SectorOrder
  <2>3. ((k + q) - 1) * SECTOR_SIZE = (k + q) * SECTOR_SIZE - 1 * SECTOR_SIZE
    <3>1. k + q \in Int OBVIOUS
    <3> QED BY <3>1, SectorOrder
  <2>4. sector_offset' = ((k + q) - 1) * SECTOR_SIZE BY <1>3, <1>4, <2>1, <2>2, <2>3
  <2>5. (k + q) - 1 \in 0 .. MaxSectors BY <1>3, <1>4
  <2> QED BY <2>4, <2>5
<1>6. tail_offset' \in Places
  <2>1. tail_offset + n \in Int BY SizesAssumption, SectorAssumption DEF Types, TypeOK, Places
  <2> QED BY <2>1, Place DEF AppendOk, NextTail
<1>7. staging' \in Buffer
  <2> DEFINE buf == Staged(r)
  <2>1. staging' = Shifted(buf, end) BY DEF AppendOk
  <2>2. \A i \in 0 .. STAGING_SIZE - 1 : i < SECTOR_SIZE => (end - SECTOR_SIZE) + i \in 0 .. STAGING_SIZE - 1
    BY <1>3, <1>4
  <2>3. Zero \in Cells BY DEF Cells
  <2> HIDE DEF buf, end
  <2> QED BY <1>2, <2>1, <2>2, <2>3 DEF Shifted, Buffer, buf
<1>8. /\ disk' \in [Sectors -> Sector]
      /\ \A s \in Sectors : disk'[s] \in vers'[s] /\ vers'[s] \subseteq Sector
  <2>1. Write(Staged(r), 0 .. (end \div SECTOR_SIZE) - 1) BY DEF AppendOk
  <2> QED BY <1>1, <1>2, <2>1, WriteTypes
<1>9. /\ acked' \in [1 .. MaxEpoch -> Seq(Records)]
      /\ \A e \in 1 .. MaxEpoch : e > epoch => acked'[e] = << >>
      /\ Len(acked'[epoch]) < next_seq'
  <2>1. acked \in [1 .. MaxEpoch -> Seq(Records)] /\ Len(acked[epoch]) < next_seq
    BY <1>1 DEF Types, TypeOK
  <2>2. acked' = [acked EXCEPT ![epoch] = Append(acked[epoch], r)] /\ next_seq' = next_seq + 1 BY DEF AppendOk
  <2> HIDE DEF r
  <2>3. acked[epoch] \in Seq(Records) BY <1>1, <2>1
  <2>4. Append(acked[epoch], r) \in Seq(Records) /\ Len(Append(acked[epoch], r)) = Len(acked[epoch]) + 1
    BY <1>2, <2>3, AppendProperties
  <2>5. acked' \in [1 .. MaxEpoch -> Seq(Records)] BY <2>1, <2>2, <2>4
  <2>6. acked'[epoch] = Append(acked[epoch], r) BY <1>1, <2>1, <2>2
  <2>7. Len(acked[epoch]) \in Nat BY <2>3, LenProperties
  <2>8. Len(acked'[epoch]) < next_seq' BY <1>1, <2>1, <2>2, <2>4, <2>6, <2>7
  <2>9. ASSUME NEW e \in 1 .. MaxEpoch, e > epoch PROVE acked'[e] = << >>
    <3>1. e # epoch BY <1>1, <2>9
    <3> QED BY <2>1, <2>2, <2>9, <3>1 DEF Types
  <2> QED BY <2>5, <2>8, <2>9
<1>10. next_seq' \in 1 .. MaxSeq + 1 /\ flush_end' \in BOOLEAN /\ UNCHANGED <<open, epoch, synced, failed>>
  BY <1>1, BoundsAssumption DEF AppendOk
<1> HIDE DEF r, end
<1> QED BY <1>1, <1>5, <1>6, <1>7, <1>8, <1>9, <1>10 DEF Types, TypeOK, Buffer, Sector

\* So does one that fails.
LEMMA AppendFailsTypes ==
  ASSUME Types, NEW n \in Sizes, AppendIoError(n)
  PROVE  Types'
<1> DEFINE r == Rec(epoch, next_seq, n)
<1>1. PICK done \in SUBSET (0 .. (RoundUp(tail_offset + n) \div SECTOR_SIZE) - 1) : AppendFails(n, done)
  BY DEF AppendIoError
<1>2. Fits(n) /\ open /\ epoch >= 1 /\ next_seq \in 1 .. MaxSeq
  BY <1>1, BoundsAssumption DEF AppendFails, Fits, Types, TypeOK
<1>3. r \in Records /\ Staged(r) \in Buffer BY <1>2, StagedTypes
<1>4. /\ disk' \in [Sectors -> Sector]
      /\ \A s \in Sectors : disk'[s] \in vers'[s] /\ vers'[s] \subseteq Sector
  <2>1. Write(Staged(r), done) BY <1>1 DEF AppendFails
  <2> QED BY <1>2, <1>3, <2>1, WriteTypes
<1>5. /\ staging' = Staged(r) /\ failed' = failed \cup {r} /\ next_seq' = next_seq + 1
      /\ UNCHANGED <<sector_offset, tail_offset, open, epoch, acked, synced, flush_end>>
  BY <1>1 DEF AppendFails
<1> HIDE DEF r
<1>6. Len(acked'[epoch']) < next_seq'
  <2>1. epoch \in 1 .. MaxEpoch /\ acked[epoch] \in Seq(Records) /\ Len(acked[epoch]) < next_seq
    BY <1>2, BoundsAssumption DEF Types, TypeOK
  <2>2. Len(acked[epoch]) \in Nat BY <2>1, LenProperties
  <2> QED BY <1>2, <1>5, <2>1, <2>2
<1>7. next_seq' \in 1 .. MaxSeq + 1 BY <1>2, <1>5, BoundsAssumption
<1> QED BY <1>2, <1>3, <1>4, <1>5, <1>6, <1>7 DEF Types, TypeOK, Buffer, Sector

\* And so do the other steps.
LEMMA StepTypes == Types /\ [Next]_vars => Types'
<1> SUFFICES ASSUME Types, [Next]_vars PROVE Types'
  OBVIOUS
<1>1. ASSUME open, epoch >= 1 PROVE Len(acked[epoch]) \in Nat /\ epoch \in 1 .. MaxEpoch
  <2>1. epoch \in 1 .. MaxEpoch /\ acked[epoch] \in Seq(Records) BY <1>1, BoundsAssumption DEF Types, TypeOK
  <2> QED BY <2>1, LenProperties
<1>2. CASE Open
  <2>1. /\ open' = TRUE /\ epoch' = epoch + 1 /\ epoch' \in 1 .. MaxEpoch /\ synced' = 0
        /\ sector_offset' = 0 /\ tail_offset' = 0 /\ next_seq' = 1 /\ staging' = EmptyStaging
        /\ UNCHANGED <<disk, vers, acked, failed, flush_end>>
    BY <1>2, BoundsAssumption DEF Open, ResetWriter, file, Types, TypeOK
  <2>2. \A e \in 1 .. MaxEpoch : e > epoch' => e > epoch BY <2>1, BoundsAssumption DEF Types, TypeOK
  <2>3. epoch' > epoch BY <2>1, BoundsAssumption DEF Types, TypeOK
  <2>4. acked[epoch'] = << >> BY <2>1, <2>3 DEF Types
  <2>5. Len(acked'[epoch']) < next_seq' BY <2>1, <2>4
  <2>6. epoch' \in 0 .. MaxEpoch /\ epoch' >= 1 /\ synced' \in 0 .. MaxSeq BY <2>1, BoundsAssumption
  <2>7. TypeOK' BY <2>1, <2>6, ResetTypes DEF Types, TypeOK, Buffer
  <2> QED BY <2>1, <2>2, <2>5, <2>6, <2>7 DEF Types
<1>3. CASE Sync
  <2>1. /\ open /\ vers' = [k \in Sectors |-> {disk[k]}] /\ synced' = Len(acked[epoch])
        /\ UNCHANGED <<sector_offset, tail_offset, next_seq, staging, disk, open, epoch, acked,
                       failed, flush_end>>
    BY <1>3 DEF Sync, writer
  <2>2. synced' \in 0 .. MaxSeq
    <3>1. Len(acked[epoch]) < next_seq /\ next_seq \in 1 .. MaxSeq + 1 /\ epoch >= 1
      BY <2>1 DEF Types, TypeOK
    <3> QED BY <1>1, <2>1, <3>1, BoundsAssumption
  <2>3. \A k \in Sectors : disk'[k] \in vers'[k] /\ vers'[k] \subseteq [Places -> Cells]
    BY <2>1 DEF Types, TypeOK
  <2> QED BY <2>1, <2>2, <2>3 DEF Types, TypeOK
<1>4. CASE TruncateToLogicalEnd
  <2> DEFINE end == sector_offset + tail_offset
             cut == [k \in Sectors |-> [i \in Places |->
                       IF k * SECTOR_SIZE + i < end THEN disk[k][i] ELSE Zero]]
  <2>1. /\ disk' = cut /\ vers' = [k \in Sectors |-> vers[k] \cup {cut[k]}]
        /\ UNCHANGED <<sector_offset, tail_offset, next_seq, staging, open, epoch, acked, synced,
                       failed, flush_end>>
    BY <1>4 DEF TruncateToLogicalEnd, writer, history
  <2>2. Zero \in Cells BY DEF Cells
  <2>3. disk \in [Sectors -> [Places -> Cells]] /\ \A k \in Sectors : vers[k] \subseteq [Places -> Cells]
    BY DEF Types, TypeOK
  <2>4. cut \in [Sectors -> [Places -> Cells]] BY <2>2, <2>3
  <2> HIDE DEF cut
  <2>5. \A k \in Sectors : disk'[k] \in vers'[k] /\ vers'[k] \subseteq [Places -> Cells]
    BY <2>1, <2>3, <2>4
  <2> QED BY <2>1, <2>4, <2>5 DEF Types, TypeOK
<1>5. CASE Close
  <2>1. /\ open' = FALSE /\ UNCHANGED <<disk, vers, epoch, acked, synced, failed, flush_end>>
        /\ sector_offset' = 0 /\ tail_offset' = 0 /\ next_seq' = 1 /\ staging' = EmptyStaging
    BY <1>5 DEF Close, ResetWriter, file, history
  <2> QED BY <2>1, ResetTypes DEF Types, TypeOK, Buffer
<1>6. CASE Crash
  <2>1. /\ open' = FALSE /\ UNCHANGED <<epoch, acked, synced, failed, flush_end>>
        /\ sector_offset' = 0 /\ tail_offset' = 0 /\ next_seq' = 1 /\ staging' = EmptyStaging
    BY <1>6 DEF Crash, ResetWriter, history
  <2>2. PICK img \in CrashImages : disk' = img /\ vers' = [k \in Sectors |-> {img[k]}]
    BY <1>6 DEF Crash
  <2>3. img \in [Sectors -> [Places -> Cells]] BY <2>2 DEF CrashImages, Types, TypeOK
  <2>4. \A k \in Sectors : disk'[k] \in vers'[k] /\ vers'[k] \subseteq [Places -> Cells] BY <2>2, <2>3
  <2> QED BY <2>1, <2>2, <2>3, <2>4, ResetTypes DEF Types, TypeOK, Buffer
<1>7. ASSUME NEW n \in Sizes, AppendNoRoom(n) PROVE Types'
  <2>1. /\ open /\ next_seq' = next_seq + 1 /\ next_seq <= MaxSeq
        /\ UNCHANGED <<sector_offset, tail_offset, staging, disk, vers, open, epoch, acked, synced,
                       failed, flush_end>>
    BY <1>7 DEF AppendNoRoom, file, history
  <2>2. next_seq' \in 1 .. MaxSeq + 1 BY <2>1, BoundsAssumption DEF Types, TypeOK
  <2>3. epoch >= 1 /\ Len(acked[epoch]) < next_seq /\ next_seq \in 1 .. MaxSeq + 1
    BY <2>1 DEF Types, TypeOK
  <2>4. Len(acked[epoch]) < next_seq' BY <1>1, <2>1, <2>3, BoundsAssumption
  <2> QED BY <2>1, <2>2, <2>3, <2>4 DEF Types, TypeOK
<1>8. CASE UNCHANGED vars BY <1>8 DEF vars, writer, file, history, Types, TypeOK
<1> QED BY <1>2, <1>3, <1>4, <1>5, <1>6, <1>7, <1>8, AppendOkTypes, AppendFailsTypes DEF Next

\* At first the file is blank.
LEMMA InitTypes == Init => Types
<1> SUFFICES ASSUME Init PROVE Types
  OBVIOUS
<1>1. Blank \in [Places -> Cells] BY DEF Blank, Cells
<1>2. acked \in [1 .. MaxEpoch -> Seq(Records)] /\ \A e \in 1 .. MaxEpoch : acked[e] = << >>
  BY DEF Init
<1>3. 0 \in 0 .. MaxEpoch /\ 0 \in 0 .. MaxSeq BY BoundsAssumption
<1> QED BY <1>1, <1>2, <1>3, ResetTypes DEF Init, Types, TypeOK, Buffer

\* The offsets, the buffer and the sectors have their types for any sizes.
THEOREM WalTypes == Spec => []Types
  BY InitTypes, StepTypes, PTL DEF Spec

\* The writer stays within its staging buffer and the file.
THEOREM WriterWithinBounds == Spec => []TypeOK
<1>1. Types => TypeOK BY DEF Types
<1> QED BY <1>1, WalTypes, PTL


-----------------------------------------------------------------------------
(* The staging buffer and the file *)

\* The cells of the sector being filled are in the staging buffer.
Mirror ==
  open => /\ tail_offset > 0 => sector_offset \div SECTOR_SIZE \in Sectors
          /\ \A i \in 0 .. tail_offset - 1 : staging[i] = disk[sector_offset \div SECTOR_SIZE][i]

LogEnd == sector_offset + tail_offset

\* Every cell before the end of the log is as it was, in all images of its
\* sector that were added.
KeepsLog ==
  /\ \A k \in Sectors, i \in Places : k * SECTOR_SIZE + i < LogEnd => disk'[k][i] = disk[k][i]
  /\ \A k \in Sectors : \A v \in vers'[k] :
       v \in vers[k] \/ \A i \in Places : k * SECTOR_SIZE + i < LogEnd => v[i] = disk[k][i]

\* What of the staging buffer is before the tail goes back into it unchanged.
LEMMA StagedPrefix ==
  ASSUME Types, NEW n \in Sizes, NEW r, r.size = n, Fits(n)
  PROVE  /\ \A i \in 0 .. tail_offset - 1 : Staged(r)[i] = staging[i]
         /\ \A j \in 1 .. n : Staged(r)[tail_offset + (j - 1)] = Cell(r, j)
<1>1. PICK q \in Nat \ {0} :
        /\ RoundUp(tail_offset + n) = q * SECTOR_SIZE
        /\ q * SECTOR_SIZE \in Nat /\ tail_offset + n <= q * SECTOR_SIZE
        /\ q * SECTOR_SIZE <= STAGING_SIZE
  BY AppendPlace
<1>2. tail_offset \in Nat /\ n \in Nat \ {0} /\ STAGING_SIZE \in Nat
  BY SizesAssumption, SectorAssumption, StagingAssumption DEF Types, TypeOK, Places
<1>3. ASSUME NEW i \in 0 .. tail_offset - 1 PROVE Staged(r)[i] = staging[i]
  <2>1. i \in 0 .. STAGING_SIZE - 1 /\ i < tail_offset BY <1>1, <1>2, <1>3
  <2> QED BY <2>1 DEF Staged
<1>4. ASSUME NEW j \in 1 .. n PROVE Staged(r)[tail_offset + (j - 1)] = Cell(r, j)
  <2> DEFINE i == tail_offset + (j - 1)
  <2>1. /\ i \in 0 .. STAGING_SIZE - 1 /\ ~(i < tail_offset) /\ ~(i >= RoundUp(tail_offset + n))
        /\ i < tail_offset + n /\ i - tail_offset + 1 = j
    BY <1>1, <1>2, <1>4
  <2> HIDE DEF i
  <2>2. Staged(r)[i] = Cell(r, i - tail_offset + 1) BY <2>1 DEF Staged
  <2> QED BY <2>1, <2>2 DEF i
<1> QED BY <1>3, <1>4

\* A write of any of the sectors of an encoded record leaves the log alone: the
\* one sector it shares with the log is rewritten with what it held.
LEMMA WriteKeepsLog ==
  ASSUME Types, Mirror, NEW n \in Sizes, NEW r, r.size = n, Fits(n),
         NEW done \in SUBSET (0 .. (RoundUp(tail_offset + n) \div SECTOR_SIZE) - 1),
         Write(Staged(r), done)
  PROVE  KeepsLog
<1>1. PICK k \in Nat, q \in Nat \ {0} :
        /\ sector_offset = k * SECTOR_SIZE /\ sector_offset \div SECTOR_SIZE = k
        /\ sector_offset \in Nat /\ tail_offset \in Places
        /\ RoundUp(tail_offset + n) \div SECTOR_SIZE = q
  BY AppendPlace
<1> DEFINE hit == {k + d : d \in done}
<1>2. /\ disk' = [s \in Sectors |-> IF s \in hit THEN SectorOf(Staged(r), s - k) ELSE disk[s]]
      /\ vers' = [s \in Sectors |-> IF s \in hit THEN vers[s] \cup {SectorOf(Staged(r), s - k)} ELSE vers[s]]
  BY <1>1 DEF Write
<1>3. ASSUME NEW s \in Sectors, s \in hit, NEW i \in Places, s * SECTOR_SIZE + i < LogEnd
      PROVE  SectorOf(Staged(r), s - k)[i] = disk[s][i]
  <2>1. PICK d \in done : s = k + d BY <1>3
  <2>2. d \in Nat /\ s \in Nat /\ s - k = d BY <1>1, <2>1
  <2>3. s * SECTOR_SIZE = k * SECTOR_SIZE + d * SECTOR_SIZE /\ d * SECTOR_SIZE \in Int
    BY <1>1, <2>1, <2>2, SectorOrder
  <2>4. d * SECTOR_SIZE + i < tail_offset BY <1>1, <1>3, <2>3, SectorAssumption DEF LogEnd, Places
  <2>5. d = 0
    <3>1. 0 < d => 0 * SECTOR_SIZE + SECTOR_SIZE <= d * SECTOR_SIZE BY <2>2, SectorOrder
    <3> QED BY <1>1, <2>2, <2>3, <2>4, <3>1, SectorAssumption DEF Places
  <2>6. s = k /\ i \in 0 .. tail_offset - 1 /\ 0 * SECTOR_SIZE + i = i
    BY <1>1, <2>1, <2>3, <2>4, <2>5, SectorAssumption DEF Places
  <2>7. SectorOf(Staged(r), 0)[i] = Staged(r)[i] BY <2>6 DEF SectorOf
  <2>8. Staged(r)[i] = staging[i] BY <2>6, StagedPrefix
  <2>9. staging[i] = disk[k][i] BY <1>1, <2>6 DEF Mirror, Fits
  <2> QED BY <2>2, <2>5, <2>6, <2>7, <2>8, <2>9
<1> HIDE DEF hit
<1>4. \A s \in Sectors, i \in Places : s * SECTOR_SIZE + i < LogEnd => disk'[s][i] = disk[s][i]
  BY <1>2, <1>3
<1>5. \A s \in Sectors : \A v \in vers'[s] :
        v \in vers[s] \/ \A i \in Places : s * SECTOR_SIZE + i < LogEnd => v[i] = disk[s][i]
  BY <1>2, <1>3
<1> QED BY <1>4, <1>5 DEF KeepsLog

\* A step after which the writer stands where it stood and the log is as it was
\* keeps what the staging buffer says of it.
LEMMA MirrorKept ==
  ASSUME Types, Mirror, KeepsLog, open, sector_offset' = sector_offset, tail_offset' = tail_offset,
         \A i \in 0 .. tail_offset - 1 : staging'[i] = staging[i]
  PROVE  Mirror'
<1>1. PICK k \in 0 .. MaxSectors : sector_offset = k * SECTOR_SIZE BY DEF Types, TypeOK
<1>2. k \in Int /\ k * SECTOR_SIZE \in Int BY <1>1, SectorOrder, BoundsAssumption
<1>3. sector_offset \div SECTOR_SIZE = k
  <2>1. k * SECTOR_SIZE = k * SECTOR_SIZE + 0 /\ 0 \in Places BY <1>2, SectorAssumption DEF Places
  <2> QED BY <1>1, <1>2, <2>1, Place
<1>4. ASSUME NEW i \in 0 .. tail_offset - 1 PROVE staging'[i] = disk'[k][i]
  <2>1. tail_offset \in Places /\ tail_offset \in Nat /\ tail_offset > 0 /\ i \in Places
    BY <1>4, SectorAssumption DEF Types, TypeOK, Places
  <2>2. k \in Sectors /\ staging[i] = disk[k][i] BY <1>3, <2>1 DEF Mirror
  <2>3. k * SECTOR_SIZE + i < LogEnd BY <1>1, <1>2, <2>1 DEF LogEnd
  <2>4. disk'[k][i] = disk[k][i] BY <2>1, <2>2, <2>3 DEF KeepsLog
  <2> QED BY <2>2, <2>4
<1> QED BY <1>3, <1>4 DEF Mirror

\* After an acknowledged append the front of the staging buffer is the last
\* sector written.
LEMMA AppendOkMirror ==
  ASSUME Types, NEW n \in Sizes, AppendOk(n)
  PROVE  Mirror'
<1> DEFINE buf == Staged(Rec(epoch, next_seq, n))
<1>0. Fits(n) BY DEF AppendOk
<1>1. PICK k \in Nat, q \in Nat \ {0} :
        /\ sector_offset = k * SECTOR_SIZE /\ sector_offset \div SECTOR_SIZE = k
        /\ RoundUp(tail_offset + n) = q * SECTOR_SIZE
        /\ RoundUp(tail_offset + n) \div SECTOR_SIZE = q
        /\ q * SECTOR_SIZE \in Nat
        /\ k + q <= MaxSectors
        /\ q * SECTOR_SIZE <= STAGING_SIZE
        /\ \A d \in 0 .. q - 1 : /\ d * SECTOR_SIZE \in Nat
                                 /\ d * SECTOR_SIZE + SECTOR_SIZE <= q * SECTOR_SIZE
  BY <1>0, AppendPlace
<1> DEFINE last == k + (q - 1)
<1>2. last \in Sectors /\ q - 1 \in 0 .. q - 1 /\ last - k = q - 1 BY <1>1, BoundsAssumption DEF Sectors
<1>3. (q - 1) * SECTOR_SIZE = q * SECTOR_SIZE - SECTOR_SIZE
  <2>1. (q - 1) * SECTOR_SIZE = q * SECTOR_SIZE - 1 * SECTOR_SIZE BY SectorOrder
  <2> QED BY <1>1, <2>1, SectorAssumption
<1>4. sector_offset' = last * SECTOR_SIZE
  <2>1. sector_offset' = k * SECTOR_SIZE + (q - 1) * SECTOR_SIZE BY <1>1, <1>3 DEF AppendOk, NextSector
  <2>2. q - 1 \in Int OBVIOUS
  <2> QED BY <2>1, <2>2, SectorOrder
<1>5. sector_offset' \div SECTOR_SIZE = last
  <2>1. last \in Int /\ last * SECTOR_SIZE \in Int
    <3>1. last \in Int OBVIOUS
    <3> QED BY <3>1, SectorOrder
  <2>2. last * SECTOR_SIZE = last * SECTOR_SIZE + 0 /\ 0 \in Places
    BY <2>1, SectorAssumption DEF Places
  <2> QED BY <1>4, <2>1, <2>2, Place
<1>6. disk'[last] = SectorOf(buf, q - 1)
  <2>1. Write(buf, 0 .. q - 1) BY <1>1 DEF AppendOk
  <2>2. last \in {k + d : d \in 0 .. q - 1} BY <1>2
  <2>3. disk' = [s \in Sectors |-> IF s \in {k + d : d \in 0 .. q - 1} THEN SectorOf(buf, s - k) ELSE disk[s]]
    BY <1>1, <2>1 DEF Write
  <2> QED BY <1>2, <2>2, <2>3
<1>7. tail_offset' \in Places
  <2>1. tail_offset + n \in Int BY SizesAssumption, SectorAssumption DEF Types, TypeOK, Places
  <2> QED BY <2>1, Place DEF AppendOk, NextTail
<1>8. ASSUME NEW i \in Places PROVE staging'[i] = disk'[last][i]
  <2>0. i < SECTOR_SIZE BY SectorAssumption DEF Places
  <2>1. i \in 0 .. STAGING_SIZE - 1
    <3>1. SECTOR_SIZE <= STAGING_SIZE
      <4>1. (q - 1) * SECTOR_SIZE \in Nat BY <1>1, <1>2
      <4> QED BY <1>1, <1>3, <4>1, SectorAssumption, StagingAssumption
    <3> QED BY <2>0, <3>1, SectorAssumption, StagingAssumption DEF Places
  <2>2. staging' = Shifted(buf, q * SECTOR_SIZE) BY <1>1 DEF AppendOk
  <2>3. staging'[i] = buf[(q * SECTOR_SIZE - SECTOR_SIZE) + i] BY <2>0, <2>1, <2>2 DEF Shifted
  <2>4. disk'[last][i] = buf[(q - 1) * SECTOR_SIZE + i] BY <1>6, <2>0 DEF SectorOf
  <2> QED BY <1>3, <2>3, <2>4
<1>9. \A i \in 0 .. tail_offset' - 1 : i \in Places
  <2>1. \A t \in Places : \A i \in 0 .. t - 1 : i \in Places BY SectorAssumption DEF Places
  <2> QED BY <1>7, <2>1
<1> QED BY <1>2, <1>5, <1>8, <1>9 DEF Mirror

\* The steps other than appending, opening and closing leave the log alone.
LEMMA RestKeepsLog ==
  ASSUME Types, Sync \/ TruncateToLogicalEnd \/ (\E n \in Sizes : AppendNoRoom(n)) \/ UNCHANGED vars
  PROVE  KeepsLog /\ UNCHANGED <<sector_offset, tail_offset, staging, open, epoch, acked, flush_end>>
<1>0. disk \in [Sectors -> [Places -> Cells]] BY DEF Types, TypeOK
<1>1. CASE Sync
  <2>1. disk' = disk /\ vers' = [k \in Sectors |-> {disk[k]}] BY <1>1 DEF Sync
  <2>2. KeepsLog BY <2>1 DEF KeepsLog
  <2> QED BY <1>1, <2>2 DEF Sync, writer
<1>2. CASE TruncateToLogicalEnd
  <2> DEFINE cut == [k \in Sectors |-> [i \in Places |->
                       IF k * SECTOR_SIZE + i < LogEnd THEN disk[k][i] ELSE Zero]]
  <2>1. disk' = cut /\ vers' = [k \in Sectors |-> vers[k] \cup {cut[k]}]
    BY <1>2 DEF TruncateToLogicalEnd, LogEnd
  <2>2. \A k \in Sectors, i \in Places : k * SECTOR_SIZE + i < LogEnd => cut[k][i] = disk[k][i]
    OBVIOUS
  <2> HIDE DEF cut
  <2>3. KeepsLog BY <2>1, <2>2 DEF KeepsLog
  <2> QED BY <1>2, <2>3 DEF TruncateToLogicalEnd, writer, history
<1>3. CASE (\E n \in Sizes : AppendNoRoom(n)) \/ UNCHANGED vars
  <2>1. UNCHANGED <<sector_offset, tail_offset, staging, disk, vers, open, epoch, acked, flush_end>>
    BY <1>3 DEF AppendNoRoom, vars, writer, file, history
  <2>2. KeepsLog BY <2>1 DEF KeepsLog
  <2> QED BY <2>1, <2>2
<1> QED BY <1>1, <1>2, <1>3

\* A failed append leaves the log alone too.
LEMMA FailsKeepsLog ==
  ASSUME Types, Mirror, NEW n \in Sizes, AppendIoError(n)
  PROVE  /\ KeepsLog /\ open /\ \A i \in 0 .. tail_offset - 1 : staging'[i] = staging[i]
         /\ UNCHANGED <<sector_offset, tail_offset, open, epoch, acked, synced, flush_end>>
<1> DEFINE r == Rec(epoch, next_seq, n)
<1>1. PICK done \in SUBSET (0 .. (RoundUp(tail_offset + n) \div SECTOR_SIZE) - 1) : AppendFails(n, done)
  BY DEF AppendIoError
<1>2. Fits(n) /\ Write(Staged(r), done) /\ staging' = Staged(r) BY <1>1 DEF AppendFails
<1>3. r.size = n BY DEF Rec
<1> HIDE DEF r
<1>4. KeepsLog BY <1>2, <1>3, WriteKeepsLog
<1>5. \A i \in 0 .. tail_offset - 1 : staging'[i] = staging[i] BY <1>2, <1>3, StagedPrefix
<1> QED BY <1>1, <1>4, <1>5 DEF AppendFails, Fits

\* Every step keeps the staging buffer in step with the file.
LEMMA StepMirror == Types /\ Types' /\ Mirror /\ [Next]_vars => Mirror'
<1> SUFFICES ASSUME Types, Types', Mirror, [Next]_vars PROVE Mirror'
  OBVIOUS
<1>1. CASE Open \/ Close \/ Crash
  <2>1. tail_offset' = 0 BY <1>1 DEF Open, Close, Crash, ResetWriter
  <2> QED BY <2>1 DEF Mirror
<1>2. CASE ~open /\ ~(Open \/ Close \/ Crash)
  <2>1. open' = open BY <1>2 DEF Next, Sync, TruncateToLogicalEnd, AppendOk, AppendIoError, AppendFails,
                              AppendNoRoom, vars
  <2> QED BY <1>2, <2>1 DEF Mirror
<1>3. CASE open /\ (Sync \/ TruncateToLogicalEnd \/ (\E n \in Sizes : AppendNoRoom(n)) \/ UNCHANGED vars)
  BY <1>3, RestKeepsLog, MirrorKept
<1>4. CASE open /\ \E n \in Sizes : AppendOk(n) BY <1>4, AppendOkMirror
<1>5. CASE open /\ \E n \in Sizes : AppendIoError(n) BY <1>5, FailsKeepsLog, MirrorKept
<1> QED BY <1>1, <1>2, <1>3, <1>4, <1>5 DEF Next

\* Rewriting the sector being filled loses nothing, whatever the sizes of
\* sectors, buffer and records: the staging buffer holds what the file holds
\* before the tail, also after failed writes and truncations.
THEOREM StagingFollowsFile == Spec => []StagingMirrorsFile
<1>1. Init => Mirror BY DEF Init, Mirror
<1>2. Mirror => StagingMirrorsFile BY DEF Mirror, StagingMirrorsFile
<1> QED BY <1>1, <1>2, StepMirror, WalTypes, PTL DEF Spec


-----------------------------------------------------------------------------
(* The records in the file *)

Log == acked[epoch]

\* The record a cell is of.
RecOf(c) == Rec(c.epoch, c.seq, c.size)

\* Image v of sector k has what the first m records of rs, record i of which
\* starts at pos[i - 1], have in that sector.
Holds(rs, pos, m, k, v) ==
  \A i \in 1 .. m : \A j \in 1 .. rs[i].size :
    LET p == pos[i - 1] + (j - 1)
    IN  p \div SECTOR_SIZE = k => v[p % SECTOR_SIZE] = Cell(rs[i], j)

\* The records of the log lie one behind the other from the start of the file to
\* the end of the log.
Layout(pos) ==
  /\ pos \in [0 .. Len(Log) -> Nat] /\ pos[0] = 0 /\ pos[Len(Log)] = LogEnd
  /\ \A i \in 1 .. Len(Log) : pos[i] = pos[i - 1] + Log[i].size /\ pos[i] <= LogEnd

\* All of them are in the file, and the synced ones in every image that a power
\* failure may leave.
InPlace(pos) ==
  \A k \in Sectors : /\ Holds(Log, pos, Len(Log), k, disk[k])
                     /\ \A v \in vers[k] : Holds(Log, pos, synced, k, v)

\* Their sequence numbers grow.
Numbered ==
  /\ \A i \in 1 .. Len(Log) : Log[i].seq < next_seq
  /\ \A i \in 2 .. Len(Log) : Log[i - 1].seq < Log[i].seq

LogIntact ==
  open => /\ Numbered /\ synced <= Len(Log)
          /\ ~flush_end => /\ LogEnd <= MaxSectors * SECTOR_SIZE
                           /\ \E pos : Layout(pos) /\ InPlace(pos)

\* The log of an open writer.
LEMMA LogTypes ==
  ASSUME Types, open
  PROVE  /\ Log \in Seq(Records) /\ Len(Log) \in Nat /\ epoch \in 1 .. MaxEpoch
         /\ \A i \in 1 .. Len(Log) : Log[i] \in Records /\ Log[i].size \in Nat \ {0} /\ Log[i].seq \in Nat \ {0}
         /\ LogEnd \in Nat
<1>1. epoch \in 1 .. MaxEpoch BY BoundsAssumption DEF Types, TypeOK
<1>2. Log \in Seq(Records) BY <1>1 DEF Types, TypeOK, Log
<1>3. Len(Log) \in Nat BY <1>2, LenProperties
<1>4. \A i \in 1 .. Len(Log) : Log[i] \in Records BY <1>2, ElementOfSeq
<1>5. ASSUME NEW r \in Records PROVE r.size \in Nat \ {0} /\ r.seq \in Nat \ {0}
  <2>1. r.size \in Sizes /\ r.seq \in 1 .. MaxSeq BY DEF Records
  <2>2. \A x \in 1 .. MaxSeq : x \in Nat \ {0} BY BoundsAssumption
  <2> QED BY <2>1, <2>2, SizesAssumption
<1>6. LogEnd \in Nat
  <2>1. PICK k \in 0 .. MaxSectors : sector_offset = k * SECTOR_SIZE BY DEF Types, TypeOK
  <2>2. k * SECTOR_SIZE \in Nat BY SectorAssumption, BoundsAssumption
  <2>3. tail_offset \in Nat BY SectorAssumption DEF Types, TypeOK, Places
  <2> QED BY <2>1, <2>2, <2>3 DEF LogEnd
<1> QED BY <1>1, <1>2, <1>3, <1>4, <1>5, <1>6

\* A cell of a record is before the end of the log.
LEMMA CellBeforeEnd ==
  ASSUME Types, open, NEW pos, Layout(pos), NEW i \in 1 .. Len(Log), NEW j \in 1 .. Log[i].size
  PROVE  pos[i - 1] + (j - 1) \in Nat /\ pos[i - 1] + (j - 1) < LogEnd
<1>1. Len(Log) \in Nat /\ Log[i].size \in Nat \ {0} /\ LogEnd \in Nat BY LogTypes
<1>2. i - 1 \in 0 .. Len(Log) /\ i \in 0 .. Len(Log) BY <1>1
<1>3. pos[i - 1] \in Nat /\ pos[i] \in Nat BY <1>2 DEF Layout
<1>4. pos[i] = pos[i - 1] + Log[i].size /\ pos[i] <= LogEnd BY DEF Layout
<1> QED BY <1>1, <1>3, <1>4

\* A step that leaves the log alone keeps the records in place, all of them in
\* every image if it is a sync.
LEMMA KeptInPlace ==
  ASSUME Types, open, KeepsLog, NEW pos, Layout(pos), InPlace(pos), synced <= Len(Log),
         synced' = synced \/ ((\A k \in Sectors : vers'[k] = {disk[k]}) /\ synced' = Len(Log))
  PROVE  \A k \in Sectors : /\ Holds(Log, pos, Len(Log), k, disk'[k])
                            /\ \A v \in vers'[k] : Holds(Log, pos, synced', k, v)
<1>1. ASSUME NEW k \in Sectors, NEW u, NEW v, NEW m \in 0 .. Len(Log), Holds(Log, pos, m, k, u),
             \A i \in Places : k * SECTOR_SIZE + i < LogEnd => v[i] = u[i]
      PROVE  Holds(Log, pos, m, k, v)
  <2> SUFFICES ASSUME NEW i \in 1 .. m, NEW j \in 1 .. Log[i].size,
                      (pos[i - 1] + (j - 1)) \div SECTOR_SIZE = k
               PROVE  v[(pos[i - 1] + (j - 1)) % SECTOR_SIZE] = Cell(Log[i], j)
    BY DEF Holds
  <2> DEFINE p == pos[i - 1] + (j - 1)
  <2>0. i \in 1 .. Len(Log) BY LogTypes
  <2>1. p \in Nat /\ p < LogEnd BY <2>0, CellBeforeEnd
  <2>2. u[p % SECTOR_SIZE] = Cell(Log[i], j) BY <1>1 DEF Holds
  <2> HIDE DEF p
  <2>3. p % SECTOR_SIZE \in Places /\ p = (p \div SECTOR_SIZE) * SECTOR_SIZE + (p % SECTOR_SIZE)
    BY <2>1, Place
  <2>4. k * SECTOR_SIZE + (p % SECTOR_SIZE) < LogEnd BY <2>1, <2>3 DEF p
  <2>5. v[p % SECTOR_SIZE] = u[p % SECTOR_SIZE] BY <1>1, <2>3, <2>4
  <2> QED BY <2>2, <2>5 DEF p
<1>2. Len(Log) \in 0 .. Len(Log) /\ synced \in 0 .. Len(Log) /\ synced \in Nat
  BY LogTypes, BoundsAssumption DEF Types, TypeOK
<1>3. ASSUME NEW k \in Sectors
      PROVE  Holds(Log, pos, Len(Log), k, disk'[k]) /\ \A v \in vers'[k] : Holds(Log, pos, synced', k, v)
  <2>1. Holds(Log, pos, Len(Log), k, disk[k]) /\ \A v \in vers[k] : Holds(Log, pos, synced, k, v)
    BY DEF InPlace
  <2>2. Holds(Log, pos, Len(Log), k, disk'[k])
    <3>1. \A i \in Places : k * SECTOR_SIZE + i < LogEnd => disk'[k][i] = disk[k][i] BY DEF KeepsLog
    <3> QED BY <1>1, <1>2, <2>1, <3>1
  <2>3. CASE synced' = synced
    <3>1. ASSUME NEW v \in vers'[k] PROVE Holds(Log, pos, synced, k, v)
      <4>1. CASE v \in vers[k] BY <2>1, <4>1
      <4>2. CASE \A i \in Places : k * SECTOR_SIZE + i < LogEnd => v[i] = disk[k][i]
        <5>1. Holds(Log, pos, synced, k, disk[k])
          <6>1. \A i \in 1 .. synced : i \in 1 .. Len(Log) BY <1>2, LogTypes
          <6> QED BY <2>1, <6>1 DEF Holds
        <5> QED BY <1>1, <1>2, <4>2, <5>1
      <4> QED BY <4>1, <4>2 DEF KeepsLog
    <3> QED BY <2>2, <2>3, <3>1
  <2>4. CASE (\A s \in Sectors : vers'[s] = {disk[s]}) /\ synced' = Len(Log)
    BY <2>1, <2>2, <2>4
  <2> QED BY <2>3, <2>4
<1> QED BY <1>3


\* An acknowledged append puts its record behind the log.
LEMMA AppendOkInPlace ==
  ASSUME Types, Types', Mirror, LogIntact, NEW n \in Sizes, AppendOk(n), ~flush_end'
  PROVE  /\ LogEnd' <= MaxSectors * SECTOR_SIZE
         /\ \E pos : Layout(pos)' /\ InPlace(pos)'
<1> DEFINE r == Rec(epoch, next_seq, n)
           L == Len(Log)
<1>1. Fits(n) /\ open /\ ~flush_end /\ ((tail_offset + n) % SECTOR_SIZE) # 0 /\ synced' = synced
  BY DEF AppendOk, Fits
<1>2. PICK pos : Layout(pos) /\ InPlace(pos) BY <1>1 DEF LogIntact
<1>3. PICK k \in Nat, q \in Nat \ {0} :
        /\ sector_offset = k * SECTOR_SIZE /\ sector_offset \div SECTOR_SIZE = k
        /\ sector_offset \in Nat /\ tail_offset \in Places /\ n \in Nat \ {0}
        /\ RoundUp(tail_offset + n) = q * SECTOR_SIZE
        /\ RoundUp(tail_offset + n) \div SECTOR_SIZE = q
        /\ q * SECTOR_SIZE \in Nat /\ q * SECTOR_SIZE - SECTOR_SIZE < tail_offset + n
        /\ tail_offset + n <= q * SECTOR_SIZE
        /\ k + q <= MaxSectors
        /\ ((tail_offset + n) % SECTOR_SIZE) =
             IF tail_offset + n = q * SECTOR_SIZE THEN 0
             ELSE tail_offset + n - (q * SECTOR_SIZE - SECTOR_SIZE)
  BY <1>1, AppendPlace
<1>4. /\ Log \in Seq(Records) /\ L \in Nat /\ epoch \in 1 .. MaxEpoch /\ LogEnd \in Nat
      /\ \A i \in 1 .. L : Log[i] \in Records /\ Log[i].size \in Nat \ {0}
  BY <1>1, LogTypes
<1>5. r.size = n /\ r \in Records BY <1>1, StagedTypes DEF Types, Rec
<1>6. /\ Log' = Append(Log, r) /\ Len(Log') = L + 1 /\ Log'[L + 1] = r
      /\ \A i \in 1 .. L : Log'[i] = Log[i]
  <2>1. acked' = [acked EXCEPT ![epoch] = Append(acked[epoch], r)] /\ epoch' = epoch BY DEF AppendOk
  <2>2. Log' = Append(Log, r) BY <1>4, <2>1 DEF Log, Types, TypeOK
  <2> HIDE DEF r
  <2> QED BY <1>4, <1>5, <2>2, AppendProperties
<1>7. LogEnd' = LogEnd + n
  <2>1. tail_offset' = tail_offset + n - (q * SECTOR_SIZE - SECTOR_SIZE)
    BY <1>1, <1>3 DEF AppendOk, NextTail
  <2>2. sector_offset' = sector_offset + (q * SECTOR_SIZE - SECTOR_SIZE)
    BY <1>3 DEF AppendOk, NextSector
  <2>3. tail_offset \in Nat BY <1>3, SectorAssumption DEF Places
  <2>4. LogEnd' = sector_offset' + tail_offset' BY DEF LogEnd
  <2> QED BY <1>3, <2>1, <2>2, <2>3, <2>4, SectorAssumption DEF LogEnd
<1>8. LogEnd' <= MaxSectors * SECTOR_SIZE
  <2>1. LogEnd + n = sector_offset + (tail_offset + n)
    BY <1>3, SectorAssumption DEF LogEnd, Places
  <2>2. sector_offset + RoundUp(tail_offset + n) <= MaxSectors * SECTOR_SIZE BY <1>1 DEF Fits
  <2>3. tail_offset + n \in Nat BY <1>3, SectorAssumption DEF Places
  <2>4. MaxSectors * SECTOR_SIZE \in Nat BY SectorAssumption, BoundsAssumption
  <2> QED BY <1>3, <1>7, <2>1, <2>2, <2>3, <2>4
<1>9. Write(Staged(r), 0 .. q - 1) BY <1>3 DEF AppendOk
<1> HIDE DEF r
<1>10. KeepsLog BY <1>1, <1>3, <1>5, <1>9, WriteKeepsLog
<1>0. PICK new : new = [i \in 0 .. L + 1 |-> IF i = L + 1 THEN LogEnd + n ELSE pos[i]]
  OBVIOUS
<1>11. /\ new \in [0 .. L + 1 -> Nat] /\ new[L + 1] = LogEnd + n /\ new[L] = LogEnd /\ new[0] = 0
       /\ \A i \in 0 .. L : new[i] = pos[i]
  <2>1. pos \in [0 .. L -> Nat] /\ pos[0] = 0 /\ pos[L] = LogEnd BY <1>2 DEF Layout
  <2>2. \A i \in 0 .. L + 1 : i # L + 1 => i \in 0 .. L BY <1>4
  <2>3. L + 1 \in 0 .. L + 1 /\ \A i \in 0 .. L : i \in 0 .. L + 1 /\ i # L + 1 BY <1>4
  <2>4. LogEnd + n \in Nat /\ 0 \in 0 .. L /\ L \in 0 .. L BY <1>3, <1>4
  <2> HIDE DEF L
  <2> QED BY <1>0, <2>1, <2>2, <2>3, <2>4
<1>12. Layout(new)'
  <2>1. ASSUME NEW i \in 1 .. L + 1 PROVE new[i] = new[i - 1] + Log'[i].size /\ new[i] <= LogEnd + n
    <3>1. CASE i = L + 1
      <4>1. i - 1 = L BY <1>4, <3>1
      <4> QED BY <1>3, <1>4, <1>5, <1>6, <1>11, <3>1, <4>1
    <3>2. CASE i \in 1 .. L
      <4>1. i \in 0 .. L /\ i - 1 \in 0 .. L BY <1>4, <3>2
      <4>2. pos[i] = pos[i - 1] + Log[i].size /\ pos[i] <= LogEnd BY <1>2, <3>2 DEF Layout
      <4>3. new[i] \in Nat BY <1>4, <1>11, <2>1
      <4>4. new[i] <= LogEnd + n BY <1>3, <1>4, <1>11, <4>1, <4>2, <4>3
      <4> QED BY <1>6, <1>11, <3>2, <4>1, <4>2, <4>4
    <3> QED BY <1>4, <3>1, <3>2
  <2> QED BY <1>6, <1>7, <1>11, <2>1 DEF Layout
<1>13. /\ \A s \in Sectors : /\ Holds(Log, pos, L, s, disk'[s])
                             /\ \A v \in vers'[s] : Holds(Log, pos, synced, s, v)
       /\ synced \in 0 .. L
  <2>1. synced <= L /\ synced \in Nat
    <3>1. synced <= L BY <1>1 DEF LogIntact
    <3>2. synced \in Nat BY BoundsAssumption DEF Types, TypeOK
    <3> QED BY <3>1, <3>2
  <2>2. synced \in 0 .. L BY <1>4, <2>1
  <2>3. \A s \in Sectors : /\ Holds(Log, pos, Len(Log), s, disk'[s])
                           /\ \A v \in vers'[s] : Holds(Log, pos, synced', s, v)
    <3>1. open /\ Layout(pos) /\ InPlace(pos) /\ synced <= Len(Log) BY <1>1, <1>2, <2>1
    <3>2. synced' = synced \/ ((\A s \in Sectors : vers'[s] = {disk[s]}) /\ synced' = Len(Log)) BY <1>1
    <3> HIDE DEF L
    <3> QED BY <1>10, <3>1, <3>2, KeptInPlace
  <2> QED BY <1>1, <2>2, <2>3
<1>14. ASSUME NEW s \in Sectors, NEW v, NEW m \in 0 .. L, Holds(Log, pos, m, s, v)
       PROVE  Holds(Log', new, m, s, v)
  <2>1. \A i \in 1 .. m : i \in 1 .. L /\ i - 1 \in 0 .. L BY <1>4
  <2>2. \A i \in 1 .. m : Log'[i] = Log[i] /\ new[i - 1] = pos[i - 1] BY <1>6, <1>11, <2>1
  <2> QED BY <1>14, <2>2 DEF Holds
<1>15. ASSUME NEW s \in Sectors, NEW j \in 1 .. n, (LogEnd + (j - 1)) \div SECTOR_SIZE = s
       PROVE  disk'[s][(LogEnd + (j - 1)) % SECTOR_SIZE] = Cell(r, j)
  <2> DEFINE p == LogEnd + (j - 1)
             w == (p % SECTOR_SIZE)
             d == s - k
  <2>1. p \in Int /\ tail_offset \in Nat /\ tail_offset < SECTOR_SIZE /\ s \in Int /\ SECTOR_SIZE \in Nat \ {0}
    BY <1>3, <1>4, SectorAssumption, BoundsAssumption DEF Places, Sectors
  <2>2. w \in Places /\ p = s * SECTOR_SIZE + w BY <1>15, <2>1, Place
  <2>3. p = k * SECTOR_SIZE + (tail_offset + (j - 1)) BY <1>3, <2>1 DEF LogEnd
  <2>4. /\ d \in Int /\ d * SECTOR_SIZE = s * SECTOR_SIZE - k * SECTOR_SIZE
        /\ s * SECTOR_SIZE \in Int /\ k * SECTOR_SIZE \in Int /\ d * SECTOR_SIZE \in Int
    <3>1. d \in Int BY <2>1
    <3> QED BY <2>1, <3>1, SectorOrder
  <2> HIDE DEF p, w, d
  <2>5. d * SECTOR_SIZE + w = tail_offset + (j - 1) /\ w \in 0 .. SECTOR_SIZE - 1
    BY <2>1, <2>2, <2>3, <2>4 DEF Places
  <2>6. d \in 0 .. q - 1
    <3>1. d * SECTOR_SIZE < q * SECTOR_SIZE /\ d * SECTOR_SIZE + SECTOR_SIZE > 0
      BY <1>3, <2>1, <2>4, <2>5
    <3>2. q \in Int /\ 0 \in Int /\ 0 * SECTOR_SIZE = 0 BY <2>1
    <3>3. ~(q <= d)
      <4>1. q < d => q * SECTOR_SIZE + SECTOR_SIZE <= d * SECTOR_SIZE BY <2>4, <3>2, SectorOrder
      <4> QED BY <1>3, <2>1, <2>4, <3>1, <4>1
    <3>4. ~(d < 0)
      <4>1. d < 0 => d * SECTOR_SIZE + SECTOR_SIZE <= 0 * SECTOR_SIZE BY <2>4, <3>2, SectorOrder
      <4> QED BY <2>1, <2>4, <3>1, <3>2, <4>1
    <3> QED BY <2>4, <3>3, <3>4
  <2>7. s \in {k + e : e \in 0 .. q - 1}
    <3>1. s = k + d BY <2>1 DEF d
    <3> QED BY <2>6, <3>1
  <2>8. disk' = [t \in Sectors |-> IF t \in {k + e : e \in 0 .. q - 1}
                                   THEN SectorOf(Staged(r), t - k) ELSE disk[t]]
    BY <1>3, <1>9 DEF Write
  <2>9. disk'[s] = SectorOf(Staged(r), d) BY <2>7, <2>8 DEF d
  <2>10. disk'[s][w] = Staged(r)[tail_offset + (j - 1)] BY <2>2, <2>5, <2>9 DEF SectorOf
  <2>11. Staged(r)[tail_offset + (j - 1)] = Cell(r, j) BY <1>1, <1>5, <1>15, StagedPrefix
  <2> QED BY <2>10, <2>11 DEF p, w
<1>16. InPlace(new)'
  <2>1. ASSUME NEW s \in Sectors PROVE Holds(Log', new, L + 1, s, disk'[s])
    <3>1. Holds(Log', new, L, s, disk'[s]) BY <1>4, <1>13, <1>14
    <3>2. \A i \in 1 .. L + 1 : i \in 1 .. L \/ i = L + 1 BY <1>4
    <3>3. (L + 1) - 1 = L BY <1>4
    <3>4. \A j \in 1 .. Log'[L + 1].size :
            LET p == new[(L + 1) - 1] + (j - 1)
            IN  p \div SECTOR_SIZE = s => disk'[s][p % SECTOR_SIZE] = Cell(Log'[L + 1], j)
      BY <1>5, <1>6, <1>11, <1>15, <3>3
    <3> HIDE DEF L
    <3> QED BY <3>1, <3>2, <3>4 DEF Holds
  <2>2. \A s \in Sectors : \A v \in vers'[s] : Holds(Log', new, synced, s, v) BY <1>13, <1>14
  <2> HIDE DEF L
  <2> QED BY <1>1, <1>6, <2>1, <2>2 DEF InPlace
<1> QED BY <1>8, <1>12, <1>16


\* A step that leaves the log alone keeps it intact.
LEMMA KeptIntact ==
  ASSUME Types, Types', LogIntact, open, KeepsLog, next_seq' >= next_seq,
         UNCHANGED <<sector_offset, tail_offset, open, epoch, acked, flush_end>>,
         synced' = synced \/ ((\A k \in Sectors : vers'[k] = {disk[k]}) /\ synced' = Len(Log))
  PROVE  LogIntact'
<1>1. Log' = Log /\ LogEnd' = LogEnd BY DEF Log, LogEnd
<1>2. Numbered /\ synced <= Len(Log) /\ Len(Log) \in Nat BY LogTypes DEF LogIntact
<1>3. Numbered'
  <2>1. ASSUME NEW i \in 1 .. Len(Log) PROVE Log[i].seq < next_seq'
    <3>1. Log[i].seq \in Nat /\ Log[i].seq < next_seq BY <1>2, LogTypes DEF Numbered
    <3>2. next_seq \in Nat /\ next_seq' \in Nat BY BoundsAssumption DEF Types, TypeOK
    <3> QED BY <3>1, <3>2
  <2> QED BY <1>1, <1>2, <2>1 DEF Numbered
<1>4. synced' <= Len(Log) BY <1>2
<1>5. ASSUME ~flush_end PROVE LogEnd <= MaxSectors * SECTOR_SIZE /\ \E pos : Layout(pos)' /\ InPlace(pos)'
  <2>1. LogEnd <= MaxSectors * SECTOR_SIZE BY <1>5 DEF LogIntact
  <2>2. PICK pos : Layout(pos) /\ InPlace(pos) BY <1>5 DEF LogIntact
  <2>3. Layout(pos)' BY <1>1, <2>2 DEF Layout
  <2>4. \A k \in Sectors : /\ Holds(Log, pos, Len(Log), k, disk'[k])
                           /\ \A v \in vers'[k] : Holds(Log, pos, synced', k, v)
    BY <1>2, <2>2, KeptInPlace
  <2>5. InPlace(pos)' BY <1>1, <2>4 DEF InPlace
  <2> QED BY <2>1, <2>3, <2>5
<1> QED BY <1>1, <1>3, <1>4, <1>5 DEF LogIntact

\* A new writer has no log.
LEMMA OpenIntact ==
  ASSUME Types, Open
  PROVE  LogIntact'
<1>1. epoch' \in 1 .. MaxEpoch /\ epoch' > epoch BY BoundsAssumption DEF Open, Types, TypeOK
<1>2. Log' = << >> BY <1>1 DEF Open, Log, Types
<1>3. LogEnd' = 0 /\ synced' = 0 BY DEF Open, ResetWriter, LogEnd
<1>4. Len(Log') = 0 /\ 0 .. 0 = {0} /\ 1 .. 0 = {} /\ 2 .. 0 = {} BY <1>2
<1>5. Numbered' BY <1>4 DEF Numbered
<1>6. PICK pos : pos = [i \in {0} |-> 0] OBVIOUS
<1>7. Layout(pos)' BY <1>3, <1>4, <1>6 DEF Layout
<1>8. InPlace(pos)' BY <1>3, <1>4 DEF InPlace, Holds
<1>9. 0 <= MaxSectors * SECTOR_SIZE BY SectorAssumption, BoundsAssumption
<1>10. synced' <= Len(Log') BY <1>3, <1>4
<1> QED BY <1>3, <1>5, <1>7, <1>8, <1>9, <1>10 DEF LogIntact

\* An acknowledged append makes the log one longer.
LEMMA AppendOkIntact ==
  ASSUME Types, Types', Mirror, LogIntact, NEW n \in Sizes, AppendOk(n)
  PROVE  LogIntact'
<1> DEFINE r == Rec(epoch, next_seq, n)
           L == Len(Log)
<1>1. open /\ Fits(n) /\ synced' = synced /\ next_seq' = next_seq + 1 BY DEF AppendOk, Fits
<1>2. /\ Log \in Seq(Records) /\ L \in Nat /\ epoch \in 1 .. MaxEpoch
      /\ \A i \in 1 .. L : Log[i].seq \in Nat
      /\ next_seq \in Nat /\ synced \in Nat
  BY <1>1, LogTypes, BoundsAssumption DEF Types, TypeOK
<1>3. r.seq = next_seq /\ r \in Records BY <1>1, StagedTypes DEF Types, Rec
<1>4. /\ Len(Log') = L + 1 /\ Log'[L + 1] = r /\ \A i \in 1 .. L : Log'[i] = Log[i]
  <2>1. acked' = [acked EXCEPT ![epoch] = Append(acked[epoch], r)] /\ epoch' = epoch BY DEF AppendOk
  <2>2. Log' = Append(Log, r) BY <1>2, <2>1 DEF Log, Types, TypeOK
  <2> HIDE DEF r
  <2> QED BY <1>2, <1>3, <2>2, AppendProperties
<1> HIDE DEF r
<1>5. /\ \A i \in 1 .. L : Log[i].seq < next_seq
      /\ \A i \in 2 .. L : Log[i - 1].seq < Log[i].seq
      /\ synced <= L
  BY <1>1 DEF LogIntact, Numbered
<1>6. Numbered'
  <2>1. ASSUME NEW i \in 1 .. L + 1 PROVE Log'[i].seq < next_seq + 1
    <3>1. CASE i = L + 1 BY <1>2, <1>3, <1>4, <3>1
    <3>2. CASE i \in 1 .. L
      <4>1. Log[i].seq \in Nat /\ Log[i].seq < next_seq BY <1>2, <1>5, <3>2
      <4> QED BY <1>2, <1>4, <3>2, <4>1
    <3> QED BY <1>2, <3>1, <3>2
  <2>2. ASSUME NEW i \in 2 .. L + 1 PROVE Log'[i - 1].seq < Log'[i].seq
    <3>1. i - 1 \in 1 .. L BY <1>2
    <3>2. CASE i = L + 1 BY <1>3, <1>4, <1>5, <3>1, <3>2
    <3>3. CASE i \in 2 .. L
      <4>1. i \in 1 .. L BY <1>2, <3>3
      <4> QED BY <1>4, <1>5, <3>1, <3>3, <4>1
    <3> QED BY <1>2, <3>2, <3>3
  <2> HIDE DEF L
  <2> QED BY <1>1, <1>4, <2>1, <2>2 DEF Numbered
<1>7. synced' <= Len(Log') BY <1>1, <1>2, <1>4, <1>5
<1> QED BY <1>6, <1>7, AppendOkInPlace DEF LogIntact

\* Every step keeps the log intact.
LEMMA StepIntact == Types /\ Types' /\ Mirror /\ LogIntact /\ [Next]_vars => LogIntact'
<1> SUFFICES ASSUME Types, Types', Mirror, LogIntact, [Next]_vars PROVE LogIntact'
  OBVIOUS
<1>1. CASE Open BY <1>1, OpenIntact
<1>2. CASE Close \/ Crash
  <2>1. open' = FALSE BY <1>2 DEF Close, Crash
  <2> QED BY <2>1 DEF LogIntact
<1>3. CASE ~open /\ ~(Open \/ Close \/ Crash)
  <2>1. open' = open BY <1>3 DEF Next, Sync, TruncateToLogicalEnd, AppendOk, AppendIoError, AppendFails,
                              AppendNoRoom, vars
  <2> QED BY <1>3, <2>1 DEF LogIntact
<1>4. CASE open /\ (Sync \/ TruncateToLogicalEnd \/ (\E n \in Sizes : AppendNoRoom(n)) \/ UNCHANGED vars)
  <2>1. KeepsLog /\ UNCHANGED <<sector_offset, tail_offset, open, epoch, acked, flush_end>>
    BY <1>4, RestKeepsLog
  <2>2. next_seq' >= next_seq
    <3>1. next_seq \in Nat BY BoundsAssumption DEF Types, TypeOK
    <3>2. CASE Sync \/ TruncateToLogicalEnd \/ UNCHANGED vars
      <4>1. next_seq' = next_seq BY <3>2 DEF Sync, TruncateToLogicalEnd, vars, writer
      <4> QED BY <3>1, <4>1
    <3>3. CASE \E n \in Sizes : AppendNoRoom(n)
      <4>1. next_seq' = next_seq + 1 BY <3>3 DEF AppendNoRoom
      <4> QED BY <3>1, <4>1
    <3> QED BY <1>4, <3>2, <3>3
  <2>3. synced' = synced \/ ((\A k \in Sectors : vers'[k] = {disk[k]}) /\ synced' = Len(Log))
    BY <1>4 DEF Sync, TruncateToLogicalEnd, AppendNoRoom, vars, history, Log
  <2> QED BY <1>4, <2>1, <2>2, <2>3, KeptIntact
<1>5. CASE open /\ \E n \in Sizes : AppendOk(n) BY <1>5, AppendOkIntact
<1>6. CASE open /\ \E n \in Sizes : AppendIoError(n)
  <2>1. PICK n \in Sizes : AppendIoError(n) BY <1>6
  <2>2. KeepsLog /\ UNCHANGED <<sector_offset, tail_offset, open, epoch, acked, synced, flush_end>>
    BY <2>1, FailsKeepsLog
  <2>3. next_seq' >= next_seq
    <3>1. next_seq \in Nat /\ next_seq' = next_seq + 1
      BY <2>1, BoundsAssumption DEF Types, TypeOK, AppendIoError, AppendFails
    <3> QED BY <3>1
  <2> QED BY <1>6, <2>2, <2>3, KeptIntact
<1> QED BY <1>1, <1>2, <1>3, <1>4, <1>5, <1>6 DEF Next

\* One turn of replay_all after another finds the first m records of the log in
\* the sectors img: record i decodes where record i - 1 ended.
ReplayFinds(img, m) ==
  LET buf == Contents(img)
  IN  \E pos \in [0 .. m -> Nat] :
        /\ pos[0] = 0
        /\ \A i \in 1 .. m :
             LET h == buf[pos[i - 1] + 1]
             IN  /\ Decodes(buf, pos[i - 1], IF i = 1 THEN 0 ELSE Log[i - 1].seq)
                 /\ Rec(h.epoch, h.seq, h.size) = Log[i]
                 /\ pos[i] = pos[i - 1] + h.size

LogReadable ==
  open /\ ~flush_end => /\ ReplayFinds(disk, Len(Log))
                        /\ \A img \in CrashImages : ReplayFinds(img, synced)

\* Records that are in place decode.
LEMMA InPlaceDecodes ==
  ASSUME Types, open, LogEnd <= MaxSectors * SECTOR_SIZE, Numbered, NEW pos, Layout(pos),
         NEW img, NEW m \in 0 .. Len(Log), \A k \in Sectors : Holds(Log, pos, m, k, img[k])
  PROVE  ReplayFinds(img, m)
<1> DEFINE buf == Contents(img)
           N == MaxSectors * SECTOR_SIZE
<1>1. /\ Len(Log) \in Nat /\ LogEnd \in Nat /\ N \in Nat /\ SECTOR_SIZE \in Nat \ {0} /\ MaxSectors \in Nat
      /\ \A i \in 1 .. Len(Log) : Log[i] \in Records /\ Log[i].size \in Nat \ {0} /\ Log[i].seq \in Nat \ {0}
  BY LogTypes, SectorAssumption, BoundsAssumption
<1>2. Len(buf) = N /\ \A j \in 1 .. N : buf[j] = img[(j - 1) \div SECTOR_SIZE][(j - 1) % SECTOR_SIZE]
  <2>1. buf = [j \in 1 .. N |-> img[(j - 1) \div SECTOR_SIZE][(j - 1) % SECTOR_SIZE]] BY DEF Contents
  <2>2. N \in Nat BY <1>1
  <2> HIDE DEF buf, N
  <2>3. Len(buf) = N BY <2>1, <2>2
  <2> QED BY <2>1, <2>3
<1>3. \A i \in 1 .. m : i \in 1 .. Len(Log) /\ i - 1 \in 0 .. Len(Log) /\ i \in 0 .. Len(Log) BY <1>1
<1>4. \A i \in 0 .. m : pos[i] \in Nat
  <2>1. \A i \in 0 .. m : i \in 0 .. Len(Log) BY <1>1
  <2> QED BY <2>1 DEF Layout
<1> HIDE DEF buf, N
<1>5. ASSUME NEW i \in 1 .. m, NEW j \in 1 .. Log[i].size PROVE buf[pos[i - 1] + j] = Cell(Log[i], j)
  <2> DEFINE p == pos[i - 1] + (j - 1)
  <2>1. p \in Nat /\ p < LogEnd BY <1>3, CellBeforeEnd
  <2>2. pos[i - 1] \in Nat BY <1>3 DEF Layout
  <2>3. j \in Nat /\ pos[i - 1] + j = p + 1 BY <1>1, <1>3, <2>2
  <2>4. p + 1 \in 1 .. N /\ (p + 1) - 1 = p
    <3>1. LogEnd <= N BY DEF N
    <3> HIDE DEF p
    <3> QED BY <1>1, <2>1, <3>1
  <2>5. buf[p + 1] = img[p \div SECTOR_SIZE][p % SECTOR_SIZE] BY <1>2, <2>4
  <2>6. p \div SECTOR_SIZE \in Sectors
    <3> DEFINE k == p \div SECTOR_SIZE
               w == (p % SECTOR_SIZE)
    <3>1. p \in Int BY <2>1
    <3>2. k \in Int /\ w \in Places /\ p = k * SECTOR_SIZE + w BY <3>1, Place
    <3>3. w \in 0 .. SECTOR_SIZE - 1 /\ p < MaxSectors * SECTOR_SIZE /\ p >= 0
      BY <1>1, <2>1, <2>4, <3>2 DEF Places, N
    <3> HIDE DEF p, k, w
    <3>4. k * SECTOR_SIZE \in Int /\ MaxSectors * SECTOR_SIZE \in Int BY <1>1, <3>2, SectorOrder
    <3>5. ~(MaxSectors <= k)
      <4>1. MaxSectors < k => MaxSectors * SECTOR_SIZE + SECTOR_SIZE <= k * SECTOR_SIZE
        BY <1>1, <3>2, SectorOrder
      <4> QED BY <1>1, <3>2, <3>3, <3>4, <4>1
    <3>6. ~(k < 0)
      <4>1. k < 0 => k * SECTOR_SIZE + SECTOR_SIZE <= 0 * SECTOR_SIZE BY <3>2, SectorOrder
      <4>2. 0 * SECTOR_SIZE = 0 BY <1>1
      <4>3. k * SECTOR_SIZE + w >= 0 BY <3>2, <3>3
      <4>4. k * SECTOR_SIZE + SECTOR_SIZE > 0 BY <1>1, <3>3, <3>4, <4>3
      <4> QED BY <1>1, <3>4, <4>1, <4>2, <4>4
    <3> QED BY <1>1, <3>2, <3>5, <3>6 DEF k, Sectors
  <2>7. img[p \div SECTOR_SIZE][p % SECTOR_SIZE] = Cell(Log[i], j) BY <2>6 DEF Holds
  <2> HIDE DEF p
  <2> QED BY <2>3, <2>5, <2>7
<1>6. ASSUME NEW i \in 1 .. m
      PROVE  LET h == buf[pos[i - 1] + 1]
             IN  /\ Decodes(buf, pos[i - 1], IF i = 1 THEN 0 ELSE Log[i - 1].seq)
                 /\ Rec(h.epoch, h.seq, h.size) = Log[i]
                 /\ pos[i] = pos[i - 1] + h.size
  <2> DEFINE h == buf[pos[i - 1] + 1]
             p == pos[i - 1]
  <2>1. Log[i] \in Records /\ Log[i].size \in Nat \ {0} /\ Log[i].seq \in Nat \ {0} BY <1>1, <1>3
  <2>2. h = Cell(Log[i], 1)
    <3>1. 1 \in 1 .. Log[i].size BY <2>1
    <3> QED BY <1>5, <3>1
  <2>3. h.at = 1 /\ h.size = Log[i].size /\ h.seq = Log[i].seq /\ h.epoch = Log[i].epoch BY <2>2 DEF Cell
  <2>4. Rec(h.epoch, h.seq, h.size) = Log[i] BY <2>1, <2>3 DEF Rec, Records
  <2>5. p \in Nat /\ pos[i] \in Nat /\ pos[i] = p + Log[i].size /\ pos[i] <= N
    <3>1. pos[i] = p + Log[i].size /\ pos[i] <= LogEnd BY <1>3 DEF Layout
    <3>2. p \in Nat /\ pos[i] \in Nat BY <1>3 DEF Layout
    <3>3. LogEnd <= N BY DEF N
    <3> QED BY <1>1, <3>1, <3>2, <3>3
  <2>6. p < Len(buf) /\ p + h.size <= Len(buf) BY <1>1, <1>2, <2>1, <2>3, <2>5
  <2>7. ASSUME NEW j \in 1 .. h.size PROVE buf[p + j] = [h EXCEPT !.at = j]
    <3>1. buf[p + j] = Cell(Log[i], j) BY <1>5, <2>3
    <3>2. [h EXCEPT !.at = j] = Cell(Log[i], j) BY <2>2 DEF Cell
    <3> QED BY <3>1, <3>2
  <2>8. h.seq > IF i = 1 THEN 0 ELSE Log[i - 1].seq
    <3>1. CASE i = 1 BY <2>1, <2>3, <3>1
    <3>2. CASE i # 1
      <4>1. i \in 2 .. Len(Log) /\ i - 1 \in 1 .. Len(Log) BY <1>1, <3>2
      <4>2. Log[i - 1].seq < Log[i].seq /\ Log[i - 1].seq \in Nat BY <1>1, <4>1 DEF Numbered
      <4> QED BY <2>1, <2>3, <3>2, <4>2
    <3> QED BY <3>1, <3>2
  <2> HIDE DEF h, p
  <2>9. Decodes(buf, p, IF i = 1 THEN 0 ELSE Log[i - 1].seq)
    <3>1. h = buf[p + 1] BY DEF h, p
    <3> QED BY <2>3, <2>6, <2>7, <2>8, <3>1 DEF Decodes
  <2> QED BY <2>3, <2>4, <2>5, <2>9 DEF h, p
<1> DEFINE at == [i \in 0 .. m |-> pos[i]]
<1>7. /\ at \in [0 .. m -> Nat] /\ at[0] = 0
      /\ \A i \in 1 .. m : at[i] = pos[i] /\ at[i - 1] = pos[i - 1]
  <2>1. pos[0] = 0 /\ 0 \in 0 .. m /\ \A i \in 1 .. m : i \in 0 .. m /\ i - 1 \in 0 .. m BY <1>1 DEF Layout
  <2> QED BY <1>4, <2>1
<1> HIDE DEF at
<1>8. \A i \in 1 .. m :
        LET h == buf[at[i - 1] + 1]
        IN  /\ Decodes(buf, at[i - 1], IF i = 1 THEN 0 ELSE Log[i - 1].seq)
            /\ Rec(h.epoch, h.seq, h.size) = Log[i]
            /\ at[i] = at[i - 1] + h.size
  BY <1>6, <1>7
<1> QED BY <1>7, <1>8 DEF ReplayFinds, buf

\* What is in place is found.
LEMMA IntactReadable == Types /\ LogIntact => LogReadable
<1> SUFFICES ASSUME Types, LogIntact, open, ~flush_end
             PROVE  ReplayFinds(disk, Len(Log)) /\ \A img \in CrashImages : ReplayFinds(img, synced)
  BY DEF LogReadable
<1>1. /\ Numbered /\ synced <= Len(Log) /\ LogEnd <= MaxSectors * SECTOR_SIZE /\ Len(Log) \in Nat
      /\ synced \in Nat
  BY LogTypes, BoundsAssumption DEF LogIntact, Types, TypeOK
<1>2. PICK pos : Layout(pos) /\ InPlace(pos) BY DEF LogIntact
<1>3. Len(Log) \in 0 .. Len(Log) /\ synced \in 0 .. Len(Log) BY <1>1
<1>4. ReplayFinds(disk, Len(Log)) BY <1>1, <1>2, <1>3, InPlaceDecodes DEF InPlace
<1>5. ASSUME NEW img \in CrashImages PROVE ReplayFinds(img, synced)
  <2>1. \A k \in Sectors : img[k] \in vers[k] BY DEF CrashImages
  <2>2. \A k \in Sectors : Holds(Log, pos, synced, k, img[k]) BY <1>2, <2>1 DEF InPlace
  <2> QED BY <1>1, <1>2, <1>3, <2>2, InPlaceDecodes
<1> QED BY <1>4, <1>5

-----------------------------------------------------------------------------
(* What the scan returns *)

\* Every set of numbers has a least one.
LEMMA Least ==
  ASSUME NEW T, T \subseteq Nat, T # {}
  PROVE  \E x \in T : \A y \in T : x <= y
<1> DEFINE R == OpToRel(<, Nat)
<1>1. IsWellFoundedOn(R, Nat) BY NatLessThanWellFounded
<1>2. \A x, y \in Nat : y < x => <<y, x>> \in R BY DEF OpToRel
<1> HIDE DEF R
<1>3. PICK x \in T : \A y \in T : ~(<<y, x>> \in R) BY <1>1, WFMin
<1>4. \A y \in T : ~(y < x) BY <1>2, <1>3
<1> QED BY <1>4

\* Where the scan stands, and what it then still returns.
Turns(buf) == (0 .. Len(buf)) \X Nat

\* A record that decodes is not empty, ends in the buffer and has a number.
LEMMA TurnGoesOn ==
  ASSUME NEW buf \in Seq(Cells), NEW p \in 0 .. Len(buf), NEW s \in Nat, Decodes(buf, p, s)
  PROVE  /\ buf[p + 1] \in Cells /\ buf[p + 1] # Zero /\ buf[p + 1].at = 1
         /\ buf[p + 1].size \in Nat \ {0} /\ buf[p + 1].seq \in Nat
         /\ p + buf[p + 1].size \in 1 .. Len(buf) /\ p < p + buf[p + 1].size
         /\ RecOf(buf[p + 1]) \in Records
<1> DEFINE h == buf[p + 1]
<1>1. Len(buf) \in Nat /\ p < Len(buf) /\ h.at = 1 /\ p + h.size <= Len(buf)
  BY LenProperties DEF Decodes
<1>2. p + 1 \in 1 .. Len(buf) BY <1>1
<1>3. h \in Cells BY <1>2, ElementOfSeq
<1>4. h # Zero BY <1>1 DEF Zero
<1>5. h \in [epoch : 1 .. MaxEpoch, seq : 1 .. MaxSeq, at : Nat, size : Sizes] BY <1>3, <1>4 DEF Cells
<1>6. h.size \in Sizes /\ h.seq \in 1 .. MaxSeq /\ h.epoch \in 1 .. MaxEpoch BY <1>5
<1>7. h.size \in Nat \ {0} /\ h.seq \in Nat
  <2>1. \A x \in 1 .. MaxSeq : x \in Nat BY BoundsAssumption
  <2> HIDE DEF h
  <2> QED BY <1>6, <2>1, SizesAssumption
<1>8. RecOf(h) \in Records BY <1>6 DEF RecOf, Rec, Records
<1> HIDE DEF h
<1>9. p + h.size \in 1 .. Len(buf) /\ p < p + h.size BY <1>1, <1>7
<1> QED BY <1>1, <1>3, <1>4, <1>7, <1>8, <1>9 DEF h

\* The scan is what its definition says: every turn leads further on, so that
\* there is such a function.
LEMMA ScanIs ==
  ASSUME NEW buf \in Seq(Cells)
  PROVE  ReplayFrom(buf) = [x \in Turns(buf) |-> Turn(buf, ReplayFrom(buf), x)]
<1> DEFINE N == Len(buf)
           Last(m) == {x \in Turns(buf) : x[1] + m >= N}
           Is(f, m) == f = [x \in Last(m) |-> Turn(buf, f, x)]
<1>1. N \in Nat BY LenProperties
<1>2. \A x \in Turns(buf) : x[1] \in 0 .. N /\ x[2] \in Nat /\ x[1] \in Nat BY <1>1 DEF Turns
<1>3. ASSUME NEW m \in Nat, NEW f, Is(f, m) PROVE \E g : Is(g, m + 1)
  <2> DEFINE g == [x \in Last(m + 1) |-> Turn(buf, f, x)]
  <2>1. ASSUME NEW x \in Last(m) PROVE x \in Last(m + 1) /\ g[x] = f[x]
    <3>1. x[1] + (m + 1) >= N BY <1>1, <1>2
    <3>2. x \in Last(m + 1) BY <3>1
    <3>3. f[x] = Turn(buf, f, x) BY <1>3
    <3> QED BY <3>2, <3>3
  <2>2. ASSUME NEW x \in Last(m + 1) PROVE Turn(buf, g, x) = Turn(buf, f, x)
    <3>1. CASE ~Decodes(buf, x[1], x[2]) BY <3>1 DEF Turn
    <3>2. CASE Decodes(buf, x[1], x[2])
      <4> DEFINE h == buf[x[1] + 1]
                 y == <<x[1] + h.size, h.seq>>
      <4>1. x[1] \in 0 .. N /\ x[2] \in Nat /\ x[1] + (m + 1) >= N BY <1>2
      <4>2. h.size \in Nat \ {0} /\ h.seq \in Nat /\ x[1] + h.size \in 1 .. N
        BY <3>2, <4>1, TurnGoesOn
      <4>3. y[1] + m >= N /\ y \in Turns(buf)
        <5> HIDE DEF h
        <5> QED BY <1>1, <4>1, <4>2 DEF Turns
      <4>4. y \in Last(m) BY <4>3
      <4>5. g[y] = f[y] BY <2>1, <4>4
      <4> HIDE DEF g
      <4> QED BY <3>2, <4>5 DEF Turn
    <3> QED BY <3>1, <3>2
  <2>3. Is(g, m + 1) BY <2>2
  <2> HIDE DEF g
  <2> QED BY <2>3
<1>4. \E f : Is(f, 0)
  <2> DEFINE f == [x \in Last(0) |-> << >>]
  <2>1. ASSUME NEW x \in Last(0) PROVE ~Decodes(buf, x[1], x[2])
    <3>1. ~(x[1] < N) BY <1>1, <1>2
    <3> QED BY <3>1 DEF Decodes
  <2>2. \A x \in Last(0) : Turn(buf, f, x) = << >> BY <2>1 DEF Turn
  <2>3. Is(f, 0) BY <2>2
  <2> HIDE DEF f
  <2> QED BY <2>3
<1>5. \A m \in Nat : \E f : Is(f, m)
  <2> DEFINE T == {m \in Nat : ~\E f : Is(f, m)}
  <2> HIDE DEF Is
  <2>1. SUFFICES ASSUME T # {} PROVE FALSE
    OBVIOUS
  <2>2. PICK m \in T : \A y \in T : m <= y BY <2>1, Least
  <2>3. m \in Nat /\ m # 0 BY <1>4
  <2>4. m - 1 \in Nat /\ ~(m <= m - 1) /\ (m - 1) + 1 = m BY <2>3
  <2>5. m - 1 \notin T BY <2>2, <2>4
  <2>6. PICK f : Is(f, m - 1) BY <2>4, <2>5
  <2>7. \E g : Is(g, m) BY <1>3, <2>4, <2>6
  <2> QED BY <2>7
<1>6. PICK f : Is(f, N) BY <1>1, <1>5
<1>7. Last(N) = Turns(buf)
  <2>1. \A x \in Turns(buf) : x[1] + N >= N BY <1>1, <1>2
  <2> QED BY <2>1
<1>8. f = [x \in Turns(buf) |-> Turn(buf, f, x)] BY <1>6, <1>7
<1>9. ReplayFrom(buf) = CHOOSE g : g = [x \in (0 .. Len(buf)) \X Nat |-> Turn(buf, g, x)]
  BY DEF ReplayFrom
<1> QED BY <1>8, <1>9 DEF Turns

\* One turn of the scan.
LEMMA ScanTurn ==
  ASSUME NEW buf \in Seq(Cells), NEW p \in 0 .. Len(buf), NEW s \in Nat
  PROVE  ReplayFrom(buf)[<<p, s>>] =
           IF Decodes(buf, p, s)
           THEN <<RecOf(buf[p + 1])>> \o ReplayFrom(buf)[<<p + buf[p + 1].size, buf[p + 1].seq>>]
           ELSE << >>
<1> DEFINE F == ReplayFrom(buf)
<1>1. F = [x \in Turns(buf) |-> Turn(buf, F, x)] BY ScanIs
<1>2. <<p, s>> \in Turns(buf) BY DEF Turns
<1> HIDE DEF F
<1>3. F[<<p, s>>] = Turn(buf, F, <<p, s>>) BY <1>1, <1>2
<1> QED BY <1>3 DEF Turn, RecOf, F


\* A record that decodes ends with a cell of its own.
LEMMA DecodedEnds ==
  ASSUME NEW buf \in Seq(Cells), NEW p \in 0 .. Len(buf), NEW s \in Nat, Decodes(buf, p, s)
  PROVE  LET h == buf[p + 1]
             c == buf[p + h.size]
         IN  c.at = c.size /\ RecOf(c) = RecOf(h)
<1> DEFINE h == buf[p + 1]
<1>1. h \in Cells /\ h # Zero /\ h.size \in Nat \ {0} BY TurnGoesOn
<1>2. h \in [epoch : 1 .. MaxEpoch, seq : 1 .. MaxSeq, at : Nat, size : Sizes] BY <1>1 DEF Cells
<1>3. \A i \in 1 .. h.size : buf[p + i] = [h EXCEPT !.at = i] BY DEF Decodes
<1>4. h.size \in 1 .. h.size BY <1>1
<1> HIDE DEF h
<1>5. buf[p + h.size] = [h EXCEPT !.at = h.size] BY <1>3, <1>4
<1>6. /\ [h EXCEPT !.at = h.size].at = h.size /\ [h EXCEPT !.at = h.size].size = h.size
      /\ [h EXCEPT !.at = h.size].epoch = h.epoch /\ [h EXCEPT !.at = h.size].seq = h.seq
  BY <1>2
<1> QED BY <1>5, <1>6 DEF RecOf, Rec, h

\* A record has one number in its writer's log, it is not the record of a failed
\* append, and no failed record of the writer has a number to come.
Ledger ==
  /\ \A e \in 1 .. MaxEpoch : \A i \in 1 .. Len(acked[e]) :
       /\ acked[e][i].epoch = e /\ acked[e][i] \notin failed
       /\ \A j \in 1 .. i - 1 : acked[e][j].seq < acked[e][i].seq
  /\ \A x \in failed : x.epoch <= epoch /\ (open /\ x.epoch = epoch => x.seq < next_seq)

\* c belongs to a record that may be the first of a file.
First(c) ==
  RecOf(c) \in failed \/ \E e \in 1 .. MaxEpoch : Len(acked[e]) >= 1 /\ RecOf(c) = acked[e][1]

\* The record of c was appended behind the one of b, which was acknowledged.
Succeeds(b, c) ==
  \E e \in 1 .. MaxEpoch : \E j \in 1 .. Len(acked[e]) :
    /\ RecOf(b) = acked[e][j]
    /\ RecOf(c) \in failed \/ (j < Len(acked[e]) /\ RecOf(c) = acked[e][j + 1])

\* In image v of sector k a record starts only where the one before it ended, or
\* at the start of the file.
Orderly(k, v) ==
  /\ v[0].at = 1 => k = 0 /\ First(v[0])
  /\ \A i \in Places : i > 0 /\ v[i].at = 1 /\ v[i - 1].at = v[i - 1].size => Succeeds(v[i - 1], v[i])

\* rs are the records of writer e after the j-th, as far as some m-th, and perhaps
\* one whose append failed.
Continues(rs, e, j) ==
  \E m \in j .. Len(acked[e]) :
    \/ rs = SubSeq(acked[e], j + 1, m)
    \/ \E x \in failed : rs = SubSeq(acked[e], j + 1, m) \o <<x>>

\* The log of any writer.
LEMMA AckedTypes ==
  ASSUME Types, NEW e \in 1 .. MaxEpoch
  PROVE  /\ acked[e] \in Seq(Records) /\ Len(acked[e]) \in Nat
         /\ \A i \in 1 .. Len(acked[e]) : acked[e][i] \in Records /\ acked[e][i].seq \in Nat
<1>1. acked[e] \in Seq(Records) BY DEF Types, TypeOK
<1>2. Len(acked[e]) \in Nat BY <1>1, LenProperties
<1>3. \A i \in 1 .. Len(acked[e]) : acked[e][i] \in Records BY <1>1, ElementOfSeq
<1>4. \A r \in Records : r.seq \in Nat
  <2>1. \A r \in Records : r.seq \in 1 .. MaxSeq BY DEF Records
  <2>2. \A x \in 1 .. MaxSeq : x \in Nat BY BoundsAssumption
  <2> QED BY <2>1, <2>2
<1> QED BY <1>1, <1>2, <1>3, <1>4

\* A record is in one place of one log.
LEMMA OnePlace ==
  ASSUME Types, Ledger, NEW e \in 1 .. MaxEpoch, NEW f \in 1 .. MaxEpoch,
         NEW i \in 1 .. Len(acked[e]), NEW j \in 1 .. Len(acked[f]), acked[e][i] = acked[f][j]
  PROVE  e = f /\ i = j
<1>1. e = f BY DEF Ledger
<1>2. Len(acked[e]) \in Nat /\ acked[e][i].seq \in Nat /\ acked[e][j].seq \in Nat BY <1>1, AckedTypes
<1>3. ~(i < j)
  <2>1. SUFFICES ASSUME i < j PROVE FALSE OBVIOUS
  <2>2. i \in 1 .. j - 1 BY <1>2, <2>1
  <2>3. acked[f][i].seq < acked[f][j].seq BY <2>2 DEF Ledger
  <2> QED BY <1>1, <1>2, <2>3
<1>4. ~(j < i)
  <2>1. SUFFICES ASSUME j < i PROVE FALSE OBVIOUS
  <2>2. j \in 1 .. i - 1 BY <1>2, <2>1
  <2>3. acked[e][j].seq < acked[e][i].seq BY <2>2 DEF Ledger
  <2> QED BY <1>1, <1>2, <2>3
<1>5. i \in Nat /\ j \in Nat BY <1>1, <1>2
<1> QED BY <1>1, <1>3, <1>4, <1>5

\* The record before what continues the log.
LEMMA ContinuesBefore ==
  ASSUME Types, NEW e \in 1 .. MaxEpoch, NEW j \in 1 .. Len(acked[e]), NEW rs, Continues(rs, e, j)
  PROVE  Continues(<<acked[e][j]>> \o rs, e, j - 1)
<1> DEFINE L == acked[e]
<1>1. L \in Seq(Records) /\ Len(L) \in Nat /\ j \in Nat /\ (j - 1) + 1 = j BY AckedTypes
<1>2. PICK m \in j .. Len(L) : rs = SubSeq(L, j + 1, m) \/ \E x \in failed : rs = SubSeq(L, j + 1, m) \o <<x>>
  BY DEF Continues
<1> HIDE DEF L
<1>3. m \in j - 1 .. Len(L) /\ m \in Int /\ j + 1 \in Int BY <1>1, <1>2
<1>4. SubSeq(L, j, m) = <<L[j]>> \o SubSeq(L, j + 1, m)
  <2>1. j \in 1 .. Len(L) /\ m \in j .. Len(L) BY <1>2 DEF L
  <2> QED BY <1>1, <2>1, SubSeqRecursiveFirst
<1>5. CASE rs = SubSeq(L, j + 1, m) BY <1>1, <1>3, <1>4, <1>5 DEF Continues, L
<1>6. CASE \E x \in failed : rs = SubSeq(L, j + 1, m) \o <<x>>
  <2>1. PICK x \in failed : rs = SubSeq(L, j + 1, m) \o <<x>> BY <1>6
  <2>2. x \in Records BY DEF Types, TypeOK
  <2>3. j \in 1 .. Len(L) BY DEF L
  <2>4. L[j] \in Records BY <1>1, <2>3, ElementOfSeq
  <2>5. \A i \in j + 1 .. m : i \in 1 .. Len(L) BY <1>1, <1>2
  <2>6. \A i \in j + 1 .. m : L[i] \in Records BY <1>1, <2>5, ElementOfSeq
  <2>7. SubSeq(L, j + 1, m) \in Seq(Records) BY <1>3, <2>6, SubSeqProperties
  <2>8. <<L[j]>> \in Seq(Records) /\ <<x>> \in Seq(Records) BY <2>2, <2>4
  <2>9. (<<L[j]>> \o SubSeq(L, j + 1, m)) \o <<x>> = <<L[j]>> \o (SubSeq(L, j + 1, m) \o <<x>>)
    BY <2>7, <2>8, ConcatAssociative
  <2>10. <<L[j]>> \o rs = SubSeq(L, (j - 1) + 1, m) \o <<x>> BY <1>1, <1>4, <2>1, <2>9
  <2> QED BY <1>3, <2>10 DEF Continues, L
<1> QED BY <1>2, <1>5, <1>6


\* In buffer buf a record starts only where the one before it ended.
InOrder(buf) ==
  /\ 1 \in 1 .. Len(buf) /\ buf[1].at = 1 => First(buf[1])
  /\ \A p \in 1 .. Len(buf) - 1 :
       buf[p].at = buf[p].size /\ buf[p + 1].at = 1 => Succeeds(buf[p], buf[p + 1])

\* A record that decodes behind a last cell succeeds that cell's record.
LEMMA DecodedSucceeds ==
  ASSUME NEW buf \in Seq(Cells), InOrder(buf), NEW p \in 1 .. Len(buf), NEW s \in Nat,
         buf[p].at = buf[p].size, Decodes(buf, p, s)
  PROVE  Succeeds(buf[p], buf[p + 1])
<1>1. Len(buf) \in Nat /\ p < Len(buf) /\ buf[p + 1].at = 1 BY LenProperties DEF Decodes
<1>2. p \in 1 .. Len(buf) - 1 BY <1>1
<1> QED BY <1>1, <1>2 DEF InOrder

\* Behind a record whose append failed the scan ends.
LEMMA ScanEnds ==
  ASSUME Types, Ledger, NEW buf \in Seq(Cells), InOrder(buf), NEW p \in 1 .. Len(buf), NEW s \in Nat,
         buf[p].at = buf[p].size, RecOf(buf[p]) \in failed
  PROVE  ReplayFrom(buf)[<<p, s>>] = << >>
<1>1. ~Decodes(buf, p, s)
  <2>1. SUFFICES ASSUME Decodes(buf, p, s) PROVE FALSE OBVIOUS
  <2>2. PICK e \in 1 .. MaxEpoch : \E j \in 1 .. Len(acked[e]) : RecOf(buf[p]) = acked[e][j]
    BY <2>1, DecodedSucceeds DEF Succeeds
  <2> QED BY <2>2 DEF Ledger
<1>2. p \in 0 .. Len(buf) BY LenProperties
<1> QED BY <1>1, <1>2, ScanTurn

\* Behind a record of a log the scan returns the next ones of that log, and
\* perhaps one whose append failed.
LEMMA ScanContinues ==
  ASSUME Types, Ledger, NEW buf \in Seq(Cells), InOrder(buf)
  PROVE  \A p \in 1 .. Len(buf), s \in Nat, e \in 1 .. MaxEpoch : \A j \in 1 .. Len(acked[e]) :
           buf[p].at = buf[p].size /\ RecOf(buf[p]) = acked[e][j] =>
             Continues(ReplayFrom(buf)[<<p, s>>], e, j)
<1> DEFINE N == Len(buf)
           F == ReplayFrom(buf)
           Good(p) == \A s \in Nat, e \in 1 .. MaxEpoch : \A j \in 1 .. Len(acked[e]) :
                        buf[p].at = buf[p].size /\ RecOf(buf[p]) = acked[e][j] =>
                          Continues(F[<<p, s>>], e, j)
<1>1. N \in Nat BY LenProperties
<1>2. ASSUME NEW p \in 1 .. N, \A q \in 1 .. N : p < q => Good(q) PROVE Good(p)
  <2> SUFFICES ASSUME NEW s \in Nat, NEW e \in 1 .. MaxEpoch, NEW j \in 1 .. Len(acked[e]),
                      buf[p].at = buf[p].size, RecOf(buf[p]) = acked[e][j]
               PROVE  Continues(F[<<p, s>>], e, j)
    OBVIOUS
  <2>0. p \in 0 .. N BY <1>1
  <2>1. acked[e] \in Seq(Records) /\ Len(acked[e]) \in Nat /\ j \in Nat BY AckedTypes
  <2>2. SubSeq(acked[e], j + 1, j) = << >> /\ j \in j .. Len(acked[e])
    <3>1. j \in Int /\ j + 1 \in Int /\ j < j + 1 BY <2>1
    <3> QED BY <2>1, <3>1, SubSeqEmpty
  <2>3. CASE ~Decodes(buf, p, s)
    <3>1. F[<<p, s>>] = << >> BY <2>0, <2>3, ScanTurn
    <3> HIDE DEF F
    <3> QED BY <2>2, <3>1 DEF Continues
  <2>4. CASE Decodes(buf, p, s)
    <3> DEFINE h == buf[p + 1]
               q == p + h.size
    <3>1. F[<<p, s>>] = <<RecOf(h)>> \o F[<<q, h.seq>>] BY <2>0, <2>4, ScanTurn
    <3>2. q \in 1 .. N /\ p < q /\ h.seq \in Nat /\ RecOf(h) \in Records BY <2>0, <2>4, TurnGoesOn
    <3>3. buf[q].at = buf[q].size /\ RecOf(buf[q]) = RecOf(h) BY <2>0, <2>4, DecodedEnds
    <3>4. RecOf(h) \in failed \/ (j < Len(acked[e]) /\ RecOf(h) = acked[e][j + 1])
      <4>0. PICK f \in 1 .. MaxEpoch : \E i \in 1 .. Len(acked[f]) :
              /\ RecOf(buf[p]) = acked[f][i]
              /\ RecOf(h) \in failed \/ (i < Len(acked[f]) /\ RecOf(h) = acked[f][i + 1])
        BY <2>4, DecodedSucceeds DEF Succeeds
      <4>1. PICK i \in 1 .. Len(acked[f]) :
              /\ RecOf(buf[p]) = acked[f][i]
              /\ RecOf(h) \in failed \/ (i < Len(acked[f]) /\ RecOf(h) = acked[f][i + 1])
        BY <4>0
      <4>2. e = f /\ j = i
        <5>1. acked[e][j] = acked[f][i] BY <4>1
        <5> QED BY ONLY Types, Ledger, e \in 1 .. MaxEpoch, f \in 1 .. MaxEpoch, j \in 1 .. Len(acked[e]),
                        i \in 1 .. Len(acked[f]), <5>1, OnePlace
      <4> QED BY <4>1, <4>2
    <3> HIDE DEF h, q, F
    <3>5. CASE RecOf(h) \in failed
      <4>1. F[<<q, h.seq>>] = << >> BY <3>2, <3>3, <3>5, ScanEnds DEF F
      <4>2. <<RecOf(h)>> \in Seq(Records) /\ << >> \in Seq(Records) BY <3>2
      <4>3. F[<<p, s>>] = SubSeq(acked[e], j + 1, j) \o <<RecOf(h)>>
        BY <2>2, <3>1, <4>1, <4>2, ConcatEmptySeq
      <4> QED BY <2>2, <3>5, <4>3 DEF Continues
    <3>6. CASE j < Len(acked[e]) /\ RecOf(h) = acked[e][j + 1]
      <4>1. j + 1 \in 1 .. Len(acked[e]) /\ (j + 1) - 1 = j BY <2>1, <3>6
      <4>2. Good(q) BY <1>2, <3>2
      <4>3. Continues(F[<<q, h.seq>>], e, j + 1) BY <3>2, <3>3, <3>6, <4>1, <4>2
      <4>4. Continues(<<acked[e][j + 1]>> \o F[<<q, h.seq>>], e, (j + 1) - 1)
        BY <4>1, <4>3, ContinuesBefore
      <4> QED BY <3>1, <3>6, <4>1, <4>4
    <3> QED BY <3>4, <3>5, <3>6
  <2> QED BY <2>3, <2>4
<1> HIDE DEF Good
<1>3. \A p \in 1 .. N : Good(p)
  <2> DEFINE T == {m \in Nat : \E p \in 1 .. N : p + m = N /\ ~Good(p)}
  <2>1. SUFFICES ASSUME NEW p \in 1 .. N, ~Good(p) PROVE FALSE OBVIOUS
  <2>2. N - p \in T BY <1>1, <2>1
  <2>3. PICK m \in T : \A y \in T : m <= y BY <2>2, Least
  <2>4. PICK b \in 1 .. N : b + m = N /\ ~Good(b) BY <2>3
  <2>5. ASSUME NEW q \in 1 .. N, b < q PROVE Good(q)
    <3>1. N - q \in Nat /\ q + (N - q) = N /\ ~(m <= N - q) BY <1>1, <2>3, <2>4, <2>5
    <3>2. N - q \notin T BY <2>3, <3>1
    <3> QED BY <3>1, <3>2
  <2> QED BY <1>2, <2>4, <2>5
<1> QED BY <1>3 DEF Good

\* Replay returns what one writer acknowledged, from the start, and perhaps one
\* record whose append failed.
LEMMA ReplayContinues ==
  ASSUME Types, Ledger, open, NEW buf \in Seq(Cells), InOrder(buf)
  PROVE  \E e \in 1 .. epoch : Continues(Replay(buf), e, 0)
<1> DEFINE F == ReplayFrom(buf)
<1>1. Len(buf) \in Nat /\ 0 \in 0 .. Len(buf) /\ 0 \in Nat BY LenProperties
<1>2. epoch \in 1 .. MaxEpoch /\ epoch \in 1 .. epoch BY BoundsAssumption DEF Types, TypeOK
<1>3. Replay(buf) = F[<<0, 0>>] BY DEF Replay
<1>4. SubSeq(acked[epoch], 1, 0) = << >> /\ 0 \in 0 .. Len(acked[epoch]) /\ 0 + 1 = 1
  BY <1>2, AckedTypes, SubSeqEmpty
<1>5. CASE ~Decodes(buf, 0, 0)
  <2>1. F[<<0, 0>>] = << >> BY <1>1, <1>5, ScanTurn
  <2> HIDE DEF F
  <2>2. Continues(Replay(buf), epoch, 0) BY <1>3, <1>4, <2>1 DEF Continues
  <2> QED BY <1>2, <2>2
<1>6. CASE Decodes(buf, 0, 0)
  <2> DEFINE h == buf[0 + 1]
             q == 0 + h.size
  <2>1. F[<<0, 0>>] = <<RecOf(h)>> \o F[<<q, h.seq>>] BY <1>1, <1>6, ScanTurn
  <2>2. q \in 1 .. Len(buf) /\ h.seq \in Nat /\ RecOf(h) \in Records /\ h.at = 1 BY <1>1, <1>6, TurnGoesOn
  <2>3. buf[q].at = buf[q].size /\ RecOf(buf[q]) = RecOf(h) BY <1>1, <1>6, DecodedEnds
  <2>4. First(h)
    <3>1. 0 < Len(buf) BY <1>6 DEF Decodes
    <3>2. 1 \in 1 .. Len(buf) /\ 0 + 1 = 1 BY <1>1, <3>1
    <3> QED BY <2>2, <3>2 DEF InOrder
  <2> HIDE DEF h, q, F
  <2>5. CASE RecOf(h) \in failed
    <3>1. F[<<q, h.seq>>] = << >> BY <2>2, <2>3, <2>5, ScanEnds DEF F
    <3>2. <<RecOf(h)>> \in Seq(Records) /\ << >> \in Seq(Records) BY <2>2
    <3>3. Replay(buf) = SubSeq(acked[epoch], 1, 0) \o <<RecOf(h)>>
      BY <1>3, <1>4, <2>1, <3>1, <3>2, ConcatEmptySeq
    <3>4. Continues(Replay(buf), epoch, 0) BY <1>4, <2>5, <3>3 DEF Continues
    <3> QED BY <1>2, <3>4
  <2>6. CASE \E e \in 1 .. MaxEpoch : Len(acked[e]) >= 1 /\ RecOf(h) = acked[e][1]
    <3>1. PICK e \in 1 .. MaxEpoch : Len(acked[e]) >= 1 /\ RecOf(h) = acked[e][1] BY <2>6
    <3>2. 1 \in 1 .. Len(acked[e]) /\ 1 - 1 = 0 BY <3>1, AckedTypes
    <3>3. Continues(F[<<q, h.seq>>], e, 1) BY <2>2, <2>3, <3>1, <3>2, ScanContinues DEF F
    <3>4. Continues(<<acked[e][1]>> \o F[<<q, h.seq>>], e, 1 - 1) BY <3>2, <3>3, ContinuesBefore
    <3>5. Continues(Replay(buf), e, 0) BY <1>3, <2>1, <3>1, <3>2, <3>4
    <3>6. e \in 1 .. epoch
      <4>1. ~(e > epoch)
        <5>1. SUFFICES ASSUME e > epoch PROVE FALSE OBVIOUS
        <5>2. acked[e] = << >> BY <5>1 DEF Types
        <5> QED BY <3>1, <5>2
      <4> QED BY <1>2, <4>1
    <3> QED BY <3>5, <3>6
  <2> QED BY <2>4, <2>5, <2>6 DEF First
<1> QED BY <1>5, <1>6


\* The scan returns records.
LEMMA ScanTypes ==
  ASSUME NEW buf \in Seq(Cells)
  PROVE  \A p \in 0 .. Len(buf), s \in Nat : ReplayFrom(buf)[<<p, s>>] \in Seq(Records)
<1> DEFINE N == Len(buf)
           F == ReplayFrom(buf)
           Good(p) == \A s \in Nat : F[<<p, s>>] \in Seq(Records)
<1>1. N \in Nat BY LenProperties
<1>2. ASSUME NEW p \in 0 .. N, \A q \in 0 .. N : p < q => Good(q) PROVE Good(p)
  <2> SUFFICES ASSUME NEW s \in Nat PROVE F[<<p, s>>] \in Seq(Records)
    OBVIOUS
  <2>1. CASE ~Decodes(buf, p, s)
    <3>1. F[<<p, s>>] = << >> BY <2>1, ScanTurn
    <3> HIDE DEF F
    <3> QED BY <3>1
  <2>2. CASE Decodes(buf, p, s)
    <3> DEFINE h == buf[p + 1]
               q == p + h.size
    <3>1. F[<<p, s>>] = <<RecOf(h)>> \o F[<<q, h.seq>>] BY <2>2, ScanTurn
    <3>2. q \in 1 .. N /\ p < q /\ h.seq \in Nat /\ RecOf(h) \in Records BY <2>2, TurnGoesOn
    <3> HIDE DEF h, q, F
    <3>3. q \in 0 .. N BY <1>1, <3>2
    <3>4. F[<<q, h.seq>>] \in Seq(Records) BY <1>2, <3>2, <3>3
    <3>5. <<RecOf(h)>> \in Seq(Records) BY <3>2
    <3> QED BY <3>1, <3>4, <3>5, ConcatProperties
  <2> QED BY <2>1, <2>2
<1> HIDE DEF Good
<1>3. \A p \in 0 .. N : Good(p)
  <2> DEFINE T == {m \in Nat : \E p \in 0 .. N : p + m = N /\ ~Good(p)}
  <2>1. SUFFICES ASSUME NEW p \in 0 .. N, ~Good(p) PROVE FALSE OBVIOUS
  <2>2. N - p \in T BY <1>1, <2>1
  <2>3. PICK m \in T : \A y \in T : m <= y BY <2>2, Least
  <2>4. PICK b \in 0 .. N : b + m = N /\ ~Good(b) BY <2>3
  <2>5. ASSUME NEW q \in 0 .. N, b < q PROVE Good(q)
    <3>1. N - q \in Nat /\ q + (N - q) = N /\ ~(m <= N - q) BY <1>1, <2>3, <2>4, <2>5
    <3>2. N - q \notin T BY <2>3, <3>1
    <3> QED BY <3>1, <3>2
  <2> QED BY <1>2, <2>4, <2>5
<1> QED BY <1>3 DEF Good

\* When m records of the log decode one behind the other, replay returns them
\* and what it finds behind the last one.
LEMMA ReplayReaches ==
  ASSUME Types, open, NEW img, Contents(img) \in Seq(Cells), NEW m \in 1 .. Len(Log), ReplayFinds(img, m)
  PROVE  LET buf == Contents(img)
         IN  \E p \in 1 .. Len(buf), s \in Nat :
               /\ buf[p].at = buf[p].size /\ RecOf(buf[p]) = Log[m]
               /\ Replay(buf) = SubSeq(Log, 1, m) \o ReplayFrom(buf)[<<p, s>>]
<1> DEFINE buf == Contents(img)
           F == ReplayFrom(buf)
           prev(i) == IF i = 0 THEN 0 ELSE Log[i].seq
<1>1. /\ Log \in Seq(Records) /\ Len(Log) \in Nat /\ m \in Nat
      /\ \A i \in 1 .. m : i \in 1 .. Len(Log) /\ Log[i] \in Records /\ Log[i].seq \in Nat
  BY LogTypes
<1>2. PICK pos \in [0 .. m -> Nat] :
        /\ pos[0] = 0
        /\ \A i \in 1 .. m :
             LET g == buf[pos[i - 1] + 1]
             IN  /\ Decodes(buf, pos[i - 1], IF i = 1 THEN 0 ELSE Log[i - 1].seq)
                 /\ Rec(g.epoch, g.seq, g.size) = Log[i]
                 /\ pos[i] = pos[i - 1] + g.size
  BY DEF ReplayFinds
<1> HIDE DEF buf
<1>3. ASSUME NEW i \in 1 .. m
      PROVE  LET g == buf[pos[i - 1] + 1]
             IN  /\ pos[i - 1] \in 0 .. Len(buf) /\ prev(i - 1) \in Nat /\ Decodes(buf, pos[i - 1], prev(i - 1))
                 /\ RecOf(g) = Log[i] /\ pos[i] = pos[i - 1] + g.size /\ g.seq = prev(i)
                 /\ pos[i] \in 1 .. Len(buf)
                 /\ buf[pos[i]].at = buf[pos[i]].size /\ RecOf(buf[pos[i]]) = Log[i]
  <2> DEFINE g == buf[pos[i - 1] + 1]
             q == pos[i - 1]
  <2>1. i - 1 \in 0 .. m /\ i # 0 /\ (i = 1 <=> i - 1 = 0) BY <1>1
  <2>2. Decodes(buf, q, prev(i - 1)) /\ RecOf(g) = Log[i] /\ pos[i] = q + g.size
    BY <1>2, <2>1 DEF RecOf
  <2>3. q \in Nat BY <1>2, <2>1
  <2>4. Len(buf) \in Nat /\ q < Len(buf) BY <2>2, LenProperties DEF Decodes, buf
  <2>5. q \in 0 .. Len(buf) BY <2>3, <2>4
  <2>6. prev(i - 1) \in Nat
    <3>1. i - 1 # 0 => i - 1 \in 1 .. m BY <1>1, <2>1
    <3> QED BY <1>1, <3>1
  <2>7. g.seq = prev(i)
    <3>1. RecOf(g).seq = g.seq BY DEF RecOf, Rec
    <3> QED BY <2>1, <2>2, <3>1
  <2> HIDE DEF prev, g, q
  <2>8. q + g.size \in 1 .. Len(buf) /\ buf[q + g.size].at = buf[q + g.size].size
        /\ RecOf(buf[q + g.size]) = RecOf(g)
    BY <2>2, <2>5, <2>6, TurnGoesOn, DecodedEnds DEF g, q, buf
  <2> QED BY <2>2, <2>5, <2>6, <2>7, <2>8 DEF g, q
<1>4. \A i \in 0 .. m : F[<<pos[i], prev(i)>>] \in Seq(Records)
  <2>1. ASSUME NEW i \in 0 .. m PROVE pos[i] \in 0 .. Len(buf) /\ prev(i) \in Nat
    <3>1. CASE i = 0 BY <1>2, <3>1, LenProperties DEF buf
    <3>2. CASE i \in 1 .. m
      <4>1. pos[i] \in 1 .. Len(buf) BY <1>3, <3>2
      <4>2. i # 0 /\ Log[i].seq \in Nat BY <1>1, <3>2
      <4> QED BY <4>1, <4>2, LenProperties DEF buf
    <3> QED BY <1>1, <3>1, <3>2
  <2> HIDE DEF prev
  <2> QED BY <2>1, ScanTypes DEF buf
<1> DEFINE Good(i) == Replay(buf) = SubSeq(Log, 1, i) \o F[<<pos[i], prev(i)>>]
<1>5. Good(0)
  <2>1. SubSeq(Log, 1, 0) = << >> BY <1>1, SubSeqEmpty
  <2>2. Replay(buf) = F[<<pos[0], prev(0)>>] BY <1>2 DEF Replay
  <2>3. F[<<pos[0], prev(0)>>] \in Seq(Records) BY <1>1, <1>4
  <2> HIDE DEF F, prev
  <2> QED BY <2>1, <2>2, <2>3, ConcatEmptySeq
<1>6. ASSUME NEW i \in 1 .. m, Good(i - 1) PROVE Good(i)
  <2> DEFINE g == buf[pos[i - 1] + 1]
             rest == F[<<pos[i], prev(i)>>]
  <2>1. F[<<pos[i - 1], prev(i - 1)>>] = <<Log[i]>> \o rest
    <3>1. /\ pos[i - 1] \in 0 .. Len(buf) /\ prev(i - 1) \in Nat /\ Decodes(buf, pos[i - 1], prev(i - 1))
          /\ RecOf(g) = Log[i] /\ pos[i] = pos[i - 1] + g.size /\ g.seq = prev(i)
      BY <1>3
    <3> HIDE DEF prev, g
    <3>2. F[<<pos[i - 1], prev(i - 1)>>] = <<RecOf(g)>> \o F[<<pos[i - 1] + g.size, g.seq>>]
      BY <3>1, ScanTurn DEF g, buf
    <3> QED BY <3>1, <3>2
  <2>2. i \in 1 .. Len(Log) /\ i \in 0 .. m /\ 1 \in 1 .. Len(Log) /\ i \in 1 .. Len(Log)
    BY <1>1
  <2>3. SubSeq(Log, 1, i) = SubSeq(Log, 1, i - 1) \o <<Log[i]>>
    BY <1>1, <2>2, SubSeqRecursiveSecond
  <2>4. rest \in Seq(Records) BY <1>4, <2>2
  <2>5. Log[i] \in Records /\ <<Log[i]>> \in Seq(Records) BY <1>1
  <2>6. SubSeq(Log, 1, i - 1) \in Seq(Records)
    <3>1. \A j \in 1 .. i - 1 : j \in 1 .. Len(Log) BY <1>1
    <3>2. \A j \in 1 .. i - 1 : Log[j] \in Records BY <1>1, <3>1, ElementOfSeq
    <3>3. 1 \in Int /\ i - 1 \in Int BY <1>1
    <3> QED BY <3>2, <3>3, SubSeqProperties
  <2> HIDE DEF F, prev, rest
  <2>7. (SubSeq(Log, 1, i - 1) \o <<Log[i]>>) \o rest = SubSeq(Log, 1, i - 1) \o (<<Log[i]>> \o rest)
    <3> DEFINE a == SubSeq(Log, 1, i - 1)
               b == <<Log[i]>>
    <3>1. a \in Seq(Records) /\ b \in Seq(Records) BY <2>5, <2>6
    <3>2. rest \in Seq(Records) BY <2>4
    <3> HIDE DEF a, b
    <3>3. \A x, y, z \in Seq(Records) : (x \o y) \o z = x \o (y \o z) BY ConcatAssociative
    <3>4. (a \o b) \o rest = a \o (b \o rest) BY ONLY <3>1, <3>2, <3>3, Zenon
    <3> QED BY <3>4 DEF a, b
  <2> QED BY <1>6, <2>1, <2>3, <2>7 DEF rest
<1> HIDE DEF Good, F, prev
<1>7. Good(m)
  <2> DEFINE T == {i \in Nat : i <= m /\ ~Good(i)}
  <2>1. SUFFICES ASSUME ~Good(m) PROVE FALSE OBVIOUS
  <2>2. m \in T BY <1>1, <2>1
  <2>3. PICK i \in T : \A y \in T : i <= y BY <2>2, Least
  <2>4. i \in 1 .. m BY <1>1, <1>5, <2>3
  <2>5. i - 1 \in Nat /\ i - 1 <= m /\ ~(i <= i - 1) BY <1>1, <2>4
  <2>6. Good(i - 1) BY <2>3, <2>5
  <2> QED BY <1>6, <2>3, <2>4, <2>6
<1>8. m \in 1 .. m BY <1>1
<1>9. pos[m] \in 1 .. Len(buf) /\ buf[pos[m]].at = buf[pos[m]].size /\ RecOf(buf[pos[m]]) = Log[m]
  BY <1>3, <1>8
<1>10. prev(m) \in Nat
  <2>1. m # 0 /\ Log[m].seq \in Nat BY <1>1, <1>8
  <2> QED BY <2>1 DEF prev
<1>11. Replay(buf) = SubSeq(Log, 1, m) \o F[<<pos[m], prev(m)>>] BY <1>7 DEF Good
<1> QED BY <1>9, <1>10, <1>11 DEF F, buf


\* What replay may return.
LEMMA PrefixExplained ==
  ASSUME Types, NEW e \in 1 .. MaxEpoch, NEW k \in Nat, NEW l \in 0 .. Len(acked[e]), k <= l, NEW rs,
         rs = SubSeq(acked[e], 1, l) \/ \E x \in failed : rs = SubSeq(acked[e], 1, l) \o <<x>>
  PROVE  Explained(rs, e, k)
<1> DEFINE s == SubSeq(acked[e], 1, l)
<1>1. acked[e] \in Seq(Records) /\ Len(acked[e]) \in Nat /\ l \in Nat BY AckedTypes
<1>2. s \in Seq(Records) /\ Len(s) = l
  <2>1. \A i \in 1 .. l : i \in 1 .. Len(acked[e]) BY <1>1
  <2>2. \A i \in 1 .. l : acked[e][i] \in Records BY <1>1, <2>1, ElementOfSeq
  <2>3. 1 \in Int /\ l \in Int /\ (IF 1 <= l THEN l - 1 + 1 ELSE 0) = l BY <1>1
  <2> QED BY <2>2, <2>3, SubSeqProperties
<1> HIDE DEF s
<1>3. CASE rs = s
  <2>1. Len(rs) >= k /\ Len(rs) <= Len(acked[e]) BY <1>1, <1>2, <1>3
  <2>2. rs = SubSeq(acked[e], 1, Len(rs)) BY <1>2, <1>3 DEF s
  <2> QED BY <2>1, <2>2 DEF Explained, IsPrefixOf
<1>4. CASE \E x \in failed : rs = s \o <<x>>
  <2>1. PICK x \in failed : rs = s \o <<x>> BY <1>4
  <2>2. x \in Records BY DEF Types, TypeOK
  <2>3. rs = Append(s, x) BY <1>2, <2>1, <2>2, AppendIsConcat
  <2>4. rs \in Seq(Records) /\ Len(rs) = l + 1 /\ rs[l + 1] = x /\ \A i \in 1 .. l : rs[i] = s[i]
    BY <1>2, <2>2, <2>3, AppendProperties
  <2>5. (l + 1) - 1 = l /\ l + 1 > k BY <1>1
  <2>6. SubSeq(rs, 1, l) = s
    <3>1. \A i \in 1 .. l : rs[i] \in Records BY <1>2, <2>4, ElementOfSeq
    <3>2. 1 \in Int /\ l \in Int /\ (IF 1 <= l THEN l - 1 + 1 ELSE 0) = l /\ l - 1 + 1 = l BY <1>1
    <3>3. /\ SubSeq(rs, 1, l) \in Seq(Records) /\ Len(SubSeq(rs, 1, l)) = l
          /\ \A i \in 1 .. l : SubSeq(rs, 1, l)[i] = rs[1 + i - 1]
      BY <3>1, <3>2, SubSeqProperties
    <3>4. \A i \in 1 .. l : 1 + i - 1 = i BY <1>1
    <3>5. \A i \in 1 .. l : SubSeq(rs, 1, l)[i] = s[i] BY <2>4, <3>3, <3>4
    <3> QED BY <1>2, <3>3, <3>5, SeqEqual
  <2>7. s = SubSeq(acked[e], 1, Len(s)) BY <1>2 DEF s
  <2>8. Len(s) <= Len(acked[e]) BY <1>1, <1>2
  <2>9. IsPrefixOf(SubSeq(rs, 1, Len(rs) - 1), acked[e]) BY <2>4, <2>5, <2>6, <2>7, <2>8 DEF IsPrefixOf
  <2> QED BY <2>1, <2>4, <2>5, <2>9 DEF Explained
<1> QED BY <1>3, <1>4 DEF s

\* Replay explains itself by the log, as far as the log is there.
LEMMA FoundExplained ==
  ASSUME Types, Ledger, open, NEW img, Contents(img) \in Seq(Cells), InOrder(Contents(img)),
         NEW m \in 1 .. Len(Log), ReplayFinds(img, m)
  PROVE  Explained(Replay(Contents(img)), epoch, m)
<1> DEFINE buf == Contents(img)
<1>1. Log \in Seq(Records) /\ Len(Log) \in Nat /\ epoch \in 1 .. MaxEpoch /\ m \in Nat BY LogTypes
<1>2. PICK p \in 1 .. Len(buf), s \in Nat :
        /\ buf[p].at = buf[p].size /\ RecOf(buf[p]) = Log[m]
        /\ Replay(buf) = SubSeq(Log, 1, m) \o ReplayFrom(buf)[<<p, s>>]
  BY ReplayReaches
<1> DEFINE c == ReplayFrom(buf)[<<p, s>>]
<1>3. Continues(c, epoch, m) BY <1>1, <1>2, ScanContinues DEF Log
<1> HIDE DEF buf, c
<1>4. PICK l \in m .. Len(Log) :
        c = SubSeq(Log, m + 1, l) \/ \E x \in failed : c = SubSeq(Log, m + 1, l) \o <<x>>
  BY <1>3 DEF Continues, Log
<1>5. l \in Nat /\ m <= l /\ l \in 0 .. Len(Log) BY <1>1, <1>4
<1>6. SubSeq(Log, 1, m) \o SubSeq(Log, m + 1, l) = SubSeq(Log, 1, l)
  <2>1. 1 \in 1 .. Len(Log) + 1 /\ m \in (1 - 1) .. Len(Log) /\ l \in m .. Len(Log) BY <1>1, <1>4
  <2> QED BY <1>1, <2>1, ConcatAdjacentSubSeq
<1>7. Replay(buf) = SubSeq(Log, 1, m) \o c BY <1>2 DEF c
<1>8. Replay(buf) = SubSeq(Log, 1, l) \/ \E x \in failed : Replay(buf) = SubSeq(Log, 1, l) \o <<x>>
  <2>1. CASE c = SubSeq(Log, m + 1, l) BY <1>6, <1>7, <2>1
  <2>2. CASE \E x \in failed : c = SubSeq(Log, m + 1, l) \o <<x>>
    <3>1. PICK x \in failed : c = SubSeq(Log, m + 1, l) \o <<x>> BY <2>2
    <3>2. x \in Records BY DEF Types, TypeOK
    <3>3. \A i \in 1 .. Len(Log) : Log[i] \in Records BY <1>1, ElementOfSeq
    <3> DEFINE a == SubSeq(Log, 1, m)
               b == SubSeq(Log, m + 1, l)
               d == <<x>>
    <3>4. a \in Seq(Records)
      <4>1. \A i \in 1 .. m : i \in 1 .. Len(Log) BY <1>1
      <4>2. \A i \in 1 .. m : Log[i] \in Records BY <3>3, <4>1
      <4>3. 1 \in Int /\ m \in Int BY <1>1
      <4> QED BY <4>2, <4>3, SubSeqProperties
    <3>5. b \in Seq(Records)
      <4>1. \A i \in m + 1 .. l : i \in 1 .. Len(Log) BY <1>1, <1>5
      <4>2. \A i \in m + 1 .. l : Log[i] \in Records BY <3>3, <4>1
      <4>3. m + 1 \in Int /\ l \in Int BY <1>1, <1>5
      <4> QED BY <4>2, <4>3, SubSeqProperties
    <3>6. d \in Seq(Records) BY <3>2
    <3>7. Replay(buf) = a \o (b \o d) /\ a \o b = SubSeq(Log, 1, l) BY <1>6, <1>7, <3>1
    <3> HIDE DEF a, b, d
    <3>8. (a \o b) \o d = a \o (b \o d) BY <3>4, <3>5, <3>6, ConcatAssociative
    <3>9. Replay(buf) = SubSeq(Log, 1, l) \o d BY <3>7, <3>8
    <3> QED BY <3>9 DEF d
  <2> QED BY <1>4, <2>1, <2>2
<1> QED BY <1>1, <1>5, <1>8, PrefixExplained DEF Log, buf


\* Where a cell of the file is.
LEMMA CellPlace ==
  ASSUME NEW p \in Nat, p < MaxSectors * SECTOR_SIZE
  PROVE  /\ p \div SECTOR_SIZE \in Sectors /\ p % SECTOR_SIZE \in Places
         /\ p = (p \div SECTOR_SIZE) * SECTOR_SIZE + (p % SECTOR_SIZE)
<1> DEFINE k == p \div SECTOR_SIZE
           w == (p % SECTOR_SIZE)
<1>0. SECTOR_SIZE \in Nat \ {0} /\ MaxSectors \in Nat BY SectorAssumption, BoundsAssumption
<1>1. p \in Int BY <1>0
<1>2. k \in Int /\ w \in Places /\ p = k * SECTOR_SIZE + w BY <1>1, Place
<1>3. w \in 0 .. SECTOR_SIZE - 1 BY <1>2 DEF Places
<1> HIDE DEF k, w
<1>4. k * SECTOR_SIZE \in Int /\ MaxSectors * SECTOR_SIZE \in Int BY <1>0, <1>2, SectorOrder
<1>5. ~(MaxSectors <= k)
  <2>1. MaxSectors < k => MaxSectors * SECTOR_SIZE + SECTOR_SIZE <= k * SECTOR_SIZE
    BY <1>0, <1>2, SectorOrder
  <2> QED BY <1>0, <1>2, <1>3, <1>4, <2>1
<1>6. ~(k < 0)
  <2>1. k < 0 => k * SECTOR_SIZE + SECTOR_SIZE <= 0 * SECTOR_SIZE BY <1>2, SectorOrder
  <2>2. 0 * SECTOR_SIZE = 0 BY <1>0
  <2>3. k * SECTOR_SIZE + SECTOR_SIZE > 0 BY <1>0, <1>2, <1>3, <1>4
  <2> QED BY <1>0, <1>4, <2>1, <2>2, <2>3
<1>7. k \in Sectors BY <1>0, <1>2, <1>5, <1>6 DEF Sectors
<1> QED BY <1>2, <1>7 DEF k, w

\* Sectors in which records start where others end make such a file.
LEMMA ContentsInOrder ==
  ASSUME NEW img, \A k \in Sectors : img[k] \in [Places -> Cells] /\ Orderly(k, img[k])
  PROVE  Contents(img) \in Seq(Cells) /\ InOrder(Contents(img))
<1> DEFINE buf == Contents(img)
           N == MaxSectors * SECTOR_SIZE
<1>1. N \in Nat /\ SECTOR_SIZE \in Nat \ {0} /\ MaxSectors \in Nat BY SectorAssumption, BoundsAssumption
<1>2. buf = [j \in 1 .. N |-> img[(j - 1) \div SECTOR_SIZE][(j - 1) % SECTOR_SIZE]] BY DEF Contents
<1>3. ASSUME NEW j \in 1 .. N
      PROVE  /\ j - 1 \in Nat /\ (j - 1) \div SECTOR_SIZE \in Sectors /\ (j - 1) % SECTOR_SIZE \in Places
             /\ j - 1 = ((j - 1) \div SECTOR_SIZE) * SECTOR_SIZE + ((j - 1) % SECTOR_SIZE)
             /\ buf[j] = img[(j - 1) \div SECTOR_SIZE][(j - 1) % SECTOR_SIZE]
  <2>1. j - 1 \in Nat /\ j - 1 < N BY <1>1
  <2> HIDE DEF buf
  <2> QED BY <1>2, <2>1, CellPlace
<1> HIDE DEF buf, N
<1>4. \A j \in 1 .. N : buf[j] \in Cells BY <1>3
<1>5. buf \in Seq(Cells) /\ Len(buf) = N
  <2>1. buf \in [1 .. N -> Cells] BY <1>2, <1>4
  <2> QED BY <1>1, <2>1, SeqDef
<1>6. ASSUME 1 \in 1 .. N, buf[1].at = 1 PROVE First(buf[1])
  <2>1. 1 - 1 = 0 /\ 0 \in Int /\ 0 = 0 * SECTOR_SIZE + 0 /\ 0 \in Places BY <1>1 DEF Places
  <2>2. 0 \div SECTOR_SIZE = 0 /\ 0 % SECTOR_SIZE = 0 BY <2>1, Place
  <2>3. buf[1] = img[0][0] /\ 0 \in Sectors BY <1>3, <1>6, <2>1, <2>2
  <2> QED BY <1>6, <2>3 DEF Orderly
<1>7. ASSUME NEW p \in 1 .. N - 1, buf[p].at = buf[p].size, buf[p + 1].at = 1
      PROVE  Succeeds(buf[p], buf[p + 1])
  <2> DEFINE k == p \div SECTOR_SIZE
             w == (p % SECTOR_SIZE)
  <2>1. p \in 1 .. N /\ p + 1 \in 1 .. N /\ (p + 1) - 1 = p /\ p \in Nat /\ p >= 1 /\ p - 1 \in Int BY <1>1
  <2>2. k \in Sectors /\ w \in Places /\ p = k * SECTOR_SIZE + w /\ buf[p + 1] = img[k][w]
    BY <1>3, <2>1
  <2>3. k \in Int /\ w \in 0 .. SECTOR_SIZE - 1 BY <1>1, <2>2 DEF Sectors, Places
  <2> HIDE DEF k, w
  <2>4. w > 0
    <3>1. SUFFICES ASSUME w = 0 PROVE FALSE BY <1>1, <2>3
    <3>2. k = 0 BY <1>7, <2>2, <3>1 DEF Orderly
    <3>3. p = 0 BY <1>1, <2>2, <3>1, <3>2
    <3> QED BY <2>1, <3>3
  <2>5. w - 1 \in Places /\ p - 1 = k * SECTOR_SIZE + (w - 1)
    <3>1. k * SECTOR_SIZE \in Int BY <2>3, SectorOrder
    <3> QED BY <1>1, <2>2, <2>3, <2>4, <3>1 DEF Places
  <2>6. (p - 1) \div SECTOR_SIZE = k /\ (p - 1) % SECTOR_SIZE = w - 1 BY <2>1, <2>3, <2>5, Place
  <2>7. buf[p] = img[k][w - 1] BY <1>3, <2>1, <2>6
  <2> QED BY <1>7, <2>2, <2>4, <2>7 DEF Orderly
<1>8. InOrder(buf) BY <1>5, <1>6, <1>7 DEF InOrder
<1> QED BY <1>5, <1>8 DEF buf


-----------------------------------------------------------------------------
(* Records start where others end *)

\* Every image a power failure may leave is orderly, and the tail is at a sector's
\* start only before the first record.
Sorted ==
  ~flush_end => /\ \A k \in Sectors : \A v \in vers[k] : Orderly(k, v)
                /\ open /\ Log # << >> => tail_offset > 0

\* Nothing that was acknowledged or failed is forgotten.
Grows ==
  /\ \A e \in 1 .. MaxEpoch :
       /\ Len(acked'[e]) \in Nat /\ Len(acked[e]) <= Len(acked'[e])
       /\ \A i \in 1 .. Len(acked[e]) : acked'[e][i] = acked[e][i]
  /\ failed \subseteq failed'

\* An order of records stays one.
LEMMA StaysOrdered ==
  ASSUME Types, Grows
  PROVE  /\ \A c : First(c) => First(c)'
         /\ \A b, c : Succeeds(b, c) => Succeeds(b, c)'
<1>1. ASSUME NEW c, First(c) PROVE First(c)'
  <2>1. CASE RecOf(c) \in failed BY <2>1 DEF First, Grows
  <2>2. CASE \E e \in 1 .. MaxEpoch : Len(acked[e]) >= 1 /\ RecOf(c) = acked[e][1]
    <3>1. PICK e \in 1 .. MaxEpoch : Len(acked[e]) >= 1 /\ RecOf(c) = acked[e][1] BY <2>2
    <3>2. Len(acked[e]) \in Nat /\ 1 \in 1 .. Len(acked[e]) BY <3>1, AckedTypes
    <3>3. acked'[e][1] = acked[e][1] /\ Len(acked'[e]) >= 1 BY <3>1, <3>2 DEF Grows
    <3> QED BY <3>1, <3>3 DEF First
  <2> QED BY <1>1, <2>1, <2>2 DEF First
<1>2. ASSUME NEW b, NEW c, Succeeds(b, c) PROVE Succeeds(b, c)'
  <2>1. PICK e \in 1 .. MaxEpoch : \E j \in 1 .. Len(acked[e]) :
          /\ RecOf(b) = acked[e][j]
          /\ RecOf(c) \in failed \/ (j < Len(acked[e]) /\ RecOf(c) = acked[e][j + 1])
    BY <1>2 DEF Succeeds
  <2>2. PICK j \in 1 .. Len(acked[e]) :
          /\ RecOf(b) = acked[e][j]
          /\ RecOf(c) \in failed \/ (j < Len(acked[e]) /\ RecOf(c) = acked[e][j + 1])
    BY <2>1
  <2>3. Len(acked[e]) \in Nat BY AckedTypes
  <2>4. j \in 1 .. Len(acked'[e]) /\ RecOf(b) = acked'[e][j] BY <2>2, <2>3 DEF Grows
  <2>5. CASE RecOf(c) \in failed
    <3>1. RecOf(c) \in failed' BY <2>5 DEF Grows
    <3> QED BY <2>4, <3>1 DEF Succeeds
  <2>6. CASE j < Len(acked[e]) /\ RecOf(c) = acked[e][j + 1]
    <3>1. j + 1 \in 1 .. Len(acked[e]) BY <2>3, <2>6
    <3>2. RecOf(c) = acked'[e][j + 1] /\ j < Len(acked'[e]) BY <2>3, <2>6, <3>1 DEF Grows
    <3> QED BY <2>4, <3>2 DEF Succeeds
  <2> QED BY <2>2, <2>5, <2>6
<1> QED BY <1>1, <1>2

\* An orderly image stays one.
LEMMA StaysOrderly ==
  ASSUME Types, Grows, NEW k, NEW v, Orderly(k, v)
  PROVE  Orderly(k, v)'
BY StaysOrdered DEF Orderly

\* Before the tail is the last cell of the log.
LEMMA LastCell ==
  ASSUME Types, Mirror, LogIntact, open, ~flush_end, tail_offset > 0
  PROVE  LET k == sector_offset \div SECTOR_SIZE
         IN  /\ k \in Sectors /\ Len(Log) \in 1 .. Len(Log)
             /\ staging[tail_offset - 1] = Cell(Log[Len(Log)], Log[Len(Log)].size)
<1> DEFINE k == sector_offset \div SECTOR_SIZE
           L == Len(Log)
<1>1. PICK pos : Layout(pos) /\ InPlace(pos) BY DEF LogIntact
<1>2. PICK a \in 0 .. MaxSectors : sector_offset = a * SECTOR_SIZE BY DEF Types, TypeOK
<1>3. a \in Int /\ a * SECTOR_SIZE \in Int BY <1>2, SectorOrder, BoundsAssumption
<1>4. k = a
  <2>1. a * SECTOR_SIZE = a * SECTOR_SIZE + 0 /\ 0 \in Places BY <1>3, SectorAssumption DEF Places
  <2> QED BY <1>2, <1>3, <2>1, Place
<1>5. k \in Sectors BY DEF Mirror
<1>6. tail_offset \in 0 .. SECTOR_SIZE - 1 /\ tail_offset \in Places /\ SECTOR_SIZE \in Nat \ {0}
  BY SectorAssumption DEF Types, TypeOK, Places
<1>7. /\ L \in Nat /\ LogEnd \in Nat
      /\ \A i \in 1 .. L : Log[i] \in Records /\ Log[i].size \in Nat \ {0}
  BY LogTypes
<1>8. LogEnd = a * SECTOR_SIZE + tail_offset /\ LogEnd > 0
  <2>1. a * SECTOR_SIZE >= 0 BY <1>2, <1>6, BoundsAssumption
  <2>2. LogEnd = a * SECTOR_SIZE + tail_offset BY <1>2 DEF LogEnd
  <2> QED BY <1>3, <1>6, <2>1, <2>2
<1> HIDE DEF k, L
<1>9. L \in 1 .. L
  <2>1. pos[0] = 0 /\ pos[L] = LogEnd BY <1>1 DEF Layout, L
  <2>2. L # 0 BY <1>8, <2>1
  <2> QED BY <1>7, <2>2
<1> DEFINE n == Log[L].size
           p == pos[L - 1] + (n - 1)
<1>10. n \in Nat \ {0} /\ n \in 1 .. n BY <1>7, <1>9
<1>11. pos[L] = pos[L - 1] + n /\ pos[L] = LogEnd /\ pos[L - 1] \in Nat
  <2>1. L - 1 \in 0 .. L BY <1>7, <1>9
  <2>2. pos \in [0 .. L -> Nat] BY <1>1 DEF Layout, L
  <2>3. \A i \in 1 .. L : pos[i] = pos[i - 1] + Log[i].size BY <1>1 DEF Layout, L
  <2>4. pos[L] = LogEnd BY <1>1 DEF Layout, L
  <2> QED BY <1>9, <2>1, <2>2, <2>3, <2>4
<1> HIDE DEF n
<1>12. p = a * SECTOR_SIZE + (tail_offset - 1) /\ tail_offset - 1 \in Places /\ p \in Int
  BY <1>3, <1>6, <1>8, <1>10, <1>11 DEF Places
<1>13. p \div SECTOR_SIZE = a /\ p % SECTOR_SIZE = tail_offset - 1 BY <1>3, <1>12, Place
<1>14. Holds(Log, pos, L, k, disk[k]) BY <1>1, <1>5 DEF InPlace, L
<1>15. disk[k][p % SECTOR_SIZE] = Cell(Log[L], n)
  BY <1>4, <1>9, <1>10, <1>13, <1>14 DEF Holds, n
<1>16. disk[k][tail_offset - 1] = Cell(Log[L], n) BY <1>13, <1>15
<1>17. tail_offset - 1 \in 0 .. tail_offset - 1 BY <1>6
<1>18. staging[tail_offset - 1] = disk[k][tail_offset - 1] BY <1>17 DEF Mirror, k
<1> QED BY <1>5, <1>9, <1>16, <1>18 DEF k, L, n

\* The cells an append writes: what was before the tail, the record, and nothing.
LEMMA StagedCell ==
  ASSUME Types, NEW n \in Sizes, NEW r, r.size = n, Fits(n),
         NEW d \in 0 .. (RoundUp(tail_offset + n) \div SECTOR_SIZE) - 1, NEW i \in Places
  PROVE  LET x == d * SECTOR_SIZE + i
         IN  /\ x \in Nat /\ (x < SECTOR_SIZE => d = 0 /\ x = i)
             /\ SectorOf(Staged(r), d)[i] = IF x < tail_offset THEN staging[x]
                                            ELSE IF x < tail_offset + n THEN Cell(r, x - tail_offset + 1)
                                            ELSE Zero
<1> DEFINE x == d * SECTOR_SIZE + i
           S == SECTOR_SIZE
<1>1. PICK q \in Nat \ {0} :
        /\ RoundUp(tail_offset + n) = q * SECTOR_SIZE
        /\ RoundUp(tail_offset + n) \div SECTOR_SIZE = q
        /\ q * SECTOR_SIZE \in Nat /\ q * SECTOR_SIZE <= STAGING_SIZE
  BY AppendPlace
<1>2. d \in Nat /\ d <= q - 1 /\ i \in 0 .. S - 1 /\ S \in Nat \ {0} /\ STAGING_SIZE \in Nat
  BY <1>1, SectorAssumption, StagingAssumption DEF Places
<1>3. d * S \in Nat BY <1>2
<1>4. d * S + S <= q * S
  <2>1. d < q /\ d \in Int /\ q \in Int BY <1>1, <1>2
  <2> QED BY <2>1, SectorOrder
<1>5. x \in Nat /\ x < q * S /\ x \in 0 .. STAGING_SIZE - 1
  <2> HIDE DEF S
  <2>1. x = d * S + i BY DEF S
  <2>2. q * S \in Nat /\ q * S <= STAGING_SIZE BY <1>1 DEF S
  <2> HIDE DEF x
  <2> QED BY <1>2, <1>3, <1>4, <2>1, <2>2
<1>6. x < S => d = 0 /\ x = i
  <2>1. SUFFICES ASSUME x < S PROVE d = 0 /\ x = i OBVIOUS
  <2>2. 0 < d => 0 * S + S <= d * S BY <1>2, SectorOrder
  <2>3. 0 * S = 0 BY <1>2
  <2>4. d = 0
    <3> HIDE DEF S
    <3>1. x = d * S + i BY DEF S
    <3> HIDE DEF x
    <3> QED BY <1>2, <1>3, <2>1, <2>2, <2>3, <3>1
  <2> QED BY <1>2, <2>3, <2>4
<1>7. SectorOf(Staged(r), d)[i] = Staged(r)[x] BY DEF SectorOf
<1> HIDE DEF x
<1>8. Staged(r)[x] = IF x < tail_offset \/ x >= q * S THEN staging[x]
                     ELSE IF x < tail_offset + n THEN Cell(r, x - tail_offset + 1)
                     ELSE Zero
  BY <1>1, <1>5 DEF Staged
<1>9. ~(x >= q * S) BY <1>1, <1>5
<1> QED BY <1>5, <1>6, <1>7, <1>8, <1>9 DEF x


\* The images an append writes are orderly, whether or not it succeeds.
LEMMA WriteOrderly ==
  ASSUME Types, Mirror, LogIntact, Sorted, open, ~flush_end, NEW n \in Sizes, Fits(n),
         NEW r, r = Rec(epoch, next_seq, n), r \in Records, Grows,
         r \in failed' \/ (Len(acked'[epoch]) = Len(Log) + 1 /\ acked'[epoch][Len(Log) + 1] = r),
         NEW d \in 0 .. (RoundUp(tail_offset + n) \div SECTOR_SIZE) - 1,
         NEW w, w = (sector_offset \div SECTOR_SIZE) + d, NEW v, v = SectorOf(Staged(r), d)
  PROVE  Orderly(w, v)'
<1> DEFINE k == sector_offset \div SECTOR_SIZE
           L == Len(Log)
<1>2. r.size = n /\ \A j : RecOf(Cell(r, j)) = r /\ Cell(r, j).at = j
  BY DEF Rec, RecOf, Cell, Records
<1>3. \A i \in Places :
        LET x == d * SECTOR_SIZE + i
        IN  /\ x \in Nat /\ (x < SECTOR_SIZE => d = 0 /\ x = i)
            /\ v[i] = IF x < tail_offset THEN staging[x]
                      ELSE IF x < tail_offset + n THEN Cell(r, x - tail_offset + 1)
                      ELSE Zero
  BY <1>2, StagedCell
<1>4. tail_offset \in 0 .. SECTOR_SIZE - 1 /\ tail_offset \in Nat /\ SECTOR_SIZE \in Nat \ {0} /\ n \in Nat
  BY SectorAssumption, SizesAssumption DEF Types, TypeOK, Places
<1>5. L \in Nat /\ epoch \in 1 .. MaxEpoch /\ k \in Int
  <2>1. PICK a \in 0 .. MaxSectors : sector_offset = a * SECTOR_SIZE BY DEF Types, TypeOK
  <2>2. sector_offset \in Int BY <2>1, SectorAssumption, BoundsAssumption
  <2> QED BY <2>2, LogTypes, Place
<1>6. tail_offset > 0 => /\ k \in Sectors /\ disk[k] \in vers[k] /\ Orderly(k, disk[k])
                         /\ \A x \in 0 .. tail_offset - 1 : staging[x] = disk[k][x]
  BY DEF Mirror, Sorted, Types, TypeOK
\* Where a record starts in the image: before the tail, or at the tail.
<1>7. ASSUME NEW i \in Places, v[i].at = 1
      PROVE  d = 0 /\ i <= tail_offset /\ v[i] = IF i < tail_offset THEN disk[k][i] ELSE Cell(r, 1)
  <2> DEFINE x == d * SECTOR_SIZE + i
  <2>1. /\ x \in Nat /\ (x < SECTOR_SIZE => d = 0 /\ x = i)
        /\ v[i] = IF x < tail_offset THEN staging[x]
                  ELSE IF x < tail_offset + n THEN Cell(r, x - tail_offset + 1)
                  ELSE Zero
    BY <1>3
  <2> HIDE DEF x
  <2>2. CASE x < tail_offset
    <3>1. d = 0 /\ x = i /\ x \in 0 .. tail_offset - 1 /\ tail_offset > 0 BY <1>4, <2>1, <2>2
    <3> QED BY <1>4, <1>6, <2>1, <2>2, <3>1
  <2>3. CASE ~(x < tail_offset) /\ x < tail_offset + n
    <3>1. v[i] = Cell(r, x - tail_offset + 1) BY <2>1, <2>3
    <3>2. x - tail_offset + 1 = 1 BY <1>2, <1>7, <3>1
    <3>3. x = tail_offset BY <1>4, <2>1, <3>2
    <3>4. d = 0 /\ i = tail_offset BY <1>4, <2>1, <3>3
    <3> QED BY <1>4, <3>1, <3>2, <3>4
  <2>4. CASE ~(x < tail_offset) /\ ~(x < tail_offset + n)
    <3>1. v[i] = Zero BY <2>1, <2>4
    <3> QED BY <1>7, <3>1 DEF Zero
  <2> QED BY <2>2, <2>3, <2>4
<1>8. ASSUME v[0].at = 1 PROVE k + d = 0 /\ First(v[0])'
  <2>1. 0 \in Places BY <1>4 DEF Places
  <2>2. d = 0 /\ v[0] = IF 0 < tail_offset THEN disk[k][0] ELSE Cell(r, 1) BY <1>7, <1>8, <2>1
  <2>3. CASE 0 < tail_offset
    <3>1. k = 0 /\ First(v[0]) BY <1>6, <1>8, <2>2, <2>3 DEF Orderly
    <3> QED BY <2>2, <3>1, StaysOrdered
  <2>4. CASE tail_offset = 0
    <3>1. Log = << >> BY <2>4 DEF Sorted
    <3>2. L = 0 BY <3>1
    <3>3. LogEnd = 0
      <4>1. PICK pos : Layout(pos) BY DEF LogIntact
      <4> QED BY <3>2, <4>1 DEF Layout
    <3>4. k = 0
      <4>1. sector_offset = 0
        <5>1. PICK a \in 0 .. MaxSectors : sector_offset = a * SECTOR_SIZE BY DEF Types, TypeOK
        <5>2. a * SECTOR_SIZE \in Int BY <5>1, SectorOrder, BoundsAssumption
        <5> QED BY <2>4, <3>3, <5>1, <5>2 DEF LogEnd
      <4>2. 0 = 0 * SECTOR_SIZE + 0 /\ 0 \in Places /\ 0 \in Int BY <1>4, <2>1
      <4> QED BY <4>1, <4>2, Place
    <3>5. RecOf(v[0]) = r BY <1>2, <2>2, <2>4
    <3>6. RecOf(v[0]) \in failed' \/ (Len(acked'[epoch]) >= 1 /\ RecOf(v[0]) = acked'[epoch][1])
      BY <3>2, <3>5
    <3>7. First(v[0])' BY <1>5, <3>6 DEF First
    <3> QED BY <2>2, <3>4, <3>7
  <2> QED BY <1>4, <2>3, <2>4
<1>9. ASSUME NEW i \in Places, i > 0, v[i].at = 1, v[i - 1].at = v[i - 1].size
      PROVE  Succeeds(v[i - 1], v[i])'
  <2>1. d = 0 /\ i <= tail_offset /\ v[i] = IF i < tail_offset THEN disk[k][i] ELSE Cell(r, 1) BY <1>7, <1>9
  <2>2. i \in Nat /\ i - 1 \in Places /\ i - 1 \in 0 .. tail_offset - 1 /\ tail_offset > 0
    BY <1>4, <1>9, <2>1 DEF Places
  <2>3. v[i - 1] = staging[i - 1]
    <3> DEFINE x == d * SECTOR_SIZE + (i - 1)
    <3>1. v[i - 1] = IF x < tail_offset THEN staging[x]
                     ELSE IF x < tail_offset + n THEN Cell(r, x - tail_offset + 1)
                     ELSE Zero
      BY <1>3, <2>2
    <3>2. x = i - 1 /\ i - 1 < tail_offset
      <4>1. d * SECTOR_SIZE = 0 BY <1>4, <2>1
      <4> QED BY <1>4, <2>2, <4>1
    <3> HIDE DEF x
    <3> QED BY <3>1, <3>2
  <2>4. CASE i < tail_offset
    <3>1. v[i] = disk[k][i] BY <2>1, <2>4
    <3>2. v[i - 1] = disk[k][i - 1] BY <1>6, <2>2, <2>3
    <3>3. disk[k][i].at = 1 /\ disk[k][i - 1].at = disk[k][i - 1].size BY <1>9, <3>1, <3>2
    <3>4. Succeeds(disk[k][i - 1], disk[k][i]) BY <1>6, <1>9, <2>2, <3>3 DEF Orderly
    <3> QED BY <3>1, <3>2, <3>4, StaysOrdered
  <2>5. CASE i = tail_offset
    <3>1. L \in 1 .. L /\ staging[tail_offset - 1] = Cell(Log[L], Log[L].size) BY <2>2, LastCell
    <3>2. Log[L] \in Records BY <3>1, LogTypes
    <3>3. RecOf(v[i - 1]) = Log[L] BY <2>3, <2>5, <3>1, <3>2 DEF RecOf, Rec, Cell, Records
    <3>4. RecOf(v[i]) = r BY <1>2, <2>1, <2>5, <1>4
    <3>5. L \in 1 .. Len(acked'[epoch]) /\ acked'[epoch][L] = Log[L]
      <4>1. Len(acked[epoch]) <= Len(acked'[epoch]) /\ Len(acked'[epoch]) \in Nat
            /\ \A j \in 1 .. Len(acked[epoch]) : acked'[epoch][j] = acked[epoch][j]
        BY <1>5 DEF Grows
      <4> QED BY <1>5, <3>1, <4>1 DEF Log
    <3>6. RecOf(v[i]) \in failed' \/ (L < Len(acked'[epoch]) /\ RecOf(v[i]) = acked'[epoch][L + 1])
      BY <1>5, <3>4
    <3> HIDE DEF L
    <3> QED BY <1>5, <3>3, <3>5, <3>6 DEF Succeeds
  <2> QED BY <1>4, <2>1, <2>2, <2>4, <2>5
<1> QED BY <1>8, <1>9 DEF Orderly


\* An append that succeeds or fails adds its record to one of the histories.
LEMMA AppendGrows ==
  ASSUME Types, NEW n \in Sizes,
         AppendOk(n) \/ (AppendIoError(n) /\ failed' = failed \cup {Rec(epoch, next_seq, n)})
  PROVE  /\ Grows /\ open /\ Fits(n) /\ Rec(epoch, next_seq, n) \in Records
         /\ AppendOk(n) => /\ Len(acked'[epoch]) = Len(Log) + 1
                           /\ acked'[epoch][Len(Log) + 1] = Rec(epoch, next_seq, n)
                           /\ \A e \in 1 .. MaxEpoch : e # epoch => acked'[e] = acked[e]
<1> DEFINE r == Rec(epoch, next_seq, n)
<1>1. open /\ Fits(n) /\ failed \subseteq failed' BY DEF AppendOk, AppendIoError, AppendFails, Fits
<1>2. epoch \in 1 .. MaxEpoch /\ epoch >= 1 BY <1>1, BoundsAssumption DEF Types, TypeOK
<1>3. r \in Records BY <1>1, <1>2, StagedTypes
<1>4. \A e \in 1 .. MaxEpoch : acked[e] \in Seq(Records) /\ Len(acked[e]) \in Nat BY AckedTypes
<1> HIDE DEF r
<1>5. ASSUME AppendOk(n)
      PROVE  /\ \A e \in 1 .. MaxEpoch : e # epoch => acked'[e] = acked[e]
             /\ acked'[epoch] = Append(acked[epoch], r)
  <2>1. acked' = [acked EXCEPT ![epoch] = Append(acked[epoch], r)] BY <1>5 DEF AppendOk, r
  <2>2. acked \in [1 .. MaxEpoch -> Seq(Records)] BY DEF Types, TypeOK
  <2> QED BY <1>2, <2>1, <2>2
<1>6. ASSUME AppendOk(n)
      PROVE  /\ Len(acked'[epoch]) = Len(acked[epoch]) + 1 /\ acked'[epoch][Len(acked[epoch]) + 1] = r
             /\ \A i \in 1 .. Len(acked[epoch]) : acked'[epoch][i] = acked[epoch][i]
  BY <1>2, <1>3, <1>4, <1>5, <1>6, AppendProperties
<1>7. Grows
  <2>1. CASE AppendIoError(n)
    <3>1. acked' = acked BY <2>1 DEF AppendIoError, AppendFails
    <3> QED BY <1>1, <1>4, <3>1 DEF Grows
  <2>2. CASE AppendOk(n)
    <3>1. ASSUME NEW e \in 1 .. MaxEpoch
          PROVE  /\ Len(acked'[e]) \in Nat /\ Len(acked[e]) <= Len(acked'[e])
                 /\ \A i \in 1 .. Len(acked[e]) : acked'[e][i] = acked[e][i]
      <4>1. CASE e = epoch BY <1>4, <1>6, <2>2, <4>1
      <4>2. CASE e # epoch BY <1>4, <1>5, <2>2, <4>2
      <4> QED BY <4>1, <4>2
    <3> QED BY <1>1, <3>1 DEF Grows
  <2> QED BY <2>1, <2>2
<1> QED BY <1>1, <1>3, <1>5, <1>6, <1>7 DEF r, Log

\* What an append leaves in the sectors is orderly.
LEMMA AppendOrderly ==
  ASSUME Types, Mirror, LogIntact, Sorted, ~flush_end, NEW n \in Sizes, AppendOk(n) \/ AppendIoError(n)
  PROVE  \A k \in Sectors : \A v \in vers'[k] : Orderly(k, v)'
<1> DEFINE r == Rec(epoch, next_seq, n)
           a == sector_offset \div SECTOR_SIZE
           Q == 0 .. (RoundUp(tail_offset + n) \div SECTOR_SIZE) - 1
<1>1. PICK done \in SUBSET Q : Write(Staged(r), done) /\ (AppendOk(n) \/ (AppendIoError(n) /\ failed' = failed \cup {r}))
  <2>1. CASE AppendOk(n)
    <3>1. Write(Staged(r), Q) /\ Q \in SUBSET Q BY <2>1 DEF AppendOk
    <3> QED BY <2>1, <3>1
  <2>2. CASE AppendIoError(n)
    <3>1. PICK done \in SUBSET Q : AppendFails(n, done) BY <2>2 DEF AppendIoError
    <3>2. Write(Staged(r), done) /\ failed' = failed \cup {r} BY <3>1 DEF AppendFails
    <3> QED BY <2>2, <3>2
  <2> QED BY <2>1, <2>2
<1>2. /\ Grows /\ open /\ Fits(n) /\ r \in Records
      /\ AppendOk(n) => Len(acked'[epoch]) = Len(Log) + 1 /\ acked'[epoch][Len(Log) + 1] = r
  BY <1>1, AppendGrows
<1>3. r \in failed' \/ (Len(acked'[epoch]) = Len(Log) + 1 /\ acked'[epoch][Len(Log) + 1] = r)
  BY <1>1, <1>2
<1>4. ASSUME NEW k \in Sectors, NEW v \in vers'[k] PROVE Orderly(k, v)'
  <2>1. vers'[k] = IF k \in {a + d : d \in done} THEN vers[k] \cup {SectorOf(Staged(r), k - a)} ELSE vers[k]
    BY <1>1 DEF Write
  <2>2. CASE v \in vers[k]
    <3>1. Orderly(k, v) BY <2>2 DEF Sorted
    <3> QED BY <1>2, <3>1, StaysOrderly
  <2>3. CASE v \notin vers[k]
    <3>1. k \in {a + d : d \in done} /\ v = SectorOf(Staged(r), k - a) BY <2>1, <2>3
    <3>2. PICK d \in done : k = a + d BY <3>1
    <3>3. d \in Q BY <1>1
    <3>4. k - a = d
      <4>1. a \in Int
        <5>1. PICK b \in 0 .. MaxSectors : sector_offset = b * SECTOR_SIZE BY DEF Types, TypeOK
        <5>2. sector_offset \in Int BY <5>1, SectorAssumption, BoundsAssumption
        <5> QED BY <5>2, Place
      <4>2. d \in Int BY <3>3
      <4> HIDE DEF a
      <4> QED BY <3>2, <4>1, <4>2
    <3>5. v = SectorOf(Staged(r), d) BY <3>1, <3>4
    <3> HIDE DEF r
    <3>6. r = Rec(epoch, next_seq, n) BY DEF r
    <3> QED BY <1>2, <1>3, <3>2, <3>3, <3>5, <3>6, WriteOrderly
  <2> QED BY <2>2, <2>3
<1> QED BY <1>4

\* A step that only forgets images, or cuts them off, leaves orderly ones.
LEMMA RestOrderly ==
  ASSUME Types, Sorted, ~flush_end,
         Open \/ Close \/ Crash \/ Sync \/ TruncateToLogicalEnd \/ (\E n \in Sizes : AppendNoRoom(n))
           \/ UNCHANGED vars
  PROVE  \A k \in Sectors : \A v \in vers'[k] : Orderly(k, v)'
<1>1. acked' = acked /\ failed' = failed
  BY DEF Open, Close, Crash, Sync, TruncateToLogicalEnd, AppendNoRoom, vars, history
<1>2. \A k, v : Orderly(k, v) => Orderly(k, v)' BY <1>1 DEF Orderly, First, Succeeds
<1>3. \A k \in Sectors : disk[k] \in vers[k] /\ \A v \in vers[k] : Orderly(k, v)
  BY DEF Types, TypeOK, Sorted
<1>4. CASE Open \/ Close \/ (\E n \in Sizes : AppendNoRoom(n)) \/ UNCHANGED vars
  <2>1. vers' = vers BY <1>4 DEF Open, Close, AppendNoRoom, vars, file
  <2> QED BY <1>2, <1>3, <2>1
<1>5. CASE Sync
  <2>1. \A k \in Sectors : vers'[k] = {disk[k]} BY <1>5 DEF Sync
  <2> QED BY <1>2, <1>3, <2>1
<1>6. CASE Crash
  <2>1. PICK img \in CrashImages : vers' = [k \in Sectors |-> {img[k]}] BY <1>6 DEF Crash
  <2>2. \A k \in Sectors : img[k] \in vers[k] BY DEF CrashImages
  <2> QED BY <1>2, <1>3, <2>1, <2>2
<1>7. CASE TruncateToLogicalEnd
  <2> DEFINE cut(k) == [i \in Places |-> IF k * SECTOR_SIZE + i < LogEnd THEN disk[k][i] ELSE Zero]
  <2>1. \A k \in Sectors : vers'[k] = vers[k] \cup {cut(k)} BY <1>7 DEF TruncateToLogicalEnd, LogEnd
  <2>2. ASSUME NEW k \in Sectors PROVE Orderly(k, cut(k))
    <3>1. PICK v : v = cut(k) OBVIOUS
    <3>2. Orderly(k, disk[k]) BY <1>3
    <3>3. \A i \in Places : v[i] = IF k * SECTOR_SIZE + i < LogEnd THEN disk[k][i] ELSE Zero BY <3>1
    <3>4. \A i \in Places : v[i].at = 1 => v[i] = disk[k][i] /\ k * SECTOR_SIZE + i < LogEnd
      BY <3>3 DEF Zero
    <3>5. 0 \in Places /\ SECTOR_SIZE \in Nat \ {0} BY SectorAssumption DEF Places
    <3>6. v[0].at = 1 => k = 0 /\ First(v[0]) BY <3>2, <3>4, <3>5 DEF Orderly
    <3>7. ASSUME NEW i \in Places, i > 0, v[i].at = 1, v[i - 1].at = v[i - 1].size
          PROVE  Succeeds(v[i - 1], v[i])
      <4>1. v[i] = disk[k][i] /\ k * SECTOR_SIZE + i < LogEnd BY <3>4, <3>7
      <4>2. i - 1 \in Places /\ k * SECTOR_SIZE + (i - 1) < LogEnd
        <5>1. k \in Int /\ k * SECTOR_SIZE \in Int BY SectorOrder, BoundsAssumption DEF Sectors
        <5>2. LogEnd \in Int
          <6>1. PICK b \in 0 .. MaxSectors : sector_offset = b * SECTOR_SIZE BY DEF Types, TypeOK
          <6>2. sector_offset \in Int BY <6>1, SectorAssumption, BoundsAssumption
          <6>3. tail_offset \in Int BY <3>5 DEF Types, TypeOK, Places
          <6> QED BY <6>2, <6>3 DEF LogEnd
        <5> QED BY <3>5, <3>7, <4>1, <5>1, <5>2 DEF Places
      <4>3. v[i - 1] = disk[k][i - 1] BY <3>3, <4>2
      <4> QED BY <3>2, <3>7, <4>1, <4>3 DEF Orderly
    <3>8. Orderly(k, v) BY <3>6, <3>7 DEF Orderly
    <3> QED BY <3>1, <3>8
  <2>3. ASSUME NEW k \in Sectors, NEW v \in vers'[k] PROVE Orderly(k, v)'
    <3>1. CASE v \in vers[k] BY <1>2, <1>3, <3>1
    <3>2. CASE v = cut(k)
      <4>1. Orderly(k, v) BY <2>2, <3>2
      <4> QED BY <1>2, <4>1
    <3> HIDE DEF cut
    <3> QED BY <2>1, <3>1, <3>2
  <2> QED BY <2>3
<1> QED BY <1>4, <1>5, <1>6, <1>7

\* Every step keeps the images orderly.
LEMMA StepSorted == Types /\ Types' /\ Mirror /\ LogIntact /\ Sorted /\ [Next]_vars => Sorted'
<1> SUFFICES ASSUME Types, Types', Mirror, LogIntact, Sorted, [Next]_vars, ~flush_end' PROVE Sorted'
  BY DEF Sorted
<1>1. ~flush_end
  BY DEF Next, Open, Close, Crash, Sync, TruncateToLogicalEnd, AppendOk, AppendIoError, AppendFails,
         AppendNoRoom, vars, history
<1>2. \A k \in Sectors : \A v \in vers'[k] : Orderly(k, v)' BY <1>1, AppendOrderly, RestOrderly DEF Next
<1>3. ASSUME open', Log' # << >> PROVE tail_offset' > 0
  <2>1. CASE Open
    <3>1. epoch' \in 1 .. MaxEpoch /\ epoch' > epoch BY <2>1, BoundsAssumption DEF Open, Types, TypeOK
    <3>2. Log' = << >> BY <2>1, <3>1 DEF Open, Log, Types
    <3> QED BY <1>3, <3>2
  <2>2. CASE \E n \in Sizes : AppendOk(n)
    <3>1. PICK n \in Sizes : AppendOk(n) BY <2>2
    <3>2. tail_offset' = ((tail_offset + n) % SECTOR_SIZE) /\ ((tail_offset + n) % SECTOR_SIZE) # 0
      BY <3>1 DEF AppendOk, NextTail
    <3>3. tail_offset' \in Places BY DEF Types, TypeOK
    <3>4. \A x \in Places : x # 0 => x > 0 BY SectorAssumption DEF Places
    <3> QED BY <3>2, <3>3, <3>4
  <2>3. CASE Close \/ Crash BY <1>3, <2>3 DEF Close, Crash
  <2>4. CASE ~(Open \/ Close \/ Crash \/ \E n \in Sizes : AppendOk(n))
    <3>1. open' = open /\ acked' = acked /\ epoch' = epoch /\ tail_offset' = tail_offset
      BY <2>4 DEF Next, Sync, TruncateToLogicalEnd, AppendIoError, AppendFails, AppendNoRoom, vars, history,
                  writer
    <3> QED BY <1>1, <1>3, <3>1 DEF Sorted, Log
  <2> QED BY <2>1, <2>2, <2>3, <2>4
<1> QED BY <1>2, <1>3 DEF Sorted


-----------------------------------------------------------------------------
(* Acknowledged records are read back *)

\* Every step keeps the ledger.
LEMMA StepLedger == Types /\ Types' /\ LogIntact /\ Ledger /\ [Next]_vars => Ledger'
<1> SUFFICES ASSUME Types, Types', LogIntact, Ledger, [Next]_vars PROVE Ledger'
  OBVIOUS
<1>1. epoch \in Nat /\ next_seq \in Nat /\ next_seq' \in Nat /\ epoch' \in Nat
  BY BoundsAssumption DEF Types, TypeOK
<1>2. \A x \in failed : x.epoch \in Nat /\ x.seq \in Nat
  <2>1. \A x \in Records : x.epoch \in 1 .. MaxEpoch /\ x.seq \in 1 .. MaxSeq BY DEF Records
  <2>2. (\A y \in 1 .. MaxEpoch : y \in Nat) /\ (\A y \in 1 .. MaxSeq : y \in Nat) BY BoundsAssumption
  <2>3. failed \subseteq Records BY DEF Types, TypeOK
  <2> QED BY <2>1, <2>2, <2>3
<1>3. \A e \in 1 .. MaxEpoch : \A i \in 1 .. Len(acked[e]) :
        /\ acked[e][i].epoch = e /\ acked[e][i] \notin failed
        /\ \A j \in 1 .. i - 1 : acked[e][j].seq < acked[e][i].seq
  BY DEF Ledger
<1>4. \A x \in failed : x.epoch <= epoch /\ (open /\ x.epoch = epoch => x.seq < next_seq) BY DEF Ledger
<1>5. ASSUME acked' = acked, failed' = failed,
             \/ epoch' = epoch + 1
             \/ ~open' /\ epoch' = epoch
             \/ open' = open /\ epoch' = epoch /\ (next_seq' = next_seq \/ next_seq' = next_seq + 1)
      PROVE  Ledger'
  <2>1. ASSUME NEW x \in failed PROVE x.epoch <= epoch' /\ (open' /\ x.epoch = epoch' => x.seq < next_seq')
    <3>1. x.epoch \in Nat /\ x.seq \in Nat /\ x.epoch <= epoch /\ (open /\ x.epoch = epoch => x.seq < next_seq)
      BY <1>2, <1>4
    <3>2. CASE epoch' = epoch + 1 BY <1>1, <3>1, <3>2
    <3>3. CASE ~open' /\ epoch' = epoch BY <3>1, <3>3
    <3>4. CASE open' = open /\ epoch' = epoch /\ (next_seq' = next_seq \/ next_seq' = next_seq + 1)
      <4>1. x.epoch <= epoch' BY <3>1, <3>4
      <4>2. ASSUME open', x.epoch = epoch' PROVE x.seq < next_seq'
        <5>1. x.seq < next_seq BY <3>1, <3>4, <4>2
        <5> QED BY <1>1, <3>1, <3>4, <5>1
      <4> QED BY <4>1, <4>2
    <3> QED BY <1>5, <3>2, <3>3, <3>4
  <2> QED BY <1>3, <1>5, <2>1 DEF Ledger
<1>6. CASE Open
  <2>1. acked' = acked /\ failed' = failed /\ epoch' = epoch + 1 BY <1>6 DEF Open
  <2> QED BY <1>5, <2>1
<1>7. CASE Close \/ Crash
  <2>1. acked' = acked /\ failed' = failed /\ ~open' /\ epoch' = epoch BY <1>7 DEF Close, Crash, history
  <2> QED BY <1>5, <2>1
<1>8. CASE Sync \/ TruncateToLogicalEnd \/ (\E n \in Sizes : AppendNoRoom(n)) \/ UNCHANGED vars
  <2>1. /\ acked' = acked /\ failed' = failed /\ open' = open /\ epoch' = epoch
        /\ next_seq' = next_seq \/ next_seq' = next_seq + 1
    BY <1>8 DEF Sync, TruncateToLogicalEnd, AppendNoRoom, vars, writer, history
  <2> QED BY <1>5, <2>1
<1>9. ASSUME open, NEW n \in Sizes, AppendOk(n) \/ AppendIoError(n)
      PROVE  Ledger'
  <2> DEFINE r == Rec(epoch, next_seq, n)
             L == Len(Log)
  <2>1. open' = open /\ epoch' = epoch /\ next_seq' = next_seq + 1
    BY <1>9 DEF AppendOk, AppendIoError, AppendFails
  <2>2. r.epoch = epoch /\ r.seq = next_seq BY DEF Rec
  <2>3. /\ epoch \in 1 .. MaxEpoch /\ L \in Nat
        /\ \A i \in 1 .. L : Log[i].seq \in Nat /\ Log[i].seq < next_seq
    BY <1>9, LogTypes DEF LogIntact, Numbered
  <2>4. r \notin failed
    <3>1. SUFFICES ASSUME r \in failed PROVE FALSE OBVIOUS
    <3>2. next_seq < next_seq BY <1>4, <1>9, <2>2, <3>1
    <3> QED BY <1>1, <3>2
  <2>5. \A e \in 1 .. MaxEpoch : \A i \in 1 .. Len(acked[e]) : acked[e][i] # r
    <3>1. SUFFICES ASSUME NEW e \in 1 .. MaxEpoch, NEW i \in 1 .. Len(acked[e]), acked[e][i] = r PROVE FALSE
      OBVIOUS
    <3>2. e = epoch BY <1>3, <2>2, <3>1
    <3>3. next_seq < next_seq BY <2>2, <2>3, <3>1, <3>2 DEF Log
    <3> QED BY <1>1, <3>3
  <2>6. \A x \in failed : x.epoch <= epoch' /\ (open' /\ x.epoch = epoch' => x.seq < next_seq')
    <3>1. ASSUME NEW x \in failed PROVE x.epoch = epoch => x.seq < next_seq + 1
      <4>1. x.epoch = epoch => x.seq < next_seq BY <1>4, <1>9
      <4>2. x.seq \in Nat BY <1>2
      <4> QED BY <1>1, <4>1, <4>2
    <3> QED BY <1>4, <2>1, <3>1
  <2>7. CASE AppendIoError(n)
    <3>1. acked' = acked /\ failed' = failed \cup {r} BY <2>7 DEF AppendIoError, AppendFails
    <3>2. r.epoch <= epoch' /\ r.seq < next_seq' BY <1>1, <2>1, <2>2
    <3> HIDE DEF r
    <3> QED BY <1>3, <2>5, <2>6, <3>1, <3>2 DEF Ledger
  <2>8. CASE AppendOk(n)
    <3>1. failed' = failed BY <2>8 DEF AppendOk
    <3>2. /\ \A e \in 1 .. MaxEpoch : e # epoch => acked'[e] = acked[e]
          /\ Len(acked'[epoch]) = L + 1 /\ acked'[epoch][L + 1] = r
          /\ \A i \in 1 .. L : acked'[epoch][i] = Log[i]
      BY <2>3, <2>8, AppendGrows DEF Grows, Log
    <3> HIDE DEF r
    <3>3. ASSUME NEW i \in 1 .. L + 1
          PROVE  /\ acked'[epoch][i].epoch = epoch /\ acked'[epoch][i] \notin failed
                 /\ \A j \in 1 .. i - 1 : acked'[epoch][j].seq < acked'[epoch][i].seq
      <4>1. CASE i = L + 1
        <5>1. \A j \in 1 .. i - 1 : j \in 1 .. L BY <2>3, <4>1
        <5>2. \A j \in 1 .. i - 1 : acked'[epoch][j].seq < next_seq BY <2>3, <3>2, <5>1
        <5> QED BY <2>2, <2>4, <3>2, <4>1, <5>2
      <4>2. CASE i \in 1 .. L
        <5>1. \A j \in 1 .. i - 1 : j \in 1 .. L BY <2>3, <4>2
        <5>2. \A j \in 1 .. i - 1 : acked'[epoch][j] = Log[j] BY <3>2, <5>1
        <5>3. acked'[epoch][i] = Log[i] BY <3>2, <4>2
        <5> QED BY <1>3, <2>3, <4>2, <5>2, <5>3 DEF Log
      <4> QED BY <2>3, <4>1, <4>2
    <3>4. ASSUME NEW e \in 1 .. MaxEpoch, NEW i \in 1 .. Len(acked'[e])
          PROVE  /\ acked'[e][i].epoch = e /\ acked'[e][i] \notin failed
                 /\ \A j \in 1 .. i - 1 : acked'[e][j].seq < acked'[e][i].seq
      <4>1. CASE e = epoch BY <3>2, <3>3, <4>1
      <4>2. CASE e # epoch BY <1>3, <3>2, <4>2
      <4> QED BY <4>1, <4>2
    <3> QED BY <2>6, <3>1, <3>4 DEF Ledger
  <2> QED BY <1>9, <2>7, <2>8
<1>10. ASSUME NEW n \in Sizes, AppendOk(n) \/ AppendIoError(n) PROVE open
  BY <1>10 DEF AppendOk, AppendIoError, AppendFails, Fits
<1> QED BY <1>6, <1>7, <1>8, <1>9, <1>10 DEF Next

\* The invariant of the log.
WalInv == Types /\ Mirror /\ LogIntact /\ Ledger /\ Sorted

\* The log keeps its invariant, for any sizes and any number of failures.
THEOREM WalInvariant == Spec => []WalInv
<1>1. Init => WalInv
  <2> SUFFICES ASSUME Init PROVE WalInv
    OBVIOUS
  <2>1. Types BY InitTypes
  <2>2. Mirror /\ LogIntact BY DEF Init, Mirror, LogIntact
  <2>3. \A e \in 1 .. MaxEpoch : Len(acked[e]) = 0 /\ 1 .. 0 = {} BY DEF Init
  <2>4. Ledger BY <2>3 DEF Init, Ledger
  <2>5. \A k \in Sectors : Orderly(k, Blank)
    <3>1. 0 \in Places BY SectorAssumption DEF Places
    <3>2. \A i \in Places : Blank[i].at = 0 BY DEF Blank, Zero
    <3> QED BY <3>1, <3>2 DEF Orderly
  <2>6. Sorted BY <2>5 DEF Init, Sorted
  <2> QED BY <2>1, <2>2, <2>4, <2>6 DEF WalInv
<1>2. WalInv /\ [Next]_vars => WalInv'
  BY StepTypes, StepMirror, StepIntact, StepLedger, StepSorted DEF WalInv
<1> QED BY <1>1, <1>2, PTL DEF Spec

\* Sectors that a power failure may leave make a file in order.
LEMMA CrashedInOrder ==
  ASSUME WalInv, ~flush_end, NEW img, \A k \in Sectors : img[k] \in vers[k]
  PROVE  Contents(img) \in Seq(Cells) /\ InOrder(Contents(img))
<1>1. \A k \in Sectors : img[k] \in [Places -> Cells] /\ Orderly(k, img[k])
  BY DEF WalInv, Types, TypeOK, Sorted
<1> QED BY <1>1, ContentsInOrder

\* append acknowledges what recovery returns: while no record has ended exactly at
\* a sector's end, replaying the file yields every acknowledged record in order
\* and nothing more, except perhaps one record whose append failed, for any sizes
\* of sectors, buffer and records, any failed writes and any earlier content.
THEOREM AcknowledgedAreReadBack == Spec => []AckedReadBackOffBoundary
<1>1. WalInv => AckedReadBackOffBoundary
  <2> SUFFICES ASSUME WalInv, ~flush_end, open, Log # << >>
               PROVE  Explained(Replay(Contents(disk)), epoch, Len(Log))
    BY DEF AckedReadBackOffBoundary, AckedReadBack, Log
  <2>1. Types /\ Ledger /\ LogIntact BY DEF WalInv
  <2>2. Log \in Seq(Records) /\ Len(Log) \in Nat BY <2>1, LogTypes
  <2>3. Len(Log) \in 1 .. Len(Log)
    <3>1. Len(Log) \in Nat \ {0} BY <2>2, EmptySeq
    <3> QED BY <3>1
  <2>4. ReplayFinds(disk, Len(Log)) BY <2>1, IntactReadable DEF LogReadable
  <2>5. \A k \in Sectors : disk[k] \in vers[k] BY <2>1 DEF Types, TypeOK
  <2>6. Contents(disk) \in Seq(Cells) /\ InOrder(Contents(disk)) BY <2>5, CrashedInOrder
  <2> QED BY <2>1, <2>3, <2>4, <2>6, FoundExplained
<1> QED BY <1>1, WalInvariant, PTL

\* README, Crash Recovery Invariants: while no record has ended exactly at a
\* sector's end, recovery returns after any power failure a prefix of the log of
\* one writer with every synced record in it, whatever mix of unsynced sectors
\* reached the device.
THEOREM CrashesLeavePrefix == Spec => []CrashLeavesPrefixOffBoundary
<1>1. WalInv => CrashLeavesPrefixOffBoundary
  <2> SUFFICES ASSUME WalInv, ~flush_end, open, NEW img \in CrashImages
               PROVE  \/ Explained(Replay(Contents(img)), epoch, synced)
                      \/ synced = 0 /\ \E e \in 1 .. epoch : Explained(Replay(Contents(img)), e, 0)
    BY DEF CrashLeavesPrefixOffBoundary, CrashLeavesPrefix
  <2>1. Types /\ Ledger /\ LogIntact BY DEF WalInv
  <2>2. Len(Log) \in Nat /\ synced \in Nat /\ synced <= Len(Log) /\ epoch \in 1 .. MaxEpoch
    BY <2>1, LogTypes, BoundsAssumption DEF LogIntact, Types, TypeOK
  <2>3. \A k \in Sectors : img[k] \in vers[k] BY DEF CrashImages
  <2>4. Contents(img) \in Seq(Cells) /\ InOrder(Contents(img)) BY <2>3, CrashedInOrder
  <2>5. CASE synced \in 1 .. Len(Log)
    <3>1. ReplayFinds(img, synced) BY <2>1, IntactReadable DEF LogReadable
    <3> QED BY <2>1, <2>4, <2>5, <3>1, FoundExplained
  <2>6. CASE synced = 0
    <3>1. PICK e \in 1 .. epoch : Continues(Replay(Contents(img)), e, 0) BY <2>1, <2>4, ReplayContinues
    <3>2. e \in 1 .. MaxEpoch BY <2>2, BoundsAssumption
    <3>3. Len(acked[e]) \in Nat BY <2>1, <3>2, AckedTypes
    <3>4. PICK l \in 0 .. Len(acked[e]) :
            \/ Replay(Contents(img)) = SubSeq(acked[e], 0 + 1, l)
            \/ \E x \in failed : Replay(Contents(img)) = SubSeq(acked[e], 0 + 1, l) \o <<x>>
      BY <3>1 DEF Continues
    <3>5. 0 \in Nat /\ 0 <= l /\ 0 + 1 = 1 BY <3>3, <3>4
    <3>6. Explained(Replay(Contents(img)), e, 0) BY <2>1, <3>2, <3>4, <3>5, PrefixExplained
    <3> QED BY <2>6, <3>6
  <2> QED BY <2>2, <2>5, <2>6
<1> QED BY <1>1, WalInvariant, PTL
=============================================================================
