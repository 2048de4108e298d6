-------------------------- MODULE CompactionProofs --------------------------
(***************************************************************************)
(* Proofs about Compaction and the tables and filters it is built from.    *)
(***************************************************************************)
EXTENDS Compaction, SequenceTheorems, FiniteSetTheorems, WellFoundedInduction, TLAPS

(* Induction *)

\* A set of numbers that has a number whenever it has all smaller ones has all.
LEMMA Induction ==
  ASSUME NEW T, \A n \in Nat : (\A m \in 0 .. n - 1 : m \in T) => n \in T
  PROVE  \A n \in Nat : n \in T
<1> DEFINE R == OpToRel(<, Nat)
           U == {n \in Nat : n \notin T}
<1>1. IsWellFoundedOn(R, Nat) BY NatLessThanWellFounded
<1>2. \A x, y \in Nat : y < x => <<y, x>> \in R BY DEF OpToRel
<1> HIDE DEF R
<1>3. SUFFICES ASSUME U # {} PROVE FALSE OBVIOUS
<1>4. PICK n \in U : \A m \in U : ~(<<m, n>> \in R) BY <1>1, <1>3, WFMin
<1>5. ASSUME NEW m \in 0 .. n - 1 PROVE m \in T
  <2>1. n \in Nat /\ m \in Nat /\ m < n OBVIOUS
  <2>2. <<m, n>> \in R BY <1>2, <2>1
  <2> QED BY <1>4, <2>1, <2>2
<1> QED BY <1>4, <1>5

\* The same with steps by one.
LEMMA StepInduction ==
  ASSUME NEW T, 0 \in T, \A n \in Nat : n \in T => n + 1 \in T
  PROVE  \A n \in Nat : n \in T
<1>1. ASSUME NEW n \in Nat, \A m \in 0 .. n - 1 : m \in T PROVE n \in T
  <2>1. CASE n = 0 BY <2>1
  <2>2. CASE n # 0
    <3>1. n - 1 \in Nat /\ n - 1 \in 0 .. n - 1 /\ (n - 1) + 1 = n BY <2>2
    <3>2. n - 1 \in T BY <1>1, <3>1
    <3> QED BY <3>1, <3>2
  <2> QED BY <2>1, <2>2
<1> QED BY <1>1, Induction

-----------------------------------------------------------------------------
(* Sequences of sequences *)

\* FlattenSeq by its recursion.
Flat(bs, f, m) == f = [i \in 1 .. m |-> IF i = 1 THEN bs[i] ELSE f[i - 1] \o bs[i]]

LEMMA FlatExists ==
  ASSUME NEW bs, NEW n \in Nat
  PROVE  \E f : Flat(bs, f, n)
<1> DEFINE T == {m \in Nat : \E f : Flat(bs, f, m)}
<1>1. 0 \in T
  <2>1. Flat(bs, << >>, 0) BY DEF Flat
  <2> QED BY <2>1
<1>2. ASSUME NEW m \in Nat, m \in T PROVE m + 1 \in T
  <2>1. PICK f : Flat(bs, f, m) BY <1>2
  <2> DEFINE g == [i \in 1 .. m + 1 |-> IF i = 1 THEN bs[i] ELSE f[i - 1] \o bs[i]]
  <2>2. \A i \in 1 .. m : g[i] = f[i]
    <3>1. \A i \in 1 .. m : f[i] = IF i = 1 THEN bs[i] ELSE f[i - 1] \o bs[i] BY <2>1 DEF Flat
    <3> QED BY <3>1
  <2>3. \A i \in 1 .. m + 1 : i # 1 => i - 1 \in 1 .. m OBVIOUS
  <2>4. Flat(bs, g, m + 1) BY <2>2, <2>3 DEF Flat
  <2> QED BY <2>4
<1>3. \A m \in Nat : m \in T
  <2> HIDE DEF T
  <2> QED BY <1>1, <1>2, StepInduction
<1> QED BY <1>3

\* Two sequences agree on their first n elements.
Agree(s, t, n) == \A i \in 1 .. n : s[i] = t[i]

\* A part of a flattening is the flattening of a part.
LEMMA FlatPrefix ==
  ASSUME NEW bs, NEW cs, NEW n \in Nat, NEW m \in 0 .. n, NEW f, NEW g, Flat(bs, f, n), Flat(cs, g, m),
         Agree(bs, cs, m)
  PROVE  Agree(f, g, m)
<1> DEFINE T == {i \in Nat : i \in 1 .. m => f[i] = g[i]}
<1>1. 0 \in T OBVIOUS
<1>2. ASSUME NEW i \in Nat, i \in T PROVE i + 1 \in T
  <2> SUFFICES ASSUME i + 1 \in 1 .. m PROVE f[i + 1] = g[i + 1] OBVIOUS
  <2>1. i + 1 \in 1 .. n /\ (i + 1) - 1 = i BY <1>2
  <2>2. f[i + 1] = IF i + 1 = 1 THEN bs[i + 1] ELSE f[i] \o bs[i + 1] BY <2>1 DEF Flat
  <2>3. g[i + 1] = IF i + 1 = 1 THEN cs[i + 1] ELSE g[i] \o cs[i + 1] BY <2>1 DEF Flat
  <2>4. bs[i + 1] = cs[i + 1] BY DEF Agree
  <2>5. CASE i + 1 = 1 BY <2>2, <2>3, <2>4, <2>5
  <2>6. CASE i + 1 # 1
    <3>1. i \in 1 .. m BY <2>6
    <3>2. f[i] = g[i] BY <1>2, <3>1
    <3> QED BY <2>2, <2>3, <2>4, <2>6, <3>2
  <2> QED BY <2>5, <2>6
<1>3. \A i \in Nat : i \in T
  <2> HIDE DEF T
  <2> QED BY <1>1, <1>2, StepInduction
<1> QED BY <1>3 DEF Agree

LEMMA FlattenIs ==
  ASSUME NEW S, NEW bs \in Seq(S), bs # << >>
  PROVE  \E f : Flat(bs, f, Len(bs)) /\ FlattenSeq(bs) = f[Len(bs)]
<1> DEFINE N == Len(bs)
           f == CHOOSE g : Flat(bs, g, N)
<1>1. N \in Nat \ {0} BY EmptySeq
<1>2. Flat(bs, f, N) BY <1>1, FlatExists
<1>3. FlattenSeq(bs) = f[N] BY <1>1 DEF FlattenSeq, Flat
<1> HIDE DEF f
<1> QED BY <1>2, <1>3

LEMMA FlattenAppend ==
  ASSUME NEW S, NEW bs \in Seq(Seq(S)), NEW b \in Seq(S)
  PROVE  FlattenSeq(Append(bs, b)) = FlattenSeq(bs) \o b
<1> DEFINE cs == Append(bs, b)
           N == Len(bs)
<1>1. N \in Nat /\ cs \in Seq(Seq(S)) /\ cs # << >> /\ Len(cs) = N + 1
      /\ (\A i \in 1 .. N : cs[i] = bs[i]) /\ cs[N + 1] = b
  BY AppendProperties, LenProperties
<1> HIDE DEF cs
<1>2. PICK f : Flat(cs, f, N + 1) /\ FlattenSeq(cs) = f[N + 1] BY <1>1, FlattenIs
<1>3. N + 1 \in 1 .. N + 1 /\ (N + 1) - 1 = N BY <1>1
<1>4. f[N + 1] = IF N + 1 = 1 THEN cs[N + 1] ELSE f[N] \o cs[N + 1] BY <1>2, <1>3 DEF Flat
<1>5. CASE bs = << >>
  <2>1. N = 0 BY <1>5
  <2>2. FlattenSeq(bs) = << >> BY <1>5, <2>1 DEF FlattenSeq
  <2>3. << >> \o b = b BY ConcatEmptySeq
  <2> QED BY <1>1, <1>2, <1>4, <2>1, <2>2, <2>3 DEF cs
<1>6. CASE bs # << >>
  <2>1. N \in Nat \ {0} BY <1>6, EmptySeq
  <2>2. PICK g : Flat(bs, g, N) /\ FlattenSeq(bs) = g[N] BY <1>6, FlattenIs
  <2>3. N \in 0 .. N + 1 /\ N \in 1 .. N /\ N + 1 # 1 /\ N + 1 \in Nat BY <2>1
  <2>4. f[N] = g[N]
    <3> HIDE DEF N
    <3>1. PICK M : M = N + 1 OBVIOUS
    <3>2. M \in Nat /\ N \in 0 .. M BY <2>3, <3>1
    <3>3. Flat(cs, f, M) BY <1>2, <3>1
    <3>4. Flat(bs, g, N) BY <2>2
    <3>5. Agree(cs, bs, N) BY <1>1 DEF Agree
    <3>6. Agree(f, g, N) BY ONLY <3>2, <3>3, <3>4, <3>5, FlatPrefix
    <3> QED BY <2>3, <3>6 DEF Agree
  <2> QED BY <1>1, <1>2, <1>4, <2>2, <2>3, <2>4 DEF cs
<1> QED BY <1>5, <1>6

LEMMA FlattenEmpty == FlattenSeq(<< >>) = << >>
  BY DEF FlattenSeq

\* A property of sequences is shown for the empty one and for longer and longer.
LEMMA AppendInduction ==
  ASSUME NEW S, NEW T, << >> \in T, \A s \in Seq(S), e \in S : s \in T => Append(s, e) \in T
  PROVE  \A s \in Seq(S) : s \in T
<1> DEFINE U == {n \in Nat : \A s \in Seq(S) : Len(s) = n => s \in T}
<1>1. 0 \in U
  <2>1. \A s \in Seq(S) : Len(s) = 0 => s = << >> BY EmptySeq
  <2> QED BY <2>1
<1>2. ASSUME NEW n \in Nat, n \in U PROVE n + 1 \in U
  <2> SUFFICES ASSUME NEW s \in Seq(S), Len(s) = n + 1 PROVE s \in T OBVIOUS
  <2>1. s # << >> BY EmptySeq
  <2>2. PICK r \in Seq(S), e \in S : s = Append(r, e) BY <2>1, SequenceEmptyOrAppend
  <2>3. Len(r) \in Nat /\ Len(s) = Len(r) + 1 BY <2>2, AppendProperties, LenProperties
  <2>4. Len(r) = n BY <2>3
  <2>5. r \in T BY <1>2, <2>4
  <2> QED BY <2>2, <2>5
<1>3. \A n \in Nat : n \in U
  <2> HIDE DEF U
  <2> QED BY <1>1, <1>2, StepInduction
<1> QED BY <1>3, LenProperties

LEMMA ToSetAppend ==
  ASSUME NEW S, NEW s \in Seq(S), NEW e \in S
  PROVE  ToSet(Append(s, e)) = ToSet(s) \cup {e}
<1>1. /\ Len(s) \in Nat /\ DOMAIN s = 1 .. Len(s) /\ DOMAIN Append(s, e) = 1 .. Len(s) + 1
      /\ (\A i \in 1 .. Len(s) : Append(s, e)[i] = s[i]) /\ Append(s, e)[Len(s) + 1] = e
  BY AppendProperties, LenProperties
<1>2. \A i \in 1 .. Len(s) + 1 : i \in 1 .. Len(s) \/ i = Len(s) + 1 BY <1>1
<1>3. \A i \in 1 .. Len(s) : i \in 1 .. Len(s) + 1 BY <1>1
<1>4. Len(s) + 1 \in 1 .. Len(s) + 1 BY <1>1
<1> QED BY <1>1, <1>2, <1>3, <1>4 DEF ToSet

LEMMA ToSetConcat ==
  ASSUME NEW S, NEW s \in Seq(S), NEW t \in Seq(S)
  PROVE  ToSet(s \o t) = ToSet(s) \cup ToSet(t)
<1>1. Range(s \o t) = Range(s) \cup Range(t) BY RangeConcatenation
<1> QED BY <1>1 DEF ToSet, Range

\* Flattening keeps the elements.
LEMMA FlattenElements ==
  ASSUME NEW S
  PROVE  \A bs \in Seq(Seq(S)) :
           /\ FlattenSeq(bs) \in Seq(S)
           /\ ToSet(FlattenSeq(bs)) = UNION {ToSet(b) : b \in ToSet(bs)}
<1> DEFINE T == {bs \in Seq(Seq(S)) : /\ FlattenSeq(bs) \in Seq(S)
                                      /\ ToSet(FlattenSeq(bs)) = UNION {ToSet(b) : b \in ToSet(bs)}}
<1>1. << >> \in T
  <2>1. << >> \in Seq(Seq(S)) /\ << >> \in Seq(S) BY EmptySeq
  <2>2. ToSet(<< >>) = {} BY DEF ToSet
  <2> QED BY <2>1, <2>2, FlattenEmpty
<1>2. ASSUME NEW bs \in Seq(Seq(S)), NEW b \in Seq(S), bs \in T PROVE Append(bs, b) \in T
  <2>1. Append(bs, b) \in Seq(Seq(S)) BY AppendProperties
  <2>2. FlattenSeq(Append(bs, b)) = FlattenSeq(bs) \o b BY FlattenAppend
  <2>3. FlattenSeq(bs) \o b \in Seq(S) BY <1>2, ConcatProperties
  <2>4. ToSet(FlattenSeq(bs) \o b) = ToSet(FlattenSeq(bs)) \cup ToSet(b) BY <1>2, ToSetConcat
  <2>5. ToSet(Append(bs, b)) = ToSet(bs) \cup {b} BY ToSetAppend
  <2>6. UNION {ToSet(c) : c \in ToSet(bs) \cup {b}} = (UNION {ToSet(c) : c \in ToSet(bs)}) \cup ToSet(b)
    OBVIOUS
  <2> QED BY <1>2, <2>1, <2>2, <2>3, <2>4, <2>5, <2>6
<1> HIDE DEF T
<1>3. \A bs \in Seq(Seq(S)) : bs \in T BY <1>1, <1>2, AppendInduction
<1> QED BY <1>3 DEF T

-----------------------------------------------------------------------------
(* What the writer writes *)

Entries == [key : Keys, seq : 1 .. MaxVersions * MaxTables, del : BOOLEAN]

\* The order of the entries in a table.
Prior(a, b) == a.key < b.key \/ (a.key = b.key /\ a.seq > b.seq)
Ascending(es) == \A i, j \in 1 .. Len(es) : i < j => Prior(es[i], es[j])

\* The blocks bs hold their entries in that order.
Blocked(bs) ==
  \A i, j \in 1 .. Len(bs) : \A x \in 1 .. Len(bs[i]), y \in 1 .. Len(bs[j]) :
    i < j \/ (i = j /\ x < y) => Prior(bs[i][x], bs[j][y])

LEMMA FrontLast ==
  ASSUME NEW S, NEW s \in Seq(S), s # << >>
  PROVE  /\ Len(s) \in Nat \ {0} /\ Front(s) \in Seq(S) /\ Last(s) \in S /\ s = Append(Front(s), Last(s))
         /\ Len(Front(s)) = Len(s) - 1 /\ \A i \in 1 .. Len(s) - 1 : Front(s)[i] = s[i]
<1>1. Len(s) \in Nat \ {0} /\ \A i \in 1 .. Len(s) : s[i] \in S BY EmptySeq, ElementOfSeq
<1>2. Last(s) \in S BY <1>1 DEF Last
<1>3. \A i \in 1 .. Len(s) - 1 : s[i] \in S BY <1>1
<1>4. /\ Front(s) \in Seq(S)
      /\ Len(Front(s)) = IF 1 <= Len(s) - 1 THEN (Len(s) - 1) - 1 + 1 ELSE 0
      /\ \A i \in 1 .. (Len(s) - 1) - 1 + 1 : Front(s)[i] = s[1 + i - 1]
  <2>1. 1 \in Int /\ Len(s) - 1 \in Int BY <1>1
  <2> QED BY <1>3, <2>1, SubSeqProperties DEF Front
<1>5. Len(Front(s)) = Len(s) - 1
  <2>1. CASE 1 <= Len(s) - 1
    <3>1. Len(Front(s)) = (Len(s) - 1) - 1 + 1 BY <1>4, <2>1
    <3> QED BY <1>1, <3>1
  <2>2. CASE ~(1 <= Len(s) - 1)
    <3>1. Len(Front(s)) = 0 BY <1>4, <2>2
    <3> QED BY <1>1, <2>2, <3>1, SMTT(40)
  <2> QED BY <2>1, <2>2
<1>6. \A i \in 1 .. Len(s) - 1 : Front(s)[i] = s[i]
  <2>1. (Len(s) - 1) - 1 + 1 = Len(s) - 1 /\ \A i \in 1 .. Len(s) - 1 : 1 + i - 1 = i BY <1>1
  <2> QED BY <1>4, <2>1
<1>7. s = Append(Front(s), Last(s))
  <2> DEFINE t == Append(Front(s), Last(s))
  <2>1. t \in Seq(S) /\ Len(t) = Len(s) BY <1>1, <1>2, <1>4, <1>5, AppendProperties
  <2>2. (\A i \in 1 .. Len(Front(s)) : t[i] = Front(s)[i]) /\ t[Len(Front(s)) + 1] = Last(s)
    BY <1>2, <1>4, AppendProperties
  <2>3. ASSUME NEW i \in 1 .. Len(s) PROVE t[i] = s[i]
    <3>1. CASE i = Len(s)
      <4>1. Len(Front(s)) + 1 = Len(s) BY <1>1, <1>5
      <4> QED BY <2>2, <3>1, <4>1 DEF Last
    <3>2. CASE i # Len(s)
      <4>1. i \in 1 .. Len(s) - 1 BY <1>1, <3>2
      <4> QED BY <1>5, <1>6, <2>2, <4>1
    <3> QED BY <3>1, <3>2
  <2> HIDE DEF t
  <2>4. t = s BY <2>1, <2>3, SeqEqual
  <2> QED BY <2>4 DEF t
<1> QED BY <1>1, <1>2, <1>4, <1>5, <1>6, <1>7

LEMMA FrontLastAppend ==
  ASSUME NEW S, NEW s \in Seq(S), NEW e \in S
  PROVE  Front(Append(s, e)) = s /\ Last(Append(s, e)) = e
<1> DEFINE t == Append(s, e)
<1>1. t \in Seq(S) /\ t # << >> BY AppendProperties
<1> HIDE DEF t
<1>2. Front(t) \in Seq(S) /\ Last(t) \in S /\ t = Append(Front(t), Last(t)) BY <1>1, FrontLast
<1> QED BY <1>2, AppendInjective DEF t

\* The entry behind the others is behind them in the last block.
LEMMA BlockedAppend ==
  ASSUME NEW cs \in Seq(Seq(Entries)), NEW c \in Seq(Entries), NEW e \in Entries,
         Blocked(Append(cs, c)),
         \A b \in ToSet(Append(cs, c)) : \A a \in ToSet(b) : Prior(a, e)
  PROVE  Blocked(Append(cs, Append(c, e)))
<1> DEFINE d == Append(c, e)
           old == Append(cs, c)
           new == Append(cs, d)
           N == Len(cs)
           M == Len(c)
<1>1. N \in Nat /\ M \in Nat BY LenProperties
<1>2. d \in Seq(Entries) /\ Len(d) = M + 1 /\ (\A x \in 1 .. M : d[x] = c[x]) /\ d[M + 1] = e
  BY AppendProperties
<1>3. Len(old) = N + 1 /\ (\A i \in 1 .. N : old[i] = cs[i]) /\ old[N + 1] = c BY AppendProperties
<1>4. Len(new) = N + 1 /\ (\A i \in 1 .. N : new[i] = cs[i]) /\ new[N + 1] = d BY <1>2, AppendProperties
<1>5. DOMAIN old = 1 .. N + 1 /\ \A i \in 1 .. N + 1 : old[i] \in Seq(Entries)
  BY <1>3, AppendProperties, LenProperties, ElementOfSeq
<1> HIDE DEF d, old, new, N, M
<1>6. \A i \in 1 .. N + 1 : \A x \in 1 .. Len(old[i]) : Prior(old[i][x], e)
  <2> TAKE i \in 1 .. N + 1
  <2>1. old[i] \in ToSet(old) BY <1>5 DEF ToSet
  <2>2. \A x \in 1 .. Len(old[i]) : old[i][x] \in ToSet(old[i]) BY <1>5, LenProperties DEF ToSet
  <2> QED BY <2>1, <2>2 DEF old
<1>7. ASSUME NEW i \in 1 .. N + 1, NEW x \in 1 .. Len(new[i])
      PROVE  (x \in 1 .. Len(old[i]) /\ new[i][x] = old[i][x]) \/ (i = N + 1 /\ x = M + 1 /\ new[i][x] = e)
  <2>1. CASE i \in 1 .. N BY <1>3, <1>4, <2>1
  <2>2. CASE i = N + 1
    <3>1. Len(old[i]) = M BY <1>3, <2>2 DEF M
    <3>2. new[i] = d /\ x \in 1 .. M + 1 BY <1>2, <1>4, <2>2
    <3>3. x \in 1 .. M \/ x = M + 1 BY <1>1, <3>2
    <3> QED BY <1>2, <1>3, <2>2, <3>1, <3>2, <3>3
  <2> QED BY <1>1, <2>1, <2>2
<1>8. ASSUME NEW i \in 1 .. N + 1, NEW j \in 1 .. N + 1, NEW x \in 1 .. Len(new[i]), NEW y \in 1 .. Len(new[j]),
             i < j \/ (i = j /\ x < y)
      PROVE  Prior(new[i][x], new[j][y])
  <2>1. \/ y \in 1 .. Len(old[j]) /\ new[j][y] = old[j][y]
        \/ j = N + 1 /\ y = M + 1 /\ new[j][y] = e
    BY <1>7
  <2>2. x \in 1 .. Len(old[i]) /\ new[i][x] = old[i][x]
    <3>1. SUFFICES ASSUME i = N + 1 /\ x = M + 1 PROVE FALSE BY <1>7
    <3>2. i = j BY <1>1, <1>8, <3>1
    <3>3. y \in 1 .. M + 1 BY <1>2, <1>4, <3>1, <3>2
    <3> QED BY <1>1, <1>8, <3>1, <3>2, <3>3
  <2>3. CASE y \in 1 .. Len(old[j]) /\ new[j][y] = old[j][y]
    BY <1>3, <1>8, <2>2, <2>3 DEF Blocked, old
  <2>4. CASE new[j][y] = e BY <1>6, <2>2, <2>4
  <2> QED BY <2>1, <2>3, <2>4
<1> QED BY <1>4, <1>8 DEF Blocked, new, d

\* An empty block behind the others changes nothing.
LEMMA BlockedOpen ==
  ASSUME NEW cs \in Seq(Seq(Entries)), Blocked(cs) 
  PROVE  Blocked(Append(cs, << >>))
<1> DEFINE new == Append(cs, << >>)
           N == Len(cs)
<1>1. N \in Nat /\ << >> \in Seq(Entries) BY LenProperties, EmptySeq
<1>2. Len(new) = N + 1 /\ (\A i \in 1 .. N : new[i] = cs[i]) /\ new[N + 1] = << >> BY <1>1, AppendProperties
<1> HIDE DEF new, N
<1>3. \A i \in 1 .. N + 1 : \A x \in 1 .. Len(new[i]) : i \in 1 .. N
  <2> TAKE i \in 1 .. N + 1
  <2>1. CASE i \in 1 .. N BY <2>1
  <2>2. CASE i = N + 1
    <3>1. Len(new[i]) = 0 /\ 1 .. 0 = {} BY <1>2, <2>2
    <3> QED BY <3>1
  <2> QED BY <1>1, <2>1, <2>2
<1> QED BY <1>2, <1>3 DEF Blocked, new, N

-----------------------------------------------------------------------------
(* Writing, entry by entry *)

LEMMA WrittenIs ==
  ASSUME NEW es \in Seq(Entries)
  PROVE  Written(es) = [n \in 0 .. Len(es) |->
                          IF n = 0 THEN <<<< >>>> ELSE AppendEntry(Written(es)[n - 1], es[n])]
<1> DEFINE Is(f, m) == f = [n \in 0 .. m |-> IF n = 0 THEN <<<< >>>> ELSE AppendEntry(f[n - 1], es[n])]
           T == {m \in Nat : \E f : Is(f, m)}
<1>1. 0 \in T
  <2> DEFINE f == [n \in 0 .. 0 |-> <<<< >>>>]
  <2>1. \A n \in 0 .. 0 : n = 0 OBVIOUS
  <2>2. Is(f, 0) BY <2>1
  <2> HIDE DEF f, Is
  <2> QED BY <2>2
<1>2. ASSUME NEW m \in Nat, m \in T PROVE m + 1 \in T
  <2>1. PICK f : Is(f, m) BY <1>2
  <2> DEFINE g == [n \in 0 .. m + 1 |-> IF n = 0 THEN <<<< >>>> ELSE AppendEntry(f[n - 1], es[n])]
  <2>2. \A n \in 0 .. m : g[n] = f[n]
    <3>1. \A n \in 0 .. m : f[n] = IF n = 0 THEN <<<< >>>> ELSE AppendEntry(f[n - 1], es[n]) BY <2>1
    <3> QED BY <3>1
  <2>3. \A n \in 0 .. m + 1 : n # 0 => n - 1 \in 0 .. m OBVIOUS
  <2>4. \A n \in 0 .. m + 1 : n # 0 => g[n - 1] = f[n - 1] BY <2>2, <2>3
  <2>5. \A n \in 0 .. m + 1 : g[n] = IF n = 0 THEN <<<< >>>> ELSE AppendEntry(g[n - 1], es[n])
    BY <2>4
  <2>6. DOMAIN g = 0 .. m + 1 OBVIOUS
  <2>7. Is(g, m + 1)
    <3>1. g = [n \in 0 .. m + 1 |-> g[n]] OBVIOUS
    <3> HIDE DEF g
    <3> QED BY <2>5, <3>1
  <2> HIDE DEF g, Is
  <2> QED BY <2>7
<1>3. Len(es) \in Nat BY LenProperties
<1>4. \E f : Is(f, Len(es))
  <2>1. \A m \in Nat : m \in T
    <3> HIDE DEF T
    <3> QED BY <1>1, <1>2, StepInduction
  <2> HIDE DEF Is
  <2> QED BY <1>3, <2>1
<1>5. Written(es) = CHOOSE f : Is(f, Len(es)) BY DEF Written
<1>6. Is(Written(es), Len(es))
  <2> HIDE DEF Is
  <2> QED BY <1>4, <1>5
<1> QED BY <1>6

\* The blocks after the first n of the entries es were appended.
Writing(es, n, bs) ==
  /\ bs \in Seq(Seq(Entries)) /\ bs # << >>
  /\ \A i \in 1 .. Len(bs) - 1 : bs[i] # << >>
  /\ FlattenSeq(bs) = SubSeq(es, 1, n)
  /\ Blocked(bs)

LEMMA AppendEntryWrites ==
  ASSUME NEW es \in Seq(Entries), Ascending(es), NEW n \in 0 .. Len(es) - 1, NEW bs, Writing(es, n, bs)
  PROVE  Writing(es, n + 1, AppendEntry(bs, es[n + 1]))
<1> DEFINE e == es[n + 1]
           cs == Front(bs)
           c == Last(bs)
           d == Append(c, e)
           new == Append(cs, d)
<1>1. Len(es) \in Nat /\ n + 1 \in 1 .. Len(es) /\ n \in Nat BY LenProperties
<1>2. e \in Entries BY <1>1, ElementOfSeq
<1>3. bs \in Seq(Seq(Entries)) /\ bs # << >> BY DEF Writing
<1>4. cs \in Seq(Seq(Entries)) /\ c \in Seq(Entries) /\ bs = Append(cs, c) /\ Len(bs) \in Nat \ {0}
      /\ Len(cs) = Len(bs) - 1 /\ \A i \in 1 .. Len(bs) - 1 : cs[i] = bs[i]
  BY <1>3, FrontLast
<1> HIDE DEF e, cs, c
<1>5. d \in Seq(Entries) /\ d # << >> BY <1>2, <1>4, AppendProperties
<1>6. new \in Seq(Seq(Entries)) /\ new # << >> /\ Len(new) = Len(bs) BY <1>4, <1>5, AppendProperties, SMTT(40)
<1>7. \A i \in 1 .. Len(new) : new[i] # << >>
  <2> TAKE i \in 1 .. Len(new)
  <2>1. CASE i = Len(new)
    <3>1. new[Len(cs) + 1] = d /\ i = Len(cs) + 1 BY <1>4, <1>5, <1>6, <2>1, AppendProperties
    <3> QED BY <1>5, <3>1
  <2>2. CASE i # Len(new)
    <3>1. i \in 1 .. Len(bs) - 1 /\ i \in 1 .. Len(cs) BY <1>4, <1>6, <2>2
    <3>2. new[i] = cs[i] BY <1>4, <1>5, <3>1, AppendProperties
    <3> QED BY <1>4, <3>1, <3>2 DEF Writing
  <2> QED BY <2>1, <2>2
<1>8. FlattenSeq(new) = SubSeq(es, 1, n + 1)
  <2>1. FlattenSeq(new) = FlattenSeq(cs) \o d BY <1>4, <1>5, FlattenAppend
  <2>2. FlattenSeq(bs) = FlattenSeq(cs) \o c BY <1>4, FlattenAppend
  <2>3. FlattenSeq(cs) \in Seq(Entries) BY <1>4, FlattenElements
  <2>4. d = c \o <<e>> /\ <<e>> \in Seq(Entries) BY <1>2, <1>4, AppendIsConcat
  <2>5. FlattenSeq(cs) \o (c \o <<e>>) = (FlattenSeq(cs) \o c) \o <<e>> BY <1>4, <2>3, <2>4, ConcatAssociative, SMTT(40)
  <2>6. SubSeq(es, 1, n + 1) = SubSeq(es, 1, n) \o <<e>>
    <3>1. 1 \in 1 .. Len(es) /\ n + 1 \in 1 .. Len(es) /\ (n + 1) - 1 = n BY <1>1
    <3> QED BY <3>1, SubSeqRecursiveSecond DEF e
  <2> HIDE DEF d, new
  <2> QED BY <2>1, <2>2, <2>4, <2>5, <2>6 DEF Writing
<1>9. Blocked(new)
  <2>1. ToSet(FlattenSeq(bs)) = UNION {ToSet(b) : b \in ToSet(bs)} BY <1>3, FlattenElements
  <2>2. ASSUME NEW a \in ToSet(SubSeq(es, 1, n)) PROVE Prior(a, e)
    <3>1. \A i \in 1 .. n : es[i] \in Entries BY <1>1, ElementOfSeq
    <3>2. SubSeq(es, 1, n) \in Seq(Entries) /\ Len(SubSeq(es, 1, n)) = n
          /\ \A i \in 1 .. n : SubSeq(es, 1, n)[i] = es[i]
      <4>1. 1 \in Int /\ n \in Int /\ n - 1 + 1 = n /\ (\A i \in 1 .. n : 1 + i - 1 = i) BY <1>1
      <4>2. /\ SubSeq(es, 1, n) \in Seq(Entries)
            /\ Len(SubSeq(es, 1, n)) = IF 1 <= n THEN n - 1 + 1 ELSE 0
            /\ \A i \in 1 .. n - 1 + 1 : SubSeq(es, 1, n)[i] = es[1 + i - 1]
        BY <3>1, <4>1, SubSeqProperties
      <4> QED BY <1>1, <4>1, <4>2
    <3>3. PICK i \in 1 .. n : a = es[i] BY <2>2, <3>2, LenProperties DEF ToSet
    <3>4. i \in 1 .. Len(es) /\ i < n + 1 BY <1>1
    <3> QED BY <1>1, <3>3, <3>4 DEF Ascending, e
  <2>3. \A b \in ToSet(bs) : \A a \in ToSet(b) : Prior(a, e) BY <2>1, <2>2 DEF Writing
  <2> QED BY <1>2, <1>4, <2>3, BlockedAppend DEF Writing
<1>10. CASE AppendEntry(bs, e) = new
  <2> HIDE DEF new
  <2>1. \A i \in 1 .. Len(new) - 1 : i \in 1 .. Len(new) BY <1>4, <1>6
  <2> QED BY <1>6, <1>7, <1>8, <1>9, <1>10, <2>1 DEF Writing, e
<1>11. CASE AppendEntry(bs, e) = new \o <<<< >>>>
  <2> HIDE DEF new
  <2> DEFINE z == << >>
             more == Append(new, z)
  <2>1. z \in Seq(Entries) BY EmptySeq
  <2>2. new \o <<<< >>>> = more BY <1>6, <2>1, AppendIsConcat
  <2>3. more \in Seq(Seq(Entries)) /\ more # << >> /\ Len(more) = Len(new) + 1
        /\ \A i \in 1 .. Len(new) : more[i] = new[i]
    <3>1. new \in Seq(Seq(Entries)) BY <1>6
    <3> HIDE DEF z
    <3>2. Append(new, z) \in Seq(Seq(Entries)) BY <2>1, <3>1, AppendProperties
    <3>3. Append(new, z) # << >> BY <2>1, <3>1, AppendProperties, SMTT(40)
    <3>4. Len(Append(new, z)) = Len(new) + 1 BY <2>1, <3>1, AppendProperties
    <3>5. \A i \in 1 .. Len(new) : Append(new, z)[i] = new[i] BY <2>1, <3>1, AppendProperties
    <3> QED BY <3>2, <3>3, <3>4, <3>5
  <2>4. FlattenSeq(more) = FlattenSeq(new)
    <3>1. FlattenSeq(new) \in Seq(Entries) BY <1>6, FlattenElements
    <3>2. FlattenSeq(more) = FlattenSeq(new) \o << >> BY <1>6, <2>1, FlattenAppend
    <3> QED BY <3>1, <3>2, ConcatEmptySeq
  <2>5. Blocked(more) BY <1>6, <1>9, BlockedOpen
  <2> HIDE DEF more
  <2>6. Len(more) - 1 = Len(new) BY <1>4, <1>6, <2>3
  <2> QED BY <1>7, <1>8, <1>11, <2>2, <2>3, <2>4, <2>5, <2>6 DEF Writing, e
<1> QED BY <1>10, <1>11 DEF AppendEntry, e, c, cs

\* Everything is written, in order, into blocks that are not empty; the reader
\* streams the same entries back.
LEMMA TableWritten ==
  ASSUME NEW es \in Seq(Entries), Ascending(es)
  PROVE  /\ WriteTable(es) \in Seq(Seq(Entries)) /\ Blocked(WriteTable(es))
         /\ \A i \in 1 .. Len(WriteTable(es)) : WriteTable(es)[i] # << >>
         /\ Stream(WriteTable(es)) = es
<1> DEFINE T == {n \in Nat : n \in 0 .. Len(es) => Writing(es, n, Written(es)[n])}
<1>1. Len(es) \in Nat BY LenProperties
<1>2. \A n \in 0 .. Len(es) : Written(es)[n] = IF n = 0 THEN <<<< >>>> ELSE AppendEntry(Written(es)[n - 1], es[n])
  <2> DEFINE W == Written(es)
  <2>1. W = [n \in 0 .. Len(es) |-> IF n = 0 THEN <<<< >>>> ELSE AppendEntry(W[n - 1], es[n])] BY WrittenIs
  <2> HIDE DEF W
  <2>2. \A n \in 0 .. Len(es) : W[n] = IF n = 0 THEN <<<< >>>> ELSE AppendEntry(W[n - 1], es[n]) BY <2>1
  <2> QED BY <2>2 DEF W
<1>3. 0 \in T
  <2>1. Written(es)[0] = <<<< >>>> BY <1>1, <1>2
  <2>2. << >> \in Seq(Entries) /\ <<<< >>>> \in Seq(Seq(Entries)) /\ Len(<<<< >>>>) = 1 BY EmptySeq
  <2>3. FlattenSeq(<<<< >>>>) = << >>
    <3>1. Append(<< >>, << >>) = <<<< >>>> /\ << >> \in Seq(Seq(Entries)) BY EmptySeq
    <3>2. FlattenSeq(Append(<< >>, << >>)) = FlattenSeq(<< >>) \o << >> BY <2>2, <3>1, FlattenAppend
    <3>3. << >> \o << >> = << >> BY <2>2, ConcatEmptySeq
    <3> QED BY <3>1, <3>2, <3>3, FlattenEmpty
  <2>4. SubSeq(es, 1, 0) = << >> BY SubSeqEmpty
  <2>5. Blocked(<<<< >>>>)
    <3>1. \A i \in 1 .. 1 : Len(<<<< >>>>[i]) = 0 /\ 1 .. 0 = {} BY EmptySeq
    <3> QED BY <2>2, <3>1 DEF Blocked
  <2>6. 1 .. 1 - 1 = {} /\ <<<< >>>> # << >> OBVIOUS
  <2> QED BY <2>1, <2>2, <2>3, <2>4, <2>5, <2>6 DEF Writing
<1>4. ASSUME NEW n \in Nat, n \in T PROVE n + 1 \in T
  <2> SUFFICES ASSUME n + 1 \in 0 .. Len(es) PROVE Writing(es, n + 1, Written(es)[n + 1]) OBVIOUS
  <2>1. n \in 0 .. Len(es) - 1 /\ n \in 0 .. Len(es) /\ n + 1 # 0 /\ (n + 1) - 1 = n BY <1>1
  <2>2. Written(es)[n + 1] = AppendEntry(Written(es)[n], es[n + 1]) BY <1>2, <2>1
  <2>3. Writing(es, n, Written(es)[n]) BY <1>4, <2>1
  <2> QED BY <2>1, <2>2, <2>3, AppendEntryWrites
<1>5. \A n \in Nat : n \in T
  <2> HIDE DEF T
  <2> QED BY <1>3, <1>4, StepInduction
<1> DEFINE bs == Written(es)[Len(es)]
<1>6. Writing(es, Len(es), bs) BY <1>1, <1>5
<1>7. SubSeq(es, 1, Len(es)) = es BY SubSeqFull
<1> HIDE DEF bs
<1>8. bs \in Seq(Seq(Entries)) /\ bs # << >> BY <1>6 DEF Writing
<1>9. Len(bs) \in Nat \ {0} /\ Front(bs) \in Seq(Seq(Entries)) /\ Last(bs) \in Seq(Entries)
      /\ bs = Append(Front(bs), Last(bs)) /\ Len(Front(bs)) = Len(bs) - 1
      /\ \A i \in 1 .. Len(bs) - 1 : Front(bs)[i] = bs[i]
  BY <1>8, FrontLast
<1>10. CASE Last(bs) = << >>
  <2>1. WriteTable(es) = Front(bs) BY <1>10 DEF WriteTable, bs
  <2>2. \A i \in 1 .. Len(bs) - 1 : i \in 1 .. Len(bs) BY <1>9
  <2>3. Blocked(Front(bs)) BY <1>6, <1>9, <2>2 DEF Blocked, Writing
  <2>4. FlattenSeq(bs) = FlattenSeq(Front(bs)) \o << >> BY <1>9, <1>10, FlattenAppend
  <2>5. FlattenSeq(Front(bs)) \in Seq(Entries) BY <1>9, FlattenElements
  <2>6. FlattenSeq(Front(bs)) = es BY <1>6, <1>7, <2>4, <2>5, ConcatEmptySeq DEF Writing
  <2> QED BY <1>6, <1>9, <2>1, <2>3, <2>6 DEF Stream, Writing
<1>11. CASE Last(bs) # << >>
  <2>1. WriteTable(es) = bs BY <1>11 DEF WriteTable, bs
  <2>2. \A i \in 1 .. Len(bs) : i \in 1 .. Len(bs) - 1 \/ i = Len(bs) BY <1>9
  <2>3. \A i \in 1 .. Len(bs) : bs[i] # << >> BY <1>6, <1>11, <2>2 DEF Writing, Last
  <2> QED BY <1>6, <1>7, <2>1, <2>3 DEF Stream, Writing
<1> QED BY <1>10, <1>11

-----------------------------------------------------------------------------
(* Numbers *)

LEMMA MinIs ==
  ASSUME NEW T, T \subseteq Nat, T # {}
  PROVE  Min(T) \in T /\ \A y \in T : Min(T) <= y
<1>1. \E x \in T : \A y \in T : x <= y
  <2> DEFINE R == OpToRel(<, Nat)
  <2>1. IsWellFoundedOn(R, Nat) BY NatLessThanWellFounded
  <2>2. \A x, y \in Nat : y < x => <<y, x>> \in R BY DEF OpToRel
  <2> HIDE DEF R
  <2>3. PICK x \in T : \A y \in T : ~(<<y, x>> \in R) BY <2>1, WFMin
  <2>4. \A y \in T : ~(y < x) BY <2>2, <2>3
  <2> QED BY <2>4
<1> QED BY <1>1 DEF Min

LEMMA MaxIs ==
  ASSUME NEW n \in Nat, NEW T, T \subseteq 0 .. n, T # {}
  PROVE  Max(T) \in T /\ \A y \in T : y <= Max(T)
<1> DEFINE U == {n - y : y \in T}
<1>1. U \subseteq Nat /\ U # {}
  <2>1. \A y \in T : n - y \in Nat OBVIOUS
  <2> QED BY <2>1
<1> HIDE DEF U
<1>2. Min(U) \in U /\ \A u \in U : Min(U) <= u BY <1>1, MinIs
<1>3. PICK x \in T : Min(U) = n - x BY <1>2 DEF U
<1>4. ASSUME NEW y \in T PROVE y <= x
  <2>1. n - y \in U BY DEF U
  <2>2. n - x <= n - y BY <1>2, <1>3, <2>1
  <2>3. x \in 0 .. n /\ y \in 0 .. n OBVIOUS
  <2> QED BY <2>2, <2>3
<1>5. \A y \in T : x >= y BY <1>4
<1> QED BY <1>5 DEF Max

-----------------------------------------------------------------------------
(* The filter *)

LEMMA PowerOfTwo ==
  ASSUME NEW n \in Nat
  PROVE  2 ^ n \in Nat \ {0}
<1> DEFINE S == 1 .. n
<1>1. IsFiniteSet(S) /\ Cardinality(S) = n
  <2>1. IsFiniteSet(1 .. n) /\ Cardinality(1 .. n) = IF 1 > n THEN 0 ELSE n - 1 + 1 BY FS_Interval
  <2> QED BY <2>1
<1> HIDE DEF S
<1>2. IsFiniteSet(SUBSET S) /\ Cardinality(SUBSET S) = 2 ^ n BY <1>1, FS_SUBSET
<1>3. SUBSET S # {} OBVIOUS
<1> QED BY <1>2, <1>3, FS_CardinalityType, FS_EmptySet

LEMMA NumBlocksType ==
  ASSUME NEW n \in Nat
  PROVE  NumBlocks(n) \in Nat \ {0}
<1>1. 2 ^ RotWidth \in Nat \ {0} BY WidthAssumption, PowerOfTwo
<1>2. Len(SALTS) \in Nat \ {0} BY SaltsAssumption, EmptySeq
<1>3. BlockBits \in Nat \ {0}
  <2>1. \A x, y \in Nat \ {0} : x * y \in Nat \ {0} OBVIOUS
  <2> HIDE <1>1
  <2> QED BY <1>1, <1>2, <2>1 DEF BlockBits
<1>4. n * BITS_PER_KEY \in Nat
  <2>1. \A x, y \in Nat : x * y \in Nat OBVIOUS
  <2> QED BY <2>1, BitsPerKeyAssumption
<1> DEFINE q == (n * BITS_PER_KEY + BlockBits - 1) \div BlockBits
<1>5. q \in Nat
  <2>1. n * BITS_PER_KEY + BlockBits - 1 \in Nat BY <1>3, <1>4
  <2>2. \A x \in Nat, y \in Nat \ {0} : x \div y \in Nat OBVIOUS
  <2> QED BY <1>3, <2>1, <2>2
<1> HIDE DEF q
<1>6. Max({q, 1}) \in Nat \ {0}
  <2>1. \E x \in {q, 1} : \A y \in {q, 1} : x >= y BY <1>5
  <2>2. Max({q, 1}) \in {q, 1} /\ \A y \in {q, 1} : Max({q, 1}) >= y BY <2>1 DEF Max
  <2> QED BY <1>5, <2>2
<1> QED BY <1>6 DEF NumBlocks, q

\* filter.rs: no false negatives.  Every key that was added is found, for any
\* hash function, any salts and any number of keys.
THEOREM FilterKeepsKeys ==
  ASSUME NEW keys \in Seq(DOMAIN hash64), NEW i \in 1 .. Len(keys)
  PROVE  DOMAIN Build(keys) # {} /\ MayContain(Build(keys), keys[i])
<1> DEFINE N == NumBlocks(Len(keys))
           hashes == {hash64[keys[j]] : j \in DOMAIN keys}
           h == hash64[keys[i]]
           F == Build(keys)
           b == BlockIdx(h, N)
<1>1. Len(keys) \in Nat /\ DOMAIN keys = 1 .. Len(keys) BY LenProperties
<1>2. N \in Nat \ {0} BY <1>1, NumBlocksType
<1>3. keys # << >> BY <1>1, EmptySeq
<1>4. F = [c \in 0 .. N - 1 |-> UNION {Mask(x) : x \in {g \in hashes : BlockIdx(g, N) = c}}]
  BY <1>3 DEF Build
<1>5. h \in hashes BY <1>1
<1>6. h.high \in Nat
  <2>1. keys[i] \in DOMAIN hash64 BY ElementOfSeq
  <2>2. hash64[keys[i]] \in [high : Nat, low : 0 .. 2 ^ LowWidth - 1] BY <2>1, Hash64Assumption
  <2> QED BY <2>2
<1> HIDE DEF F, hashes, h, N
<1>7. b \in 0 .. N - 1
  <2>1. \A x \in Nat, y \in Nat \ {0} : x % y \in 0 .. y - 1 OBVIOUS
  <2> QED BY <1>2, <1>6, <2>1 DEF BlockIdx
<1>8. Cardinality(DOMAIN F) = N
  <2>1. DOMAIN F = 0 .. N - 1 BY <1>4
  <2>2. Cardinality(0 .. N - 1) = IF 0 > N - 1 THEN 0 ELSE N - 1 - 0 + 1
    <3>1. 0 \in Int /\ N - 1 \in Int BY <1>2
    <3> QED BY <3>1, FS_Interval
  <2> QED BY <1>2, <2>1, <2>2
<1>9. Mask(h) \subseteq F[b]
  <2> HIDE DEF b
  <2>1. F[b] = UNION {Mask(x) : x \in {g \in hashes : BlockIdx(g, N) = b}} BY <1>4, <1>7
  <2>2. h \in {g \in hashes : BlockIdx(g, N) = b} BY <1>5 DEF b
  <2> QED BY <2>1, <2>2
<1>10. DOMAIN F # {}
  <2>1. DOMAIN F = 0 .. N - 1 /\ 0 \in 0 .. N - 1 BY <1>2, <1>4
  <2> QED BY <2>1
<1> QED BY <1>8, <1>9, <1>10 DEF MayContain, h, F

-----------------------------------------------------------------------------
(* What the readers find *)

LEMMA EntryTypes ==
  ASSUME NEW e \in Entries
  PROVE  e.key \in Nat \ {0} /\ e.key \in Keys /\ e.seq \in Nat \ {0} /\ e.del \in BOOLEAN
<1>1. e.key \in 1 .. MaxKey /\ e.seq \in 1 .. MaxVersions * MaxTables /\ e.del \in BOOLEAN BY DEF Entries, Keys
<1>2. MaxVersions * MaxTables \in Nat
  <2>1. \A x, y \in Nat : x * y \in Nat OBVIOUS
  <2> QED BY <2>1, VersionsAssumption, TablesAssumption
<1> QED BY <1>1, <1>2, KeysAssumption DEF Keys

\* bs holds the entries es.
LEMMA BlockElements ==
  ASSUME NEW es \in Seq(Entries), NEW bs \in Seq(Seq(Entries)), Stream(bs) = es
  PROVE  /\ \A e \in ToSet(es) : \E i \in 1 .. Len(bs) : \E x \in 1 .. Len(bs[i]) : e = bs[i][x]
         /\ \A i \in 1 .. Len(bs) : \A x \in 1 .. Len(bs[i]) : bs[i][x] \in ToSet(es) /\ bs[i][x] \in Entries
<1>1. ToSet(es) = UNION {ToSet(b) : b \in ToSet(bs)} BY FlattenElements DEF Stream
<1>2. DOMAIN bs = 1 .. Len(bs) /\ \A i \in 1 .. Len(bs) : bs[i] \in Seq(Entries) BY LenProperties, ElementOfSeq
<1>3. \A i \in 1 .. Len(bs) : DOMAIN bs[i] = 1 .. Len(bs[i]) /\ \A x \in 1 .. Len(bs[i]) : bs[i][x] \in Entries
  BY <1>2, LenProperties, ElementOfSeq
<1>4. ASSUME NEW e \in ToSet(es) PROVE \E i \in 1 .. Len(bs) : \E x \in 1 .. Len(bs[i]) : e = bs[i][x]
  <2>1. PICK b \in ToSet(bs) : e \in ToSet(b) BY <1>1
  <2>2. PICK i \in 1 .. Len(bs) : b = bs[i] BY <1>2, <2>1 DEF ToSet
  <2>3. \E x \in 1 .. Len(bs[i]) : e = bs[i][x] BY <1>3, <2>1, <2>2 DEF ToSet
  <2> QED BY <2>3
<1>5. ASSUME NEW i \in 1 .. Len(bs), NEW x \in 1 .. Len(bs[i]) PROVE bs[i][x] \in ToSet(es) /\ bs[i][x] \in Entries
  <2>1. bs[i] \in ToSet(bs) BY <1>2 DEF ToSet
  <2>2. bs[i][x] \in ToSet(bs[i]) BY <1>3 DEF ToSet
  <2> QED BY <1>1, <1>3, <2>1, <2>2
<1> QED BY <1>4, <1>5

\* The first and the last key of a table.
LEMMA TableBounds ==
  ASSUME NEW es \in Seq(Entries), Ascending(es)
  PROVE  LET bs == WriteTable(es)
         IN  /\ es = << >> => bs = << >> /\ Smallest(bs) = 1 /\ Largest(bs) = 1
             /\ es # << >> => bs # << >> /\ ToSet(es) # {}
             /\ es # << >> => /\ \E a \in ToSet(es) : Smallest(bs) = a.key
                              /\ \E a \in ToSet(es) : Largest(bs) = a.key
             /\ \A a \in ToSet(es) : Smallest(bs) <= a.key /\ a.key <= Largest(bs)
<1> DEFINE bs == WriteTable(es)
<1>1. /\ bs \in Seq(Seq(Entries)) /\ Blocked(bs) /\ Stream(bs) = es
      /\ \A i \in 1 .. Len(bs) : bs[i] # << >>
  BY TableWritten
<1> HIDE DEF bs
<1>2. /\ \A e \in ToSet(es) : \E i \in 1 .. Len(bs) : \E x \in 1 .. Len(bs[i]) : e = bs[i][x]
      /\ \A i \in 1 .. Len(bs) : \A x \in 1 .. Len(bs[i]) : bs[i][x] \in ToSet(es) /\ bs[i][x] \in Entries
  BY <1>1, BlockElements
<1>3. Len(bs) \in Nat /\ \A i \in 1 .. Len(bs) : bs[i] \in Seq(Entries) /\ Len(bs[i]) \in Nat \ {0}
  <2>1. Len(bs) \in Nat /\ \A i \in 1 .. Len(bs) : bs[i] \in Seq(Entries) BY <1>1, LenProperties, ElementOfSeq
  <2> QED BY <1>1, <2>1, EmptySeq
<1>4. CASE bs = << >>
  <2>1. ToSet(es) = {}
    <3>1. Len(bs) = 0 /\ 1 .. 0 = {} BY <1>4
    <3> QED BY <1>2, <3>1
  <2>2. es = << >>
    <3>1. SUFFICES ASSUME es # << >> PROVE FALSE OBVIOUS
    <3>2. Len(es) \in Nat \ {0} /\ DOMAIN es = 1 .. Len(es) BY <3>1, EmptySeq, LenProperties
    <3>3. 1 \in DOMAIN es BY <3>2
    <3> QED BY <2>1, <3>3 DEF ToSet
  <2>3. Smallest(bs) = 1 /\ Largest(bs) = 1 BY <1>4 DEF Smallest, Largest, EmptyKey
  <2> QED BY <1>4, <2>1, <2>2, <2>3 DEF bs
<1>5. CASE bs # << >>
  <2> DEFINE N == Len(bs)
             M == Len(bs[N])
             lo == bs[1][1]
             hi == bs[N][M]
  <2>1. N \in Nat \ {0} /\ 1 \in 1 .. N /\ N \in 1 .. N
    <3>1. Len(bs) \in Nat \ {0} BY <1>1, <1>5, EmptySeq
    <3> QED BY <3>1
  <2>2. bs[1] \in Seq(Entries) /\ Len(bs[1]) \in Nat \ {0} /\ bs[N] \in Seq(Entries) /\ M \in Nat \ {0}
    BY <1>3, <2>1
  <2>3. 1 \in 1 .. Len(bs[1]) /\ M \in 1 .. M BY <2>2
  <2>4. lo \in ToSet(es) /\ hi \in ToSet(es) /\ lo \in Entries /\ hi \in Entries BY <1>2, <2>1, <2>3
  <2>5. Smallest(bs) = lo.key /\ Largest(bs) = hi.key
    BY <1>5, <2>1, <2>2 DEF Smallest, Largest, LastKey, Last
  <2>6. es # << >>
    <3>1. SUFFICES ASSUME es = << >> PROVE FALSE OBVIOUS
    <3>2. ToSet(es) = {} BY <3>1 DEF ToSet
    <3> QED BY <2>4, <3>2
  <2>7. ASSUME NEW a \in ToSet(es) PROVE lo.key <= a.key /\ a.key <= hi.key
    <3>0. PICK i \in 1 .. N : \E x \in 1 .. Len(bs[i]) : a = bs[i][x] BY <1>2
    <3>1. PICK x \in 1 .. Len(bs[i]) : a = bs[i][x] BY <3>0
    <3>2. a \in Entries BY <1>2, <3>1
    <3>3. a.key \in Nat /\ lo.key \in Nat /\ hi.key \in Nat BY <2>4, <3>2, EntryTypes
    <3>4. a = lo \/ Prior(lo, a)
      <4>1. CASE i = 1
        <5>1. x = 1 \/ 1 < x BY <4>1, <2>2
        <5> QED BY <1>1, <2>1, <2>3, <3>1, <4>1, <5>1 DEF Blocked
      <4>2. CASE i # 1
        <5>1. 1 < i BY <2>1, <4>2
        <5> QED BY <1>1, <2>1, <2>3, <3>1, <5>1 DEF Blocked
      <4> QED BY <4>1, <4>2
    <3>5. a = hi \/ Prior(a, hi)
      <4>1. CASE i = N
        <5>1. x = M \/ x < M BY <4>1, <2>2
        <5> QED BY <1>1, <2>1, <2>3, <3>1, <4>1, <5>1 DEF Blocked
      <4>2. CASE i # N
        <5>1. i < N BY <2>1, <4>2
        <5> QED BY <1>1, <2>1, <2>3, <3>1, <5>1 DEF Blocked
      <4> QED BY <4>1, <4>2
    <3> HIDE DEF lo, hi
    <3> QED BY <3>3, <3>4, <3>5 DEF Prior
  <2> HIDE DEF lo, hi
  <2> QED BY <1>5, <2>4, <2>5, <2>6, <2>7 DEF bs
<1> QED BY <1>4, <1>5

\* A search of a block for key k, of which the x-th entry is the first.
LEMMA BlockFinds ==
  ASSUME NEW b \in Seq(Entries), NEW k
  PROVE  /\ \A e \in BlockSearch(b, k) : e \in ToSet(b) /\ e.key = k
         /\ \A x \in 1 .. Len(b) : b[x].key = k /\ (\A y \in 1 .. Len(b) : y < x => b[y].key # k) =>
              BlockSearch(b, k) = {b[x]}
<1> DEFINE hits == {i \in DOMAIN b : b[i].key = k}
<1>1. Len(b) \in Nat /\ DOMAIN b = 1 .. Len(b) BY LenProperties
<1>2. hits \subseteq Nat BY <1>1
<1>3. hits # {} => Min(hits) \in hits /\ \A y \in hits : Min(hits) <= y
  <2> HIDE DEF hits
  <2> QED BY <1>2, MinIs
<1>4. \A e \in BlockSearch(b, k) : e \in ToSet(b) /\ e.key = k
  <2> TAKE e \in BlockSearch(b, k)
  <2>1. hits # {} /\ e = b[Min(hits)] BY DEF BlockSearch
  <2> QED BY <1>3, <2>1 DEF ToSet
<1>5. ASSUME NEW x \in 1 .. Len(b), b[x].key = k, \A y \in 1 .. Len(b) : y < x => b[y].key # k
      PROVE  BlockSearch(b, k) = {b[x]}
  <2>1. x \in hits BY <1>1, <1>5
  <2>2. Min(hits) \in 1 .. Len(b) /\ b[Min(hits)].key = k /\ Min(hits) <= x BY <1>1, <1>3, <2>1
  <2>3. ~(Min(hits) < x) BY <1>5, <2>2
  <2>4. Min(hits) = x BY <1>1, <2>2, <2>3
  <2>5. BlockSearch(b, k) = {b[Min(hits)]} BY <2>1 DEF BlockSearch
  <2> QED BY <2>4, <2>5
<1> QED BY <1>4, <1>5

\* The newest of the entries es for key k.
Newest(es, e, k) == e \in es /\ e.key = k /\ \A f \in es : f.key = k => f.seq <= e.seq

\* The blocks that end with key k.
Ending(bs, k) == {b \in DOMAIN bs : LastKey(bs[b]) = k}

\* The index of bs leads to the block that has the newest entry of k.
LEMMA IndexLeads ==
  ASSUME NEW es \in Seq(Entries), NEW bs \in Seq(Seq(Entries)), Blocked(bs), Stream(bs) = es,
         \A i \in 1 .. Len(bs) : bs[i] # << >>,
         NEW k \in Keys, NEW e, Newest(ToSet(es), e, k)
  PROVE  \E i \in BlocksFor(bs, k) :
           /\ BlockSearch(bs[i], k) = {e}
           /\ BlocksFor(bs, k) # {i} => Cardinality(Ending(bs, k)) > 1
<1> DEFINE N == Len(bs)
           last(j) == bs[j][Len(bs[j])]
           equal == Ending(bs, k)
           larger == {j \in DOMAIN bs : LastKey(bs[j]) > k}
<1>1. /\ \A a \in ToSet(es) : \E i \in 1 .. N : \E x \in 1 .. Len(bs[i]) : a = bs[i][x]
      /\ \A i \in 1 .. N : \A x \in 1 .. Len(bs[i]) : bs[i][x] \in ToSet(es) /\ bs[i][x] \in Entries
  BY BlockElements
<1>2. N \in Nat /\ DOMAIN bs = 1 .. N BY LenProperties
<1>3. \A j \in 1 .. N : bs[j] \in Seq(Entries) /\ Len(bs[j]) \in Nat \ {0} /\ Len(bs[j]) \in 1 .. Len(bs[j])
  <2>1. \A j \in 1 .. N : bs[j] \in Seq(Entries) BY ElementOfSeq
  <2>2. \A j \in 1 .. N : Len(bs[j]) \in Nat \ {0} BY <2>1, EmptySeq
  <2> QED BY <2>1, <2>2
<1>0. PICK i \in 1 .. N : \E x \in 1 .. Len(bs[i]) : e = bs[i][x] BY <1>1 DEF Newest
<1>4. PICK x \in 1 .. Len(bs[i]) : e = bs[i][x] BY <1>0
<1>5. \A j \in 1 .. N : \A y \in 1 .. Len(bs[j]) :
        /\ bs[j][y].key \in Nat /\ bs[j][y].seq \in Nat
        /\ bs[j][y].key = k => bs[j][y].seq <= e.seq
  BY <1>1, EntryTypes DEF Newest
<1>6. k \in Nat /\ e.key = k /\ e.key \in Nat /\ e.seq \in Nat
  <2>1. e.key = k BY DEF Newest
  <2> QED BY <1>4, <1>5, <2>1
<1>7. ASSUME NEW j \in 1 .. N, NEW y \in 1 .. Len(bs[j]), j < i \/ (j = i /\ y < x) PROVE bs[j][y].key < k
  <2>1. Prior(bs[j][y], e) BY <1>4, <1>7 DEF Blocked
  <2> QED BY <1>5, <1>6, <2>1, SMTT(40) DEF Prior
<1>8. BlockSearch(bs[i], k) = {e}
  <2>1. \A y \in 1 .. Len(bs[i]) : y < x => bs[i][y].key # k BY <1>5, <1>6, <1>7
  <2> QED BY <1>3, <1>4, <1>6, <2>1, BlockFinds, ZenonT(60)
<1>9. \A j \in 1 .. N : LastKey(bs[j]) = last(j).key /\ last(j).key \in Nat BY <1>3, <1>5 DEF LastKey, Last
<1>10. \A j \in 1 .. N : j < i => LastKey(bs[j]) < k BY <1>3, <1>7, <1>9
<1>11. last(i).key >= k
  <2>1. Len(bs[i]) = x \/ x < Len(bs[i]) BY <1>3
  <2>2. last(i) = e \/ Prior(e, last(i)) BY <1>3, <1>4, <2>1 DEF Blocked
  <2> HIDE DEF last
  <2> QED BY <1>6, <1>9, <2>2 DEF Prior
<1>12. \A j \in 1 .. N : i < j => last(j).key >= last(i).key
  <2> TAKE j \in 1 .. N
  <2> HAVE i < j
  <2>1. Prior(last(i), last(j)) BY <1>3 DEF Blocked
  <2> HIDE DEF last
  <2> QED BY <1>9, <2>1 DEF Prior
<1> HIDE DEF last
<1>13. CASE LastKey(bs[i]) = k
  <2>1. i \in equal BY <1>2, <1>13 DEF Ending
  <2>2. BlocksFor(bs, k) = equal BY <2>1 DEF BlocksFor, Ending
  <2>3. ASSUME equal # {i} PROVE Cardinality(equal) > 1
    <3>1. PICK j \in equal : j # i BY <2>1, <2>3
    <3> HIDE DEF equal
    <3>2. IsFiniteSet(equal)
      <4>1. IsFiniteSet(1 .. N) BY <1>2, FS_Interval
      <4>2. equal \in SUBSET (1 .. N) BY <1>2 DEF equal, Ending
      <4> QED BY <4>1, <4>2, FS_Subset
    <3>3. Cardinality(equal) \in Nat BY <3>2, FS_CardinalityType
    <3>4. Cardinality(equal) # 0 BY <2>1, <3>2, FS_EmptySet
    <3>5. Cardinality(equal) # 1
      <4>1. SUFFICES ASSUME Cardinality(equal) = 1 PROVE FALSE OBVIOUS
      <4>2. PICK z : equal = {z} BY <3>2, <4>1, FS_Singleton
      <4> QED BY <2>1, <3>1, <4>2
    <3> QED BY <3>3, <3>4, <3>5
  <2> QED BY <1>8, <2>1, <2>2, <2>3
<1>14. CASE LastKey(bs[i]) # k
  <2>1. LastKey(bs[i]) > k BY <1>6, <1>9, <1>11, <1>14
  <2>2. ASSUME NEW j \in 1 .. N, i < j PROVE LastKey(bs[j]) > k
    <3>1. last(j).key >= last(i).key /\ last(i).key > k BY <1>9, <1>12, <2>1, <2>2
    <3>2. LastKey(bs[j]) = last(j).key /\ last(j).key \in Nat /\ last(i).key \in Nat BY <1>9
    <3> QED BY <1>6, <3>1, <3>2
  <2>3. \A j \in 1 .. N : j = i \/ j < i \/ i < j BY <1>2
  <2>4. equal = {}
    <3>1. \A j \in 1 .. N : LastKey(bs[j]) # k BY <1>6, <1>9, <1>10, <1>14, <2>2, <2>3
    <3> QED BY <1>2, <3>1 DEF Ending
  <2>5. i \in larger /\ larger \subseteq Nat /\ larger \subseteq 1 .. N BY <1>2, <2>1
  <2>6. \A j \in larger : i <= j
    <3>1. ASSUME NEW j \in 1 .. N, j < i PROVE ~(LastKey(bs[j]) > k)
      <4>1. LastKey(bs[j]) < k /\ LastKey(bs[j]) \in Nat BY <1>9, <1>10, <3>1
      <4> QED BY <1>6, <4>1
    <3> QED BY <1>2, <2>3, <3>1
  <2>7. Min(larger) \in larger /\ \A j \in larger : Min(larger) <= j
    <3> HIDE DEF larger
    <3> QED BY <2>5, MinIs
  <2>8. Min(larger) = i
    <3> HIDE DEF larger
    <3>1. i <= Min(larger) /\ Min(larger) <= i BY <2>5, <2>6, <2>7
    <3>2. i \in Nat /\ Min(larger) \in Nat BY <2>5, <2>7
    <3> QED BY <3>1, <3>2
  <2>9. BlocksFor(bs, k) = {i} BY <2>4, <2>5, <2>8 DEF BlocksFor, Ending
  <2> QED BY <1>8, <2>9
<1> QED BY <1>13, <1>14

\* SSTableReader::get on a table with the entries es: it returns entries of the
\* key, the newest among them, and no other unless versions of the key end
\* several blocks.
THEOREM TableFinds ==
  ASSUME NEW es \in Seq(Entries), Ascending(es), NEW k \in Keys
  PROVE  LET bs == WriteTable(es)
             G == TableGet(bs, WriteFilter(es), k)
         IN  /\ \A g \in G : g \in ToSet(es) /\ g.key = k
             /\ \A e : Newest(ToSet(es), e, k) =>
                  e \in G /\ (G = {e} \/ Cardinality(Ending(bs, k)) > 1)
<1> DEFINE bs == WriteTable(es)
           keys == [i \in DOMAIN es |-> es[i].key]
           G == TableGet(bs, WriteFilter(es), k)
<1>1. /\ bs \in Seq(Seq(Entries)) /\ Blocked(bs) /\ Stream(bs) = es
      /\ \A i \in 1 .. Len(bs) : bs[i] # << >>
  BY TableWritten
<1> HIDE DEF bs
<1>2. DOMAIN bs = 1 .. Len(bs) /\ \A i \in 1 .. Len(bs) : bs[i] \in Seq(Entries) BY <1>1, LenProperties, ElementOfSeq
<1>3. BlocksFor(bs, k) \subseteq 1 .. Len(bs)
  <2> DEFINE larger == {j \in DOMAIN bs : LastKey(bs[j]) > k}
  <2>1. larger # {} => Min(larger) \in larger
    <3>1. larger \subseteq Nat BY <1>1, <1>2, LenProperties
    <3> HIDE DEF larger
    <3> QED BY <3>1, MinIs
  <2> QED BY <1>2, <2>1 DEF BlocksFor
<1>4. ASSUME NEW g \in G PROVE g \in ToSet(es) /\ g.key = k
  <2>1. PICK i \in BlocksFor(bs, k) : g \in BlockSearch(bs[i], k) BY <1>4 DEF TableGet
  <2>2. bs[i] \in Seq(Entries) /\ i \in 1 .. Len(bs) BY <1>2, <1>3
  <2>3. g \in ToSet(bs[i]) /\ g.key = k BY <2>1, <2>2, BlockFinds
  <2>4. PICK x \in 1 .. Len(bs[i]) : g = bs[i][x] BY <2>2, <2>3, LenProperties DEF ToSet
  <2> QED BY <1>1, <2>2, <2>3, <2>4, BlockElements
<1>5. ASSUME NEW e, Newest(ToSet(es), e, k)
      PROVE  e \in G /\ (G = {e} \/ Cardinality(Ending(bs, k)) > 1)
  <2>1. Len(es) \in Nat /\ DOMAIN es = 1 .. Len(es) /\ \A j \in 1 .. Len(es) : es[j] \in Entries
    BY LenProperties, ElementOfSeq
  <2>2. PICK p \in 1 .. Len(es) : es[p] = e BY <1>5, <2>1 DEF Newest, ToSet
  <2>3. keys \in Seq(DOMAIN hash64) /\ Len(keys) = Len(es) /\ keys[p] = k
    <3>1. \A j \in 1 .. Len(es) : es[j].key \in DOMAIN hash64 BY <2>1, EntryTypes, HashedAssumption DEF Keys
    <3>2. keys = [j \in 1 .. Len(es) |-> es[j].key] BY <2>1
    <3>3. keys \in [1 .. Len(es) -> DOMAIN hash64] BY <3>1, <3>2
    <3> QED BY <1>5, <2>1, <2>2, <3>2, <3>3 DEF Newest
  <2> HIDE DEF keys
  <2>4. DOMAIN Build(keys) # {} /\ MayContain(Build(keys), keys[p]) BY <2>2, <2>3, FilterKeepsKeys
  <2>5. WriteFilter(es) = Build(keys) BY DEF WriteFilter, keys
  <2>6. G = UNION {BlockSearch(bs[i], k) : i \in BlocksFor(bs, k)} BY <2>3, <2>4, <2>5 DEF TableGet
  <2>7. PICK i \in BlocksFor(bs, k) :
           /\ BlockSearch(bs[i], k) = {e}
           /\ BlocksFor(bs, k) # {i} => Cardinality(Ending(bs, k)) > 1
    BY ONLY es \in Seq(Entries), k \in Keys, <1>1, <1>5, IndexLeads, ZenonT(60)
  <2> HIDE DEF G
  <2>8. e \in G BY <2>6, <2>7
  <2>9. BlocksFor(bs, k) = {i} => G = {e} BY <2>6, <2>7
  <2> QED BY <2>7, <2>8, <2>9
<1> QED BY <1>4, <1>5 DEF bs

-----------------------------------------------------------------------------
(* The entries of a memtable *)

\* Blocks in order make a sequence in order.
LEMMA FlattenAscending ==
  \A bs \in Seq(Seq(Entries)) : Blocked(bs) => Ascending(FlattenSeq(bs))
<1> DEFINE T == {bs \in Seq(Seq(Entries)) : Blocked(bs) => Ascending(FlattenSeq(bs))}
<1>1. << >> \in T
  <2>1. << >> \in Seq(Seq(Entries)) BY EmptySeq
  <2>2. Ascending(<< >>)
    <3>1. Len(<< >>) = 0 /\ 1 .. 0 = {} OBVIOUS
    <3> QED BY <3>1 DEF Ascending
  <2> QED BY <2>1, <2>2, FlattenEmpty
<1>2. ASSUME NEW bs \in Seq(Seq(Entries)), NEW b \in Seq(Entries), bs \in T PROVE Append(bs, b) \in T
  <2> DEFINE new == Append(bs, b)
             s == FlattenSeq(bs)
             N == Len(bs)
             L == Len(s)
             M == Len(b)
  <2>1. N \in Nat /\ new \in Seq(Seq(Entries)) /\ Len(new) = N + 1 /\ (\A i \in 1 .. N : new[i] = bs[i]) /\ new[N + 1] = b
    BY AppendProperties, LenProperties
  <2>2. SUFFICES ASSUME Blocked(new) PROVE Ascending(FlattenSeq(new)) BY <2>1
  <2>3. FlattenSeq(new) = s \o b BY FlattenAppend
  <2>4. s \in Seq(Entries) /\ ToSet(s) = UNION {ToSet(c) : c \in ToSet(bs)} BY FlattenElements
  <2> HIDE DEF new, s
  <2>5. \A i \in 1 .. N : i \in 1 .. N + 1 BY <2>1
  <2>6. Blocked(bs) BY <2>1, <2>2, <2>5 DEF Blocked
  <2>7. Ascending(s) BY <1>2, <2>6 DEF s
  <2>8. L \in Nat /\ M \in Nat /\ DOMAIN s = 1 .. L BY <2>4, LenProperties
  <2>9. Len(s \o b) = L + M /\ \A i \in 1 .. L + M : (s \o b)[i] = IF i <= L THEN s[i] ELSE b[i - L]
    BY <2>4, ConcatProperties
  <2>10. ASSUME NEW i \in 1 .. L, NEW y \in 1 .. M PROVE Prior(s[i], b[y])
    <3>1. s[i] \in ToSet(s) BY <2>8 DEF ToSet
    <3>2. Stream(bs) = s BY DEF Stream, s
    <3>3. PICK p \in 1 .. N : \E x \in 1 .. Len(bs[p]) : s[i] = bs[p][x] BY <2>4, <3>1, <3>2, BlockElements
    <3>4. PICK x \in 1 .. Len(bs[p]) : s[i] = bs[p][x] BY <3>3
    <3>5. p \in 1 .. N + 1 /\ N + 1 \in 1 .. N + 1 /\ p < N + 1 BY <2>1
    <3> QED BY <2>1, <2>2, <3>4, <3>5, ZenonT(60) DEF Blocked
  <2>11. ASSUME NEW x \in 1 .. M, NEW y \in 1 .. M, x < y PROVE Prior(b[x], b[y])
    <3>1. N + 1 \in 1 .. N + 1 BY <2>1
    <3> QED BY <2>1, <2>2, <2>11, <3>1 DEF Blocked
  <2>12. ASSUME NEW i \in 1 .. L + M, NEW j \in 1 .. L + M, i < j PROVE Prior((s \o b)[i], (s \o b)[j])
    <3>1. CASE j <= L
      <4>1. i \in 1 .. L /\ j \in 1 .. L /\ i <= L BY <2>8, <2>12, <3>1
      <4>2. (s \o b)[i] = s[i] /\ (s \o b)[j] = s[j] BY <2>9, <3>1, <4>1
      <4> QED BY <2>7, <2>12, <4>1, <4>2 DEF Ascending
    <3>2. CASE i <= L /\ ~(j <= L)
      <4>1. i \in 1 .. L /\ j - L \in 1 .. M BY <2>8, <3>2
      <4>2. (s \o b)[i] = s[i] /\ (s \o b)[j] = b[j - L] BY <2>9, <3>2
      <4> QED BY <2>10, <4>1, <4>2
    <3>3. CASE ~(i <= L)
      <4>1. i - L \in 1 .. M /\ j - L \in 1 .. M /\ i - L < j - L /\ ~(j <= L) BY <2>8, <2>12, <3>3
      <4>2. (s \o b)[i] = b[i - L] /\ (s \o b)[j] = b[j - L] BY <2>9, <3>3, <4>1
      <4> QED BY <2>11, <4>1, <4>2
    <3> QED BY <3>1, <3>2, <3>3
  <2> QED BY <2>3, <2>9, <2>12 DEF Ascending
<1> HIDE DEF T
<1>3. \A bs \in Seq(Seq(Entries)) : bs \in T BY <1>1, <1>2, AppendInduction
<1> QED BY <1>3 DEF T

\* The numbers of the n-th memtable.
LEMMA Numbers ==
  ASSUME NEW n \in 1 .. MaxTables
  PROVE  /\ MaxVersions * (n - 1) \in Nat /\ MaxVersions * n \in Nat \ {0} /\ MaxVersions * MaxTables \in Nat
         /\ MaxVersions * n = MaxVersions * (n - 1) + MaxVersions
         /\ MaxVersions * n <= MaxVersions * MaxTables
<1>1. \A x, y \in Nat : x * y \in Nat OBVIOUS
<1>2. MaxVersions \in Nat \ {0} /\ MaxTables \in Nat /\ n - 1 \in Nat /\ n \in Nat /\ MaxTables - n \in Nat
  BY VersionsAssumption, TablesAssumption
<1>3. MaxVersions * (n - 1) \in Nat /\ MaxVersions * n \in Nat /\ MaxVersions * MaxTables \in Nat
      /\ MaxVersions * (MaxTables - n) \in Nat
  BY <1>1, <1>2
<1>4. \A x, y, z \in Int : x * (y + z) = x * y + x * z OBVIOUS
<1>5. MaxVersions * n = MaxVersions * (n - 1) + MaxVersions * 1
  <2>1. (n - 1) + 1 = n /\ n - 1 \in Int /\ 1 \in Int /\ MaxVersions \in Int BY <1>2
  <2>2. MaxVersions * ((n - 1) + 1) = MaxVersions * (n - 1) + MaxVersions * 1 BY <1>4, <2>1
  <2> QED BY <2>1, <2>2
<1>6. MaxVersions * MaxTables = MaxVersions * n + MaxVersions * (MaxTables - n)
  <2>1. n + (MaxTables - n) = MaxTables /\ n \in Int /\ MaxTables - n \in Int /\ MaxVersions \in Int BY <1>2
  <2>2. MaxVersions * (n + (MaxTables - n)) = MaxVersions * n + MaxVersions * (MaxTables - n) BY <1>4, <2>1
  <2> QED BY <2>1, <2>2
<1>7. MaxVersions * 1 = MaxVersions BY <1>2
<1> QED BY <1>2, <1>3, <1>5, <1>6, <1>7

\* The n-th memtable is written in order; its numbers are its own, and the newest
\* entry of a key is its last write.
LEMMA MemtableWritten ==
  ASSUME NEW h \in Memtables, NEW n \in 1 .. MaxTables
  PROVE  LET es == MemtableEntries(h, n)
         IN  /\ es \in Seq(Entries) /\ Ascending(es) /\ es # << >>
             /\ \A e \in ToSet(es) : MaxVersions * (n - 1) < e.seq /\ e.seq <= MaxVersions * n
             /\ \A k \in Keys :
                  /\ h[k] = << >> => \A e \in ToSet(es) : e.key # k
                  /\ h[k] # << >> => Newest(ToSet(es), Entry(k, MaxVersions * n, h[k][1] = "del"), k)
<1> DEFINE V == MaxVersions * n
           row(k) == [i \in 1 .. Len(h[k]) |-> Entry(k, V + 1 - i, h[k][i] = "del")]
           rows == [k \in Keys |-> row(k)]
           es == FlattenSeq(rows)
<1>1. /\ MaxVersions * (n - 1) \in Nat /\ V \in Nat \ {0} /\ MaxVersions * MaxTables \in Nat
      /\ V = MaxVersions * (n - 1) + MaxVersions /\ V <= MaxVersions * MaxTables
  BY Numbers
<1>2. MaxVersions \in Nat /\ MaxKey \in Nat \ {0} BY VersionsAssumption, KeysAssumption
<1>3. \A k \in Keys : h[k] \in Seq({"put", "del"}) /\ Len(h[k]) \in Nat /\ Len(h[k]) <= MaxVersions
  <2>1. h \in [1 .. MaxKey -> Seq({"put", "del"})] /\ \A k \in 1 .. MaxKey : Len(h[k]) <= MaxVersions
    BY MemtablesAssumption
  <2> QED BY <2>1, LenProperties DEF Keys
<1> HIDE DEF V
<1>4. ASSUME NEW k \in Keys, NEW i \in 1 .. Len(h[k])
      PROVE  /\ Entry(k, V + 1 - i, h[k][i] = "del") \in Entries
             /\ MaxVersions * (n - 1) < V + 1 - i /\ V + 1 - i <= V
  <2>1. i <= MaxVersions /\ i >= 1 /\ i \in Nat BY <1>2, <1>3
  <2>2. MaxVersions * (n - 1) < V + 1 - i /\ V + 1 - i <= V BY <1>1, <1>2, <2>1
  <2>3. V + 1 - i \in 1 .. MaxVersions * MaxTables BY <1>1, <2>1, <2>2
  <2> QED BY <2>2, <2>3 DEF Entry, Entries
<1>5. \A k \in Keys : row(k) \in Seq(Entries) /\ Len(row(k)) = Len(h[k])
  <2> TAKE k \in Keys
  <2>1. row(k) \in [1 .. Len(h[k]) -> Entries] BY <1>4
  <2> QED BY <1>3, <2>1
<1>6. rows \in Seq(Seq(Entries)) /\ Len(rows) = MaxKey /\ \A k \in Keys : rows[k] = row(k)
  <2>1. rows \in [1 .. MaxKey -> Seq(Entries)] BY <1>5 DEF Keys
  <2> HIDE DEF row
  <2> QED BY <1>2, <2>1 DEF Keys
<1>0. /\ 1 .. Len(rows) = Keys
      /\ \A k \in Keys : Len(rows[k]) = Len(h[k])
      /\ \A k \in Keys : \A i \in 1 .. Len(h[k]) : rows[k][i] = Entry(k, V + 1 - i, h[k][i] = "del")
  <2>1. \A k \in Keys : \A i \in 1 .. Len(h[k]) : row(k)[i] = Entry(k, V + 1 - i, h[k][i] = "del") OBVIOUS
  <2> HIDE DEF row, rows
  <2> QED BY <1>5, <1>6, <2>1, SMTT(40) DEF Keys
<1> HIDE DEF rows, row
<1>7. Blocked(rows)
  <2>1. ASSUME NEW k \in Keys, NEW l \in Keys, NEW x \in 1 .. Len(rows[k]), NEW y \in 1 .. Len(rows[l]),
               k < l \/ (k = l /\ x < y)
        PROVE  Prior(rows[k][x], rows[l][y])
    <3>1. x \in 1 .. Len(h[k]) /\ y \in 1 .. Len(h[l]) BY <1>0
    <3>2. /\ rows[k][x] = Entry(k, V + 1 - x, h[k][x] = "del")
          /\ rows[l][y] = Entry(l, V + 1 - y, h[l][y] = "del")
      BY <1>0, <3>1
    <3>3. /\ rows[k][x].key = k /\ rows[k][x].seq = V + 1 - x
          /\ rows[l][y].key = l /\ rows[l][y].seq = V + 1 - y
      BY <3>2 DEF Entry
    <3>4. x \in Nat /\ y \in Nat /\ V \in Nat BY <1>1, <1>3, <3>1
    <3>5. x < y => V + 1 - x > V + 1 - y BY <3>4
    <3> QED BY <2>1, <3>3, <3>5 DEF Prior
  <2> QED BY <1>0, <2>1 DEF Blocked
<1>8. es \in Seq(Entries) /\ ToSet(es) = UNION {ToSet(b) : b \in ToSet(rows)} BY <1>6, FlattenElements
<1>9. Ascending(es) BY <1>6, <1>7, FlattenAscending
<1> HIDE DEF es
<1>10. /\ \A e \in ToSet(es) : \E k \in Keys : \E i \in 1 .. Len(h[k]) : e = Entry(k, V + 1 - i, h[k][i] = "del")
       /\ \A k \in Keys : \A i \in 1 .. Len(h[k]) : Entry(k, V + 1 - i, h[k][i] = "del") \in ToSet(es)
  <2>1. Stream(rows) = es BY DEF Stream, es
  <2>2. /\ \A e \in ToSet(es) : \E i \in 1 .. Len(rows) : \E x \in 1 .. Len(rows[i]) : e = rows[i][x]
        /\ \A i \in 1 .. Len(rows) : \A x \in 1 .. Len(rows[i]) : rows[i][x] \in ToSet(es) /\ rows[i][x] \in Entries
    BY <1>6, <1>8, <2>1, BlockElements
  <2>3. ASSUME NEW e \in ToSet(es)
        PROVE  \E k \in Keys : \E i \in 1 .. Len(h[k]) : e = Entry(k, V + 1 - i, h[k][i] = "del")
    <3>1. PICK k \in Keys : \E i \in 1 .. Len(rows[k]) : e = rows[k][i] BY <1>0, <2>2
    <3>2. PICK i \in 1 .. Len(h[k]) : e = rows[k][i] BY <1>0, <3>1
    <3>3. e = Entry(k, V + 1 - i, h[k][i] = "del") BY <1>0, <3>2
    <3> QED BY <3>3
  <2>4. ASSUME NEW k \in Keys, NEW i \in 1 .. Len(h[k]) PROVE Entry(k, V + 1 - i, h[k][i] = "del") \in ToSet(es)
    <3>1. rows[k][i] \in ToSet(es) BY <1>0, <2>2
    <3> QED BY <1>0, <3>1
  <2> QED BY <2>3, <2>4
<1>11. \A e \in ToSet(es) : MaxVersions * (n - 1) < e.seq /\ e.seq <= V
  <2> TAKE e \in ToSet(es)
  <2>1. PICK k \in Keys : \E i \in 1 .. Len(h[k]) : e = Entry(k, V + 1 - i, h[k][i] = "del") BY <1>10
  <2>2. PICK i \in 1 .. Len(h[k]) : e = Entry(k, V + 1 - i, h[k][i] = "del") BY <2>1
  <2>3. e.seq = V + 1 - i BY <2>2 DEF Entry
  <2> QED BY <1>4, <2>3
<1>12. ASSUME NEW k \in Keys, h[k] = << >> PROVE \A e \in ToSet(es) : e.key # k
  <2>1. Len(h[k]) = 0 /\ 1 .. 0 = {} BY <1>12
  <2> SUFFICES ASSUME NEW e \in ToSet(es), e.key = k PROVE FALSE OBVIOUS
  <2>2. PICK l \in Keys : \E i \in 1 .. Len(h[l]) : e = Entry(l, V + 1 - i, h[l][i] = "del") BY <1>10
  <2>3. e.key = l BY <2>2 DEF Entry
  <2> QED BY <2>1, <2>2, <2>3
<1>13. ASSUME NEW k \in Keys, h[k] # << >> PROVE Newest(ToSet(es), Entry(k, V, h[k][1] = "del"), k)
  <2>1. 1 \in 1 .. Len(h[k]) /\ V + 1 - 1 = V
    <3>1. Len(h[k]) \in Nat \ {0} BY <1>3, <1>13, EmptySeq
    <3> QED BY <1>1, <3>1
  <2>2. Entry(k, V + 1 - 1, h[k][1] = "del") \in ToSet(es) BY <1>10, <2>1
  <2>3. Entry(k, V, h[k][1] = "del") \in ToSet(es) BY <2>1, <2>2
  <2>4. Entry(k, V, h[k][1] = "del").key = k /\ Entry(k, V, h[k][1] = "del").seq = V BY DEF Entry
  <2> QED BY <1>11, <2>3, <2>4 DEF Newest
<1>14. es # << >>
  <2>1. PICK k \in Keys : h[k] # << >> BY MemtablesAssumption DEF Keys
  <2>2. ToSet(es) # {} BY <1>13, <2>1 DEF Newest
  <2>3. ToSet(<< >>) = {} BY DEF ToSet
  <2> QED BY <2>2, <2>3
<1>15. MemtableEntries(h, n) = es BY DEF MemtableEntries, es, rows, row, V
<1> QED BY <1>8, <1>9, <1>11, <1>12, <1>13, <1>14, <1>15 DEF V

-----------------------------------------------------------------------------
(* The merge *)

\* ins are sorted sequences of entries, finitely many; two entries of a key with
\* the same number are the same.
Mergeable(ins) ==
  /\ IsFiniteSet(DOMAIN ins)
  /\ \A i \in DOMAIN ins : ins[i] \in Seq(Entries) /\ Ascending(ins[i])
  /\ \A i, j \in DOMAIN ins : \A e \in ToSet(ins[i]), f \in ToSet(ins[j]) :
       e.key = f.key /\ e.seq = f.seq => e = f

\* The turns of the loop, the places still to be read, and the entries there.
Turns(ins) == [DOMAIN ins -> Nat \ {0}] \X Nat
Unread(ins, at) == {z \in (DOMAIN ins) \X Nat : at[z[1]] <= z[2] /\ z[2] <= Len(ins[z[1]])}
Remaining(ins, at) == {ins[z[1]][z[2]] : z \in Unread(ins, at)}
Steps(ins, at) == Cardinality(Unread(ins, at))

LEMMA UnreadIs ==
  ASSUME NEW ins, NEW at
  PROVE  /\ \A y \in Unread(ins, at) :
              /\ y[1] \in DOMAIN ins /\ y[2] \in Nat /\ y = <<y[1], y[2]>> /\ y \in (DOMAIN ins) \X Nat
              /\ at[y[1]] <= y[2] /\ y[2] <= Len(ins[y[1]])
         /\ \A i \in DOMAIN ins, p \in Nat :
              at[i] <= p /\ p <= Len(ins[i]) => <<i, p>> \in Unread(ins, at)
<1> DEFINE D == DOMAIN ins
           U == {z \in D \X Nat : at[z[1]] <= z[2] /\ z[2] <= Len(ins[z[1]])}
<1>1. Unread(ins, at) = U BY DEF Unread
<1> HIDE DEF D
<1>2. ASSUME NEW y \in U
      PROVE  /\ y[1] \in D /\ y[2] \in Nat /\ y = <<y[1], y[2]>> /\ y \in D \X Nat
             /\ at[y[1]] <= y[2] /\ y[2] <= Len(ins[y[1]])
  <2>1. y \in D \X Nat /\ at[y[1]] <= y[2] /\ y[2] <= Len(ins[y[1]]) OBVIOUS
  <2> HIDE DEF U
  <2> QED BY <2>1
<1>3. ASSUME NEW i \in D, NEW p \in Nat, at[i] <= p, p <= Len(ins[i])
      PROVE  <<i, p>> \in U
  <2> DEFINE y == <<i, p>>
  <2>1. y \in D \X Nat /\ y[1] = i /\ y[2] = p OBVIOUS
  <2> HIDE DEF y
  <2>2. y \in U BY <1>3, <2>1
  <2> QED BY <2>2 DEF y
<1> HIDE DEF U
<1> QED BY <1>1, <1>2, <1>3 DEF D

LEMMA UnreadFinite ==
  ASSUME NEW ins, Mergeable(ins), NEW at \in [DOMAIN ins -> Nat \ {0}]
  PROVE  IsFiniteSet(Unread(ins, at)) /\ Steps(ins, at) \in Nat
<1> DEFINE D == DOMAIN ins
           P(i) == 1 .. Len(ins[i])
           U == UNION {P(i) : i \in D}
<1>1. IsFiniteSet(D) BY DEF Mergeable
<1>2. \A i \in D : Len(ins[i]) \in Nat BY LenProperties DEF Mergeable
<1>3. IsFiniteSet({P(i) : i \in D})
  <2> DEFINE R == {P(i) : i \in D}
             f == [i \in D |-> P(i)]
  <2>1. f \in Surjection(D, R) BY DEF Surjection
  <2> HIDE DEF f, R, D
  <2> QED BY <1>1, <2>1, FS_Surjection DEF R
<1>4. \A T \in {P(i) : i \in D} : IsFiniteSet(T)
  <2>1. \A i \in D : IsFiniteSet(P(i)) BY <1>2, FS_Interval
  <2> QED BY <2>1
<1>5. IsFiniteSet(U)
  <2> DEFINE R == {P(i) : i \in D}
  <2>1. IsFiniteSet(R) /\ \A T \in R : IsFiniteSet(T) BY <1>3, <1>4
  <2> HIDE DEF R
  <2>2. IsFiniteSet(UNION R) BY <2>1, FS_UNION
  <2> QED BY <2>2 DEF R
<1>6. IsFiniteSet(D \X U)
  <2> HIDE DEF D, U
  <2> QED BY <1>1, <1>5, FS_Product
<1>7. Unread(ins, at) \subseteq D \X U
  <2> SUFFICES ASSUME NEW z \in Unread(ins, at) PROVE z \in D \X U OBVIOUS
  <2>1. z \in D \X Nat /\ at[z[1]] <= z[2] /\ z[2] <= Len(ins[z[1]]) BY DEF Unread
  <2>2. z[1] \in D /\ z[2] \in Nat /\ at[z[1]] \in Nat \ {0} /\ z = <<z[1], z[2]>> BY <2>1
  <2>3. z[2] \in P(z[1]) BY <1>2, <2>1, <2>2
  <2>4. z[2] \in U BY <2>2, <2>3
  <2> HIDE DEF U
  <2> QED BY <2>2, <2>4
<1> HIDE DEF U, D
<1>8. IsFiniteSet(Unread(ins, at)) BY <1>6, <1>7, FS_Subset
<1> QED BY <1>8, FS_CardinalityType DEF Steps

\* The heap returns an entry before which no other comes.
LEMMA SourceFirst ==
  ASSUME NEW ins, Mergeable(ins), NEW at \in [DOMAIN ins -> Nat \ {0}], Heap(ins, at) # {}
  PROVE  /\ Source(ins, at) \in Heap(ins, at)
         /\ \A j \in Heap(ins, at) :
              Before(ins[Source(ins, at)][at[Source(ins, at)]], ins[j][at[j]])
<1> DEFINE H == Heap(ins, at)
           head(i) == ins[i][at[i]]
           V == MaxVersions * MaxTables
<1>1. \A i \in H : head(i) \in Entries
  <2> TAKE i \in H
  <2>1. i \in DOMAIN ins /\ at[i] <= Len(ins[i]) BY DEF Heap
  <2>2. ins[i] \in Seq(Entries) /\ at[i] \in Nat \ {0} BY <2>1 DEF Mergeable
  <2>3. at[i] \in 1 .. Len(ins[i]) BY <2>1, <2>2, LenProperties
  <2> QED BY <2>2, <2>3, ElementOfSeq
<1>2. \A i \in H : head(i).key \in Nat /\ head(i).seq \in 0 .. V /\ V \in Nat
  <2>1. V \in Nat
    <3>1. \A x, y \in Nat : x * y \in Nat OBVIOUS
    <3> QED BY <3>1, VersionsAssumption, TablesAssumption
  <2>2. \A x \in 1 .. V : x \in 0 .. V BY <2>1
  <2>3. \A e \in Entries : e.seq \in 1 .. V BY DEF Entries
  <2> HIDE DEF V, head
  <2> QED BY <1>1, <2>1, <2>2, <2>3, EntryTypes
<1> HIDE DEF H, head, V
<1> DEFINE K == {head(i).key : i \in H}
           Q == {head(i).seq : i \in {j \in H : head(j).key = Min(K)}}
<1>3. K \subseteq Nat /\ K # {} BY <1>2 DEF H
<1>4. Min(K) \in K /\ \A y \in K : Min(K) <= y
  <2> HIDE DEF K
  <2> QED BY <1>3, MinIs
<1>5. Q \subseteq 0 .. V /\ Q # {} /\ V \in Nat BY <1>2, <1>4
<1>6. Max(Q) \in Q /\ \A y \in Q : y <= Max(Q)
  <2> HIDE DEF Q
  <2> QED BY <1>5, MaxIs
<1>7. PICK i \in H : head(i).key = Min(K) /\ head(i).seq = Max(Q) BY <1>6
<1>8. ASSUME NEW j \in H PROVE Before(head(i), head(j))
  <2>1. head(i).key <= head(j).key BY <1>4, <1>7
  <2>2. head(j).key = head(i).key => head(j).seq <= head(i).seq BY <1>6, <1>7
  <2>3. head(i).key \in Nat /\ head(j).key \in Nat /\ head(i).seq \in Nat /\ head(j).seq \in Nat BY <1>2
  <2> QED BY <2>1, <2>2, <2>3 DEF Before
<1> QED BY <1>7, <1>8 DEF Source, H, head

\* What one turn does to what is left, for the source s.
LEMMA TurnReads ==
  ASSUME NEW ins, Mergeable(ins), NEW at \in [DOMAIN ins -> Nat \ {0}], Heap(ins, at) # {},
         NEW s, s = Source(ins, at)
  PROVE  LET top == ins[s][at[s]]
             to == [at EXCEPT ![s] = @ + 1]
         IN  /\ to \in [DOMAIN ins -> Nat \ {0}] /\ top \in Entries
             /\ Steps(ins, to) < Steps(ins, at)
             /\ Remaining(ins, at) = Remaining(ins, to) \cup {top}
             /\ \A e \in Remaining(ins, at) : Before(top, e)
<1> DEFINE top == ins[s][at[s]]
           to == [at EXCEPT ![s] = @ + 1]
           z == <<s, at[s]>>
<1>1. s \in Heap(ins, at) /\ \A j \in Heap(ins, at) : Before(top, ins[j][at[j]]) BY SourceFirst
<1>2. s \in DOMAIN ins /\ at[s] <= Len(ins[s]) /\ at[s] \in Nat \ {0} BY <1>1 DEF Heap
<1>3. \A i \in DOMAIN ins : ins[i] \in Seq(Entries) /\ Len(ins[i]) \in Nat /\ Ascending(ins[i])
  BY LenProperties DEF Mergeable
<1>4. at[s] \in 1 .. Len(ins[s]) BY <1>2, <1>3
<1>5. top \in Entries BY <1>2, <1>3, <1>4, ElementOfSeq
<1>6. to \in [DOMAIN ins -> Nat \ {0}] /\ to[s] = at[s] + 1 /\ \A i \in DOMAIN ins : i # s => to[i] = at[i]
  BY <1>2
<1>7. z \in Unread(ins, at) BY <1>2 DEF Unread
<1>8. Unread(ins, to) = Unread(ins, at) \ {z}
  <2>1. ASSUME NEW y \in (DOMAIN ins) \X Nat
        PROVE  to[y[1]] <= y[2] <=> at[y[1]] <= y[2] /\ y # z
    <3>1. y[1] \in DOMAIN ins /\ y[2] \in Nat /\ y = <<y[1], y[2]>> BY <2>1
    <3>2. CASE y[1] = s
      <4>1. y # z <=> y[2] # at[s] BY <3>1, <3>2
      <4> HIDE DEF to, z
      <4> QED BY <1>2, <1>6, <3>1, <3>2, <4>1
    <3>3. CASE y[1] # s
      <4>1. y # z BY <3>1, <3>3
      <4>2. to[y[1]] = at[y[1]] BY <1>6, <3>1, <3>3
      <4> QED BY <4>1, <4>2
    <3> QED BY <3>2, <3>3
  <2> HIDE DEF to, z
  <2> QED BY <2>1 DEF Unread
<1>9. Steps(ins, to) < Steps(ins, at)
  <2>1. IsFiniteSet(Unread(ins, at)) /\ Steps(ins, at) \in Nat BY UnreadFinite
  <2> HIDE DEF to, z
  <2>2. Cardinality(Unread(ins, at) \ {z}) = Cardinality(Unread(ins, at)) - 1
    BY <1>7, <2>1, FS_RemoveElement
  <2> QED BY <1>8, <2>1, <2>2 DEF Steps
<1>10. Remaining(ins, at) = Remaining(ins, to) \cup {top}
  <2>1. ins[z[1]][z[2]] = top OBVIOUS
  <2> HIDE DEF to, z, top
  <2>2. Unread(ins, at) = Unread(ins, to) \cup {z} BY <1>7, <1>8
  <2> QED BY <2>1, <2>2 DEF Remaining
<1>11. ASSUME NEW e \in Remaining(ins, at) PROVE Before(top, e)
  <2>1. PICK y \in Unread(ins, at) : e = ins[y[1]][y[2]] BY DEF Remaining
  <2> DEFINE i == y[1]
             p == y[2]
             f == ins[i][at[i]]
  <2>2. i \in DOMAIN ins /\ p \in Nat /\ at[i] <= p /\ p <= Len(ins[i]) /\ at[i] \in Nat \ {0} BY DEF Unread
  <2>3. at[i] <= Len(ins[i]) BY <1>3, <2>2
  <2>4. Before(top, f) BY <1>1, <2>2, <2>3 DEF Heap
  <2>5. p \in 1 .. Len(ins[i]) /\ at[i] \in 1 .. Len(ins[i]) BY <1>3, <2>2, <2>3
  <2>6. f \in Entries /\ e \in Entries BY <1>3, <2>1, <2>2, <2>5, ElementOfSeq
  <2>7. f = e \/ Prior(f, e)
    <3>1. p = at[i] \/ at[i] < p BY <2>2
    <3> QED BY <1>3, <2>1, <2>2, <2>5, <3>1 DEF Ascending
  <2>8. /\ top.key \in Nat /\ top.seq \in Nat /\ f.key \in Nat /\ f.seq \in Nat
        /\ e.key \in Nat /\ e.seq \in Nat
    BY <1>5, <2>6, EntryTypes
  <2> HIDE DEF top, f
  <2> QED BY <2>4, <2>7, <2>8 DEF Before, Prior
<1> QED BY <1>5, <1>6, <1>9, <1>10, <1>11

\* The merge is what its definition says: every turn leaves less to read, so
\* that there is such a function.
LEMMA MergeIs ==
  ASSUME NEW ins, Mergeable(ins), NEW bottom
  PROVE  MergeFrom(ins, bottom) = [x \in Turns(ins) |-> MergeTurn(ins, bottom, MergeFrom(ins, bottom), x)]
<1> DEFINE Near(m) == {x \in Turns(ins) : Steps(ins, x[1]) < m}
           Is(f, m) == f = [x \in Near(m) |-> MergeTurn(ins, bottom, f, x)]
           T == {m \in Nat : \E f : Is(f, m)}
<1>1. \A x \in Turns(ins) : x[1] \in [DOMAIN ins -> Nat \ {0}] /\ Steps(ins, x[1]) \in Nat /\ x[2] \in Nat
  BY UnreadFinite DEF Turns
\* Functions that agree on the turns nearer to the end make the same of x.
<1>2. ASSUME NEW f, NEW g, NEW x \in Turns(ins),
             \A y \in Turns(ins) : Steps(ins, y[1]) < Steps(ins, x[1]) => f[y] = g[y]
      PROVE  MergeTurn(ins, bottom, f, x) = MergeTurn(ins, bottom, g, x)
  <2>1. CASE Heap(ins, x[1]) = {} BY <2>1 DEF MergeTurn
  <2>2. CASE Heap(ins, x[1]) # {}
    <3> DEFINE s == Source(ins, x[1])
               top == ins[s][x[1][s]]
               y == <<[x[1] EXCEPT ![s] = @ + 1], top.key>>
    <3>1. /\ [x[1] EXCEPT ![s] = @ + 1] \in [DOMAIN ins -> Nat \ {0}] /\ top \in Entries
          /\ Steps(ins, [x[1] EXCEPT ![s] = @ + 1]) < Steps(ins, x[1])
      BY <1>1, <2>2, TurnReads
    <3>2. top.key \in Nat BY <3>1, EntryTypes
    <3>3. y \in Turns(ins) /\ Steps(ins, y[1]) < Steps(ins, x[1]) BY <3>1, <3>2 DEF Turns
    <3>4. f[y] = g[y] BY <1>2, <3>3
    <3> QED BY <2>2, <3>4 DEF MergeTurn
  <2> QED BY <2>1, <2>2
<1>3. 0 \in T
  <2>1. Near(0) = {} BY <1>1
  <2>2. Is([x \in Near(0) |-> << >>], 0) BY <2>1
  <2> HIDE DEF Is
  <2> QED BY <2>2
<1>4. ASSUME NEW m \in Nat, m \in T PROVE m + 1 \in T
  <2>1. PICK f : Is(f, m) BY <1>4
  <2> DEFINE g == [x \in Near(m + 1) |-> MergeTurn(ins, bottom, f, x)]
  <2>2. \A x \in Near(m) : x \in Near(m + 1) BY <1>1
  <2>3. \A x \in Near(m) : g[x] = f[x] BY <2>1, <2>2
  <2> HIDE DEF g
  <2>4. ASSUME NEW x \in Near(m + 1) PROVE MergeTurn(ins, bottom, f, x) = MergeTurn(ins, bottom, g, x)
    <3>1. ASSUME NEW y \in Turns(ins), Steps(ins, y[1]) < Steps(ins, x[1]) PROVE f[y] = g[y]
      <4>1. Steps(ins, y[1]) < m BY <1>1, <3>1
      <4> QED BY <2>3, <4>1
    <3>2. x \in Turns(ins) OBVIOUS
    <3> QED BY <1>2, <3>1, <3>2
  <2>5. Is(g, m + 1)
    <3>1. g = [x \in Near(m + 1) |-> MergeTurn(ins, bottom, f, x)] BY DEF g
    <3> HIDE DEF Near
    <3> QED BY <2>4, <3>1
  <2> HIDE DEF Is
  <2> QED BY <2>5
<1>5. \A m \in Nat : \E f : Is(f, m)
  <2>1. \A m \in Nat : m \in T
    <3> HIDE DEF T
    <3> QED BY <1>3, <1>4, StepInduction
  <2> HIDE DEF Is
  <2> QED BY <2>1
\* The function near the end of every turn, put together.
<1> DEFINE F(m) == CHOOSE f : Is(f, m)
           M == [x \in Turns(ins) |-> F(Steps(ins, x[1]) + 1)[x]]
<1>6. \A m \in Nat : Is(F(m), m)
  <2> HIDE DEF Is
  <2> QED BY <1>5
<1> HIDE DEF F
<1>7. \A m \in Nat : \A x \in Near(m) : F(m)[x] = MergeTurn(ins, bottom, F(m), x) BY <1>6
<1>8. \A m \in Nat : \A k \in Nat : k <= m => \A x \in Near(k) : F(k)[x] = F(m)[x]
  <2> DEFINE W == {n \in Nat : \A k, m \in Nat : k <= m => \A x \in Near(k) : Steps(ins, x[1]) = n => F(k)[x] = F(m)[x]}
  <2>1. ASSUME NEW n \in Nat, \A i \in 0 .. n - 1 : i \in W PROVE n \in W
    <3> SUFFICES ASSUME NEW k \in Nat, NEW m \in Nat, k <= m, NEW x \in Near(k), Steps(ins, x[1]) = n
                 PROVE  F(k)[x] = F(m)[x]
      OBVIOUS
    <3>1. x \in Near(m) BY <1>1
    <3>2. ASSUME NEW y \in Turns(ins), Steps(ins, y[1]) < Steps(ins, x[1]) PROVE F(k)[y] = F(m)[y]
      <4>1. Steps(ins, y[1]) \in 0 .. n - 1 BY <1>1, <3>2
      <4>2. y \in Near(k) BY <1>1, <3>2
      <4> QED BY <2>1, <4>1, <4>2
    <3>3. MergeTurn(ins, bottom, F(k), x) = MergeTurn(ins, bottom, F(m), x) BY <1>2, <3>2
    <3> QED BY <1>7, <3>1, <3>3
  <2>2. \A n \in Nat : n \in W
    <3> HIDE DEF W
    <3> QED BY <2>1, Induction
  <2> TAKE m \in Nat
  <2> TAKE k \in Nat
  <2> HAVE k <= m
  <2> TAKE x \in Near(k)
  <2>3. Steps(ins, x[1]) \in W BY <1>1, <2>2
  <2> QED BY <2>3
<1>9. ASSUME NEW x \in Turns(ins) PROVE M[x] = MergeTurn(ins, bottom, M, x)
  <2> DEFINE m == Steps(ins, x[1]) + 1
  <2>1. m \in Nat /\ x \in Near(m) BY <1>1
  <2>2. M[x] = MergeTurn(ins, bottom, F(m), x) BY <1>7, <2>1
  <2>3. ASSUME NEW y \in Turns(ins), Steps(ins, y[1]) < Steps(ins, x[1]) PROVE F(m)[y] = M[y]
    <3> DEFINE k == Steps(ins, y[1]) + 1
    <3>1. k \in Nat /\ k <= m /\ y \in Near(k) BY <1>1, <2>3
    <3>2. F(k)[y] = F(m)[y] BY <1>8, <2>1, <3>1
    <3> QED BY <3>2
  <2>4. MergeTurn(ins, bottom, F(m), x) = MergeTurn(ins, bottom, M, x) BY <1>2, <2>3
  <2> QED BY <2>2, <2>4
<1>10. M = [x \in Turns(ins) |-> MergeTurn(ins, bottom, M, x)]
  <2>1. M = [x \in Turns(ins) |-> M[x]] OBVIOUS
  <2> HIDE DEF M
  <2> QED BY <1>9, <2>1
<1>11. MergeFrom(ins, bottom) =
         CHOOSE f : f = [x \in [DOMAIN ins -> Nat \ {0}] \X Nat |-> MergeTurn(ins, bottom, f, x)]
  BY DEF MergeFrom
<1> HIDE DEF M
<1> QED BY <1>10, <1>11 DEF Turns

\* What the merge for the bottom level keeps of the entries left, es: the newest
\* of each key, unless it is a tombstone or its key was handled last.
Kept(es, last) == {e \in es : e.key # last /\ ~e.del /\ Newest(es, e, e.key)}

Rising(es) == \A i, j \in 1 .. Len(es) : i < j => es[i].key < es[j].key

LEMMA TurnKeeps ==
  ASSUME NEW es \in SUBSET Entries, NEW top \in Entries, NEW R \in SUBSET Entries, R = es \cup {top},
         \A e \in R : Before(top, e),
         \A e, f \in R : e.key = f.key /\ e.seq = f.seq => e = f,
         NEW last \in Nat, \A e \in R : last <= e.key
  PROVE  /\ top.key = last \/ top.del => Kept(R, last) = Kept(es, top.key)
         /\ ~(top.key = last \/ top.del) => Kept(R, last) = Kept(es, top.key) \cup {top}
<1>1. \A e \in R : e.key \in Nat /\ e.seq \in Nat /\ top.key \in Nat /\ top.seq \in Nat BY EntryTypes
<1>2. \A e \in R : top.key <= e.key /\ (e.key = top.key => e.seq <= top.seq) BY <1>1 DEF Before
<1>3. ASSUME NEW e \in R, e.key = top.key, Newest(R, e, e.key) PROVE e = top
  <2>1. top.seq <= e.seq BY <1>3 DEF Newest
  <2>2. e.seq = top.seq BY <1>1, <1>2, <1>3, <2>1
  <2> QED BY <1>3, <2>2
<1>4. Newest(R, top, top.key) BY <1>2 DEF Newest
<1>5. ASSUME NEW e \in R, e.key # top.key PROVE e \in es /\ (Newest(R, e, e.key) <=> Newest(es, e, e.key))
  BY <1>5 DEF Newest
<1>6. CASE top.key = last
  <2>1. \A e \in R : e \in Kept(R, last) <=> e \in Kept(es, top.key) BY <1>5, <1>6 DEF Kept
  <2> QED BY <1>6, <2>1 DEF Kept
<1>7. CASE top.key # last
  <2>1. \A e \in R : e.key # last BY <1>1, <1>2, <1>7
  <2>2. ASSUME NEW e \in R PROVE e \in Kept(R, last) <=> e \in Kept(es, top.key) \/ (e = top /\ ~top.del)
    <3>1. CASE e.key = top.key
      <4>1. e \notin Kept(es, top.key) BY <3>1 DEF Kept
      <4>2. e \in Kept(R, last) <=> ~e.del /\ Newest(R, e, e.key) BY <2>1 DEF Kept
      <4> QED BY <1>3, <1>4, <3>1, <4>1, <4>2
    <3>2. CASE e.key # top.key BY <1>5, <2>1, <3>2 DEF Kept
    <3> QED BY <3>1, <3>2
  <2>3. Kept(R, last) \subseteq R /\ Kept(es, top.key) \subseteq R /\ top \in R BY DEF Kept
  <2>4. CASE top.del BY <1>7, <2>2, <2>3, <2>4
  <2>5. CASE ~top.del BY <1>7, <2>2, <2>3, <2>5
  <2> QED BY <2>4, <2>5
<1> QED BY <1>6, <1>7

\* What the merge writes from a turn on, if what is left is at or after the key
\* handled last.
Merges(es, last, out) == out \in Seq(Entries) /\ Rising(out) /\ ToSet(out) = Kept(es, last)

LEMMA MergeRest ==
  ASSUME NEW ins, Mergeable(ins)
  PROVE  \A x \in Turns(ins) : (\A e \in Remaining(ins, x[1]) : x[2] <= e.key) =>
           Merges(Remaining(ins, x[1]), x[2], MergeFrom(ins, TRUE)[x])
<1> DEFINE M == MergeFrom(ins, TRUE)
           T == {n \in Nat : \A x \in Turns(ins) :
                   Steps(ins, x[1]) = n /\ (\A e \in Remaining(ins, x[1]) : x[2] <= e.key) =>
                     Merges(Remaining(ins, x[1]), x[2], M[x])}
<1>1. \A x \in Turns(ins) : x[1] \in [DOMAIN ins -> Nat \ {0}] /\ Steps(ins, x[1]) \in Nat /\ x[2] \in Nat
  BY UnreadFinite DEF Turns
<1>2. \A x \in Turns(ins) : M[x] = MergeTurn(ins, TRUE, M, x)
  <2>1. M = [x \in Turns(ins) |-> MergeTurn(ins, TRUE, M, x)] BY MergeIs
  <2> HIDE DEF M
  <2> QED BY <2>1
<1> HIDE DEF M
<1>3. ASSUME NEW at \in [DOMAIN ins -> Nat \ {0}], NEW e \in Remaining(ins, at)
      PROVE  e \in Entries /\ \E i \in DOMAIN ins : e \in ToSet(ins[i]) /\ Heap(ins, at) # {}
  <2>1. PICK y \in Unread(ins, at) : e = ins[y[1]][y[2]] BY DEF Remaining
  <2>2. y[1] \in DOMAIN ins /\ y[2] \in Nat /\ at[y[1]] <= y[2] /\ y[2] <= Len(ins[y[1]]) BY UnreadIs
  <2>3. ins[y[1]] \in Seq(Entries) /\ at[y[1]] \in Nat \ {0} /\ Len(ins[y[1]]) \in Nat
    BY <2>2, LenProperties DEF Mergeable
  <2>4. y[2] \in 1 .. Len(ins[y[1]]) /\ at[y[1]] <= Len(ins[y[1]]) BY <2>2, <2>3
  <2>5. e \in Entries /\ e \in ToSet(ins[y[1]]) BY <2>1, <2>3, <2>4, ElementOfSeq, LenProperties DEF ToSet
  <2> QED BY <2>2, <2>4, <2>5 DEF Heap
<1>4. ASSUME NEW n \in Nat, \A m \in 0 .. n - 1 : m \in T PROVE n \in T
  <2> SUFFICES ASSUME NEW x \in Turns(ins), Steps(ins, x[1]) = n, \A e \in Remaining(ins, x[1]) : x[2] <= e.key
               PROVE  Merges(Remaining(ins, x[1]), x[2], M[x])
    OBVIOUS
  <2>1. CASE Heap(ins, x[1]) = {}
    <3>1. Remaining(ins, x[1]) = {} BY <1>1, <1>3, <2>1
    <3>2. M[x] = << >> BY <1>2, <2>1 DEF MergeTurn
    <3>3. Len(<< >>) = 0 /\ << >> \in Seq(Entries) /\ ToSet(<< >>) = {} /\ 1 .. 0 = {} BY EmptySeq DEF ToSet
    <3> QED BY <3>1, <3>2, <3>3 DEF Merges, Rising, Kept
  <2>2. CASE Heap(ins, x[1]) # {}
    <3> DEFINE at == x[1]
               s == Source(ins, at)
               top == ins[s][at[s]]
               to == [at EXCEPT ![s] = @ + 1]
               y == <<to, top.key>>
               R == Remaining(ins, at)
               es == Remaining(ins, to)
               out == M[y]
    <3>1. /\ to \in [DOMAIN ins -> Nat \ {0}] /\ top \in Entries /\ Steps(ins, to) < Steps(ins, at)
          /\ R = es \cup {top} /\ \A e \in R : Before(top, e)
      BY <1>1, <2>2, TurnReads
    <3>2. M[x] = IF top.key = x[2] \/ top.del THEN out ELSE <<top>> \o out
      <4>1. M[x] = MergeTurn(ins, TRUE, M, x) BY <1>2
      <4> QED BY <2>2, <4>1 DEF MergeTurn
    <3> HIDE DEF s, top, to, out
    <3>3. top.key \in Nat /\ y \in Turns(ins) /\ y[1] = to /\ y[2] = top.key BY <3>1, EntryTypes DEF Turns
    <3>4. R \in SUBSET Entries /\ es \in SUBSET Entries BY <1>1, <1>3, <3>1
    <3>5. \A e \in es : top.key <= e.key
      <4>1. \A e \in es : e.key \in Nat BY <3>4, EntryTypes
      <4> QED BY <3>1, <3>3, <4>1 DEF Before
    <3>6. Merges(es, top.key, out)
      <4>1. Steps(ins, to) \in 0 .. n - 1 BY <1>1, <3>1, <3>3
      <4>2. Steps(ins, to) \in T BY <1>4, <4>1
      <4> QED BY <3>3, <3>5, <4>2 DEF out
    <3>7. \A e, f \in R : e.key = f.key /\ e.seq = f.seq => e = f
      BY <1>1, <1>3 DEF Mergeable
    <3>8. /\ top.key = x[2] \/ top.del => Kept(R, x[2]) = Kept(es, top.key)
          /\ ~(top.key = x[2] \/ top.del) => Kept(R, x[2]) = Kept(es, top.key) \cup {top}
      <4> DEFINE last == x[2]
      <4>1. last \in Nat /\ \A e \in R : last <= e.key BY <1>1
      <4>2. R = es \cup {top} /\ top \in Entries /\ \A e \in R : Before(top, e) BY <3>1
      <4> HIDE DEF last, R, es, T
      <4>3. /\ top.key = last \/ top.del => Kept(R, last) = Kept(es, top.key)
            /\ ~(top.key = last \/ top.del) => Kept(R, last) = Kept(es, top.key) \cup {top}
        BY ONLY <3>4, <3>7, <4>1, <4>2, TurnKeeps
      <4> QED BY <4>3 DEF last
    <3> HIDE DEF R, es
    <3>9. CASE top.key = x[2] \/ top.del BY <3>2, <3>6, <3>8, <3>9 DEF Merges, R
    <3>10. CASE ~(top.key = x[2] \/ top.del)
      <4>1. M[x] = <<top>> \o out BY <3>2, <3>10
      <4>2. out \in Seq(Entries) /\ Rising(out) /\ ToSet(out) = Kept(es, top.key) BY <3>6 DEF Merges
      <4>3. <<top>> \in Seq(Entries) /\ Len(<<top>>) = 1 /\ <<top>>[1] = top /\ ToSet(<<top>>) = {top}
        BY <3>1 DEF ToSet
      <4>4. <<top>> \o out \in Seq(Entries) BY <4>2, <4>3, ConcatProperties
      <4>5. ToSet(<<top>> \o out) = Kept(R, x[2])
        <5> DEFINE u == <<top>>
        <5>1. u \in Seq(Entries) /\ ToSet(u) = {top} BY <4>3
        <5> HIDE DEF u
        <5>2. ToSet(u \o out) = ToSet(u) \cup ToSet(out) BY <4>2, <5>1, ToSetConcat
        <5> QED BY <3>8, <3>10, <4>2, <5>1, <5>2 DEF u
      <4>6. Rising(<<top>> \o out)
        <5> DEFINE t == <<top>> \o out
        <5>1. Len(out) \in Nat /\ Len(t) = Len(out) + 1 /\ t[1] = top
              /\ \A i \in 2 .. Len(out) + 1 : t[i] = out[i - 1]
          BY <4>2, <4>3, ConcatProperties, LenProperties
        <5>2. \A i \in 1 .. Len(out) : top.key < out[i].key
          <6> TAKE i \in 1 .. Len(out)
          <6>1. out[i] \in ToSet(out) BY <4>2, LenProperties DEF ToSet
          <6>2. out[i] \in es /\ out[i].key # top.key BY <4>2, <6>1 DEF Kept
          <6>3. out[i].key \in Nat BY <3>4, <6>2, EntryTypes
          <6> QED BY <3>3, <3>5, <6>2, <6>3
        <5> HIDE DEF t
        <5>3. ASSUME NEW i \in 1 .. Len(t), NEW j \in 1 .. Len(t), i < j PROVE t[i].key < t[j].key
          <6>1. j \in 2 .. Len(out) + 1 /\ j - 1 \in 1 .. Len(out) BY <5>1, <5>3
          <6>2. CASE i = 1 BY <5>1, <5>2, <6>1, <6>2
          <6>3. CASE i # 1
            <7>1. i \in 2 .. Len(out) + 1 /\ i - 1 \in 1 .. Len(out) /\ i - 1 < j - 1 BY <5>1, <5>3, <6>3
            <7> QED BY <4>2, <5>1, <6>1, <7>1 DEF Rising
          <6> QED BY <6>2, <6>3
        <5> QED BY <5>3 DEF Rising, t
      <4> QED BY <4>1, <4>4, <4>5, <4>6 DEF Merges, R
    <3> QED BY <3>9, <3>10
  <2> QED BY <2>1, <2>2
<1>5. \A n \in Nat : n \in T
  <2> HIDE DEF T
  <2> QED BY <1>4, Induction
<1> TAKE x \in Turns(ins)
<1>6. Steps(ins, x[1]) \in T BY <1>1, <1>5
<1> QED BY <1>6 DEF M

\* The merge into the bottom level keeps the newest version of every key, in key
\* order, unless that is a tombstone, and nothing else.
THEOREM MergeKeepsNewest ==
  ASSUME NEW ins, Mergeable(ins)
  PROVE  LET out == KWayMerge(ins, TRUE)
             es == UNION {ToSet(ins[i]) : i \in DOMAIN ins}
         IN  /\ out \in Seq(Entries) /\ Rising(out)
             /\ ToSet(out) = {e \in es : ~e.del /\ Newest(es, e, e.key)}
<1> DEFINE at == [i \in DOMAIN ins |-> 1]
           x == <<at, NoKey>>
           es == UNION {ToSet(ins[i]) : i \in DOMAIN ins}
<1>1. at \in [DOMAIN ins -> Nat \ {0}] /\ x \in Turns(ins) /\ x[1] = at /\ x[2] = 0 BY DEF Turns, NoKey
<1>2. KWayMerge(ins, TRUE) = MergeFrom(ins, TRUE)[x] BY DEF KWayMerge
<1>3. \A i \in DOMAIN ins : ins[i] \in Seq(Entries) /\ Len(ins[i]) \in Nat /\ DOMAIN ins[i] = 1 .. Len(ins[i])
  BY LenProperties DEF Mergeable
<1>4. \A i \in DOMAIN ins : at[i] = 1 OBVIOUS
<1> HIDE DEF at, x
<1>5. Remaining(ins, at) = es
  <2>1. ASSUME NEW e \in Remaining(ins, at) PROVE e \in es
    <3>1. PICK y \in Unread(ins, at) : e = ins[y[1]][y[2]] BY DEF Remaining
    <3>2. y[1] \in DOMAIN ins /\ y[2] \in Nat /\ at[y[1]] <= y[2] /\ y[2] <= Len(ins[y[1]]) BY UnreadIs
    <3>3. y[2] \in 1 .. Len(ins[y[1]]) BY <1>3, <1>4, <3>2
    <3>4. e \in ToSet(ins[y[1]]) BY <1>3, <3>1, <3>2, <3>3 DEF ToSet
    <3> QED BY <3>2, <3>4
  <2>2. ASSUME NEW i \in DOMAIN ins, NEW e \in ToSet(ins[i]) PROVE e \in Remaining(ins, at)
    <3>1. PICK p \in 1 .. Len(ins[i]) : e = ins[i][p] BY <1>3 DEF ToSet
    <3>2. p \in Nat /\ at[i] <= p /\ p <= Len(ins[i]) BY <1>3, <1>4
    <3>3. <<i, p>> \in Unread(ins, at) BY <3>2, UnreadIs
    <3>4. <<i, p>>[1] = i /\ <<i, p>>[2] = p OBVIOUS
    <3> QED BY <3>1, <3>3, <3>4 DEF Remaining
  <2> QED BY <2>1, <2>2
<1>6. es \subseteq Entries
  <2>1. ASSUME NEW i \in DOMAIN ins, NEW e \in ToSet(ins[i]) PROVE e \in Entries
    <3>1. PICK p \in 1 .. Len(ins[i]) : e = ins[i][p] BY <1>3 DEF ToSet
    <3> QED BY <1>3, <3>1, ElementOfSeq
  <2> QED BY <2>1
<1> HIDE DEF es
<1>7. \A e \in es : e.key \in Nat \ {0} BY <1>6, EntryTypes
<1>8. Merges(es, 0, KWayMerge(ins, TRUE))
  <2>1. \A e \in Remaining(ins, x[1]) : x[2] <= e.key BY <1>1, <1>5, <1>7
  <2>2. Merges(Remaining(ins, x[1]), x[2], MergeFrom(ins, TRUE)[x]) BY <1>1, <2>1, MergeRest
  <2> QED BY <1>1, <1>2, <1>5, <2>2
<1>9. Kept(es, 0) = {e \in es : ~e.del /\ Newest(es, e, e.key)} BY <1>7 DEF Kept
<1> QED BY <1>8, <1>9 DEF Merges, es
-----------------------------------------------------------------------------
(* L1 in order *)

\* Tables whose ids, at most B, tell them apart.
Apart(S, B) ==
  /\ IsFiniteSet(S)
  /\ \A m \in S : m.smallest \in 0 .. MaxKey /\ m.id \in 0 .. B
  /\ \A m, n \in S : m.id = n.id => m = n

Sorts(s, S) ==
  ToSet(s) = S /\ \A i, j \in DOMAIN s : i < j => BySmallest(s[i], s[j])

LEMMA OneIsLast ==
  ASSUME NEW B \in Nat, NEW S, Apart(S, B), S # {}
  PROVE  \E m \in S : \A n \in S : BySmallest(n, m)
<1> DEFINE K == {m.smallest : m \in S}
           Q == {m.id : m \in {n \in S : n.smallest = Max(K)}}
<1>1. MaxKey \in Nat BY KeysAssumption
<1>2. K \subseteq 0 .. MaxKey /\ K # {} BY DEF Apart
<1>3. Max(K) \in K /\ \A y \in K : y <= Max(K)
  <2> HIDE DEF K
  <2> QED BY <1>1, <1>2, MaxIs
<1>4. Q \subseteq 0 .. B /\ Q # {}
  <2>1. PICK m \in S : m.smallest = Max(K) BY <1>3
  <2>2. m.id \in Q BY <2>1
  <2>3. \A x \in S : x.id \in 0 .. B BY DEF Apart
  <2> QED BY <2>2, <2>3
<1>5. Max(Q) \in Q /\ \A y \in Q : y <= Max(Q)
  <2> HIDE DEF Q
  <2> QED BY <1>4, MaxIs
<1>6. PICK m \in S : m.smallest = Max(K) /\ m.id = Max(Q) BY <1>5
<1>7. ASSUME NEW n \in S PROVE BySmallest(n, m)
  <2>1. n.smallest <= m.smallest BY <1>3, <1>6
  <2>2. n.smallest = m.smallest => n.id <= m.id BY <1>5, <1>6
  <2>3. n.smallest \in Nat /\ m.smallest \in Nat BY DEF Apart
  <2> QED BY <2>1, <2>2, <2>3 DEF BySmallest
<1> QED BY <1>7

LEMMA OrderExists ==
  ASSUME NEW B \in Nat, NEW W, Apart(W, B)
  PROVE  \E s \in [1 .. Cardinality(W) -> W] : Sorts(s, W)
<1> DEFINE T == {n \in Nat : \A S \in SUBSET W : Cardinality(S) = n => \E s \in [1 .. n -> S] : Sorts(s, S)}
<1>1. \A S \in SUBSET W : Apart(S, B)
  <2>1. \A S \in SUBSET W : IsFiniteSet(S) BY FS_Subset DEF Apart
  <2> QED BY <2>1 DEF Apart
<1>2. 0 \in T
  <2> SUFFICES ASSUME NEW S \in SUBSET W, Cardinality(S) = 0 PROVE \E s \in [1 .. 0 -> S] : Sorts(s, S) OBVIOUS
  <2>1. S = {} BY <1>1, FS_EmptySet DEF Apart
  <2>2. << >> \in [1 .. 0 -> S] /\ DOMAIN << >> = {} /\ ToSet(<< >>) = {} BY DEF ToSet
  <2>3. Sorts(<< >>, S) BY <2>1, <2>2 DEF Sorts
  <2> QED BY <2>2, <2>3
<1>3. ASSUME NEW n \in Nat, n \in T PROVE n + 1 \in T
  <2> SUFFICES ASSUME NEW S \in SUBSET W, Cardinality(S) = n + 1
               PROVE  \E s \in [1 .. n + 1 -> S] : Sorts(s, S)
    OBVIOUS
  <2>1. IsFiniteSet(S) /\ S # {} BY <1>1, FS_EmptySet DEF Apart
  <2>2. PICK m \in S : \A o \in S : BySmallest(o, m) BY <1>1, <2>1, OneIsLast
  <2>3. Cardinality(S \ {m}) = n BY <2>1, FS_RemoveElement
  <2>4. S \ {m} \in SUBSET W OBVIOUS
  <2>5. PICK r \in [1 .. n -> S \ {m}] : Sorts(r, S \ {m}) BY <1>3, <2>3, <2>4
  <2> DEFINE s == [i \in 1 .. n + 1 |-> IF i = n + 1 THEN m ELSE r[i]]
  <2>6. \A i \in 1 .. n : i \in 1 .. n + 1 /\ s[i] = r[i] /\ r[i] \in S OBVIOUS
  <2>7. n + 1 \in 1 .. n + 1 /\ s[n + 1] = m OBVIOUS
  <2>8. \A i \in 1 .. n + 1 : i \in 1 .. n \/ i = n + 1 OBVIOUS
  <2>9. DOMAIN s = 1 .. n + 1 /\ DOMAIN r = 1 .. n OBVIOUS
  <2>10. s \in [1 .. n + 1 -> S]
    <3>1. \A i \in 1 .. n + 1 : s[i] \in S BY <2>6, <2>7, <2>8
    <3>2. s = [i \in 1 .. n + 1 |-> s[i]] OBVIOUS
    <3> HIDE DEF s
    <3> QED BY <3>1, <3>2
  <2> HIDE DEF s
  <2>11. ToSet(s) = S
    <3>1. ToSet(r) = S \ {m} BY <2>5 DEF Sorts
    <3>2. \A x \in S \ {m} : \E i \in 1 .. n : x = r[i] BY <2>9, <3>1 DEF ToSet
    <3>3. ASSUME NEW x \in S PROVE x \in ToSet(s)
      <4>1. CASE x = m BY <2>7, <2>9, <4>1 DEF ToSet
      <4>2. CASE x # m
        <5>1. PICK i \in 1 .. n : x = r[i] BY <3>2, <4>2
        <5> QED BY <2>6, <2>9, <5>1 DEF ToSet
      <4> QED BY <4>1, <4>2
    <3>4. \A x \in ToSet(s) : x \in S BY <2>9, <2>10 DEF ToSet
    <3> QED BY <3>3, <3>4
  <2>12. ASSUME NEW i \in 1 .. n + 1, NEW j \in 1 .. n + 1, i < j PROVE BySmallest(s[i], s[j])
    <3>1. i \in 1 .. n BY <2>12
    <3>2. CASE j = n + 1 BY <2>2, <2>6, <2>7, <3>1, <3>2
    <3>3. CASE j \in 1 .. n BY <2>5, <2>6, <2>9, <2>12, <3>1, <3>3 DEF Sorts
    <3> QED BY <2>8, <3>2, <3>3
  <2> QED BY <2>9, <2>10, <2>11, <2>12 DEF Sorts
<1>4. \A n \in Nat : n \in T
  <2> HIDE DEF T
  <2> QED BY <1>2, <1>3, StepInduction
<1>5. Cardinality(W) \in Nat /\ W \in SUBSET W BY FS_CardinalityType DEF Apart
<1> QED BY <1>4, <1>5

\* sort_by leaves the same tables, each once, in the order of their first keys.
LEMMA InOrderSorts ==
  ASSUME NEW B \in Nat, NEW S, Apart(S, B)
  PROVE  LET s == InOrder(S)
         IN  /\ s \in Seq(S) /\ ToSet(s) = S
             /\ \A i, j \in 1 .. Len(s) : i < j => BySmallest(s[i], s[j]) /\ s[i] # s[j]
<1> DEFINE s == InOrder(S)
           N == Cardinality(S)
<1>1. IsFiniteSet(S) /\ N \in Nat BY FS_CardinalityType DEF Apart
<1>2. s = CHOOSE r \in [1 .. N -> S] : Sorts(r, S) BY DEF InOrder, Sorts
<1>3. s \in [1 .. N -> S] /\ Sorts(s, S)
  <2> HIDE DEF s, N
  <2>1. \E r \in [1 .. N -> S] : Sorts(r, S) BY OrderExists DEF N
  <2> QED BY <1>2, <2>1
<1> HIDE DEF s, N
<1>4. s \in Seq(S) /\ DOMAIN s = 1 .. N /\ Len(s) = N BY <1>1, <1>3
<1>5. s \in Surjection(1 .. N, S) BY <1>3, <1>4 DEF Sorts, ToSet, Surjection
<1>6. IsFiniteSet(1 .. N) /\ Cardinality(1 .. N) = N
  <2>1. IsFiniteSet(1 .. N) /\ Cardinality(1 .. N) = IF 1 > N THEN 0 ELSE N - 1 + 1 BY <1>1, FS_Interval
  <2> QED BY <1>1, <2>1
<1>7. s \in Injection(1 .. N, S) BY <1>5, <1>6, FS_SurjSameCardinalityImpliesInj DEF N
<1>8. \A i, j \in 1 .. N : i # j => s[i] # s[j] BY <1>7 DEF Injection, IsInjective
<1>9. \A i, j \in 1 .. N : i < j => i # j BY <1>1
<1> QED BY <1>3, <1>4, <1>8, <1>9 DEF Sorts, s
-----------------------------------------------------------------------------
(* Tables and the entries they hold *)

AllTables == {Table(id, es) : id \in Nat, es \in {s \in Seq(Entries) : Ascending(s)}}

Holds(t) == ToSet(Stream(t.blocks))
Held(S) == UNION {Holds(t) : t \in S}

Unique(es) == \A e, f \in es : e.key = f.key /\ e.seq = f.seq => e = f

\* The newest entries in es are what a reader should see.
Shows(es, seen) ==
  \A k \in Keys : /\ seen[k] # Nothing => Newest(es, Entry(k, seen[k], FALSE), k)
                  /\ seen[k] = Nothing => \A e \in es : Newest(es, e, k) => e.del

LEMMA TableIs ==
  ASSUME NEW id \in Nat, NEW es \in Seq(Entries), Ascending(es)
  PROVE  LET t == Table(id, es)
         IN  /\ t \in AllTables /\ t.id = id /\ t.blocks = WriteTable(es) /\ t.filter = WriteFilter(es)
             /\ t.smallest = Smallest(t.blocks) /\ t.largest = Largest(t.blocks)
             /\ Stream(t.blocks) = es /\ Holds(t) = ToSet(es)
<1> DEFINE t == Table(id, es)
<1>1. t \in AllTables BY DEF AllTables
<1>2. /\ t.id = id /\ t.blocks = WriteTable(es) /\ t.filter = WriteFilter(es)
      /\ t.smallest = Smallest(t.blocks) /\ t.largest = Largest(t.blocks)
  BY DEF Table
<1> HIDE DEF t
<1>3. Stream(t.blocks) = es BY <1>2, TableWritten
<1> QED BY <1>1, <1>2, <1>3 DEF t, Holds

LEMMA TableFacts ==
  ASSUME NEW t \in AllTables
  PROVE  /\ t.id \in Nat /\ t.blocks \in Seq(Seq(Entries))
         /\ t.smallest \in Keys /\ t.largest \in Keys
         /\ t.smallest \in 0 .. MaxKey /\ t.largest \in 0 .. MaxKey /\ t.smallest <= t.largest
         /\ Stream(t.blocks) \in Seq(Entries) /\ Ascending(Stream(t.blocks)) /\ Holds(t) \subseteq Entries
         /\ Holds(t) = {} => t.blocks = << >> /\ t.smallest = 1 /\ t.largest = 1
         /\ t.blocks = << >> => Holds(t) = {}
         /\ t.smallest >= 1
         /\ \A e \in Holds(t) : t.smallest <= e.key /\ e.key <= t.largest
<1>1. PICK id \in Nat, es \in {s \in Seq(Entries) : Ascending(s)} : t = Table(id, es) BY DEF AllTables
<1>2. es \in Seq(Entries) /\ Ascending(es) OBVIOUS
<1>3. /\ t.id = id /\ t.blocks = WriteTable(es) /\ t.smallest = Smallest(t.blocks) /\ t.largest = Largest(t.blocks)
      /\ Stream(t.blocks) = es /\ Holds(t) = ToSet(es)
  BY <1>1, <1>2, TableIs
<1>4. t.blocks \in Seq(Seq(Entries)) BY <1>2, <1>3, TableWritten
<1>5. /\ es = << >> => t.blocks = << >> /\ t.smallest = 1 /\ t.largest = 1
      /\ es # << >> => t.blocks # << >> /\ ToSet(es) # {}
      /\ es # << >> => (\E a \in ToSet(es) : t.smallest = a.key) /\ (\E a \in ToSet(es) : t.largest = a.key)
      /\ \A a \in ToSet(es) : t.smallest <= a.key /\ a.key <= t.largest
  BY <1>2, <1>3, TableBounds
<1>6. ToSet(es) \subseteq Entries
  <2>1. DOMAIN es = 1 .. Len(es) BY <1>2, LenProperties
  <2> QED BY <1>2, <2>1, ElementOfSeq DEF ToSet
<1>7. \A a \in ToSet(es) : a.key \in 1 .. MaxKey /\ MaxKey \in Nat
  BY <1>6, EntryTypes, KeysAssumption DEF Keys
<1>8. CASE es = << >>
  <2>1. ToSet(es) = {} BY <1>8 DEF ToSet
  <2>2. t.smallest = 1 /\ t.largest = 1 /\ 1 \in 0 .. MaxKey /\ 1 \in Keys BY <1>5, <1>8, KeysAssumption DEF Keys
  <2> QED BY <1>2, <1>3, <1>4, <1>5, <1>6, <1>8, <2>1, <2>2
<1>9. CASE es # << >>
  <2>1. PICK a \in ToSet(es) : t.smallest = a.key BY <1>5, <1>9
  <2>2. PICK b \in ToSet(es) : t.largest = b.key BY <1>5, <1>9
  <2>3. t.smallest <= t.largest BY <1>5, <2>2
  <2>4. t.smallest \in 0 .. MaxKey /\ t.largest \in 0 .. MaxKey /\ t.smallest >= 1 /\ t.smallest \in Keys /\ t.largest \in Keys
    BY <1>7, <2>1, <2>2 DEF Keys
  <2> QED BY <1>2, <1>3, <1>4, <1>5, <1>6, <1>9, <2>3, <2>4
<1> QED BY <1>8, <1>9

LEMMA TableAnswers ==
  ASSUME NEW t \in AllTables, NEW k \in Keys
  PROVE  LET G == TableGet(t.blocks, t.filter, k)
         IN  /\ \A g \in G : g \in Holds(t) /\ g.key = k
             /\ \A e : Newest(Holds(t), e, k) =>
                  e \in G /\ (G = {e} \/ Cardinality(Ending(t.blocks, k)) > 1)
<1>1. PICK id \in Nat, es \in {s \in Seq(Entries) : Ascending(s)} : t = Table(id, es) BY DEF AllTables
<1>2. es \in Seq(Entries) /\ Ascending(es) OBVIOUS
<1>3. t.blocks = WriteTable(es) /\ t.filter = WriteFilter(es) /\ Holds(t) = ToSet(es)
  BY <1>1, <1>2, TableIs
<1> QED BY <1>2, <1>3, TableFinds

\* An entry of a table is alone with its key and number.
LEMMA TableUnique ==
  ASSUME NEW t \in AllTables
  PROVE  Unique(Holds(t))
<1> DEFINE es == Stream(t.blocks)
<1>1. es \in Seq(Entries) /\ Ascending(es) BY TableFacts
<1>2. Len(es) \in Nat /\ DOMAIN es = 1 .. Len(es) /\ \A i \in 1 .. Len(es) : es[i] \in Entries
  BY <1>1, LenProperties, ElementOfSeq
<1> HIDE DEF es
<1>3. ASSUME NEW e \in ToSet(es), NEW f \in ToSet(es), e.key = f.key, e.seq = f.seq PROVE e = f
  <2>1. PICK i \in 1 .. Len(es) : e = es[i] BY <1>2 DEF ToSet
  <2>2. PICK j \in 1 .. Len(es) : f = es[j] BY <1>2 DEF ToSet
  <2>3. e.key \in Nat /\ e.seq \in Nat BY <1>2, <2>1, EntryTypes
  <2>4. ~Prior(e, f) /\ ~Prior(f, e) BY <1>3, <2>3 DEF Prior
  <2>5. ~(i < j) /\ ~(j < i) BY <1>1, <2>1, <2>2, <2>4 DEF Ascending
  <2>6. i = j BY <1>2, <2>5
  <2> QED BY <2>1, <2>2, <2>6
<1> QED BY <1>3 DEF Unique, Holds, es

LEMMA NewestExists ==
  ASSUME NEW es \in SUBSET Entries, NEW a \in es
  PROVE  \E e : Newest(es, e, a.key)
<1> DEFINE V == MaxVersions * MaxTables
           Q == {e.seq : e \in {f \in es : f.key = a.key}}
<1>1. V \in Nat
  <2>1. \A x, y \in Nat : x * y \in Nat OBVIOUS
  <2> QED BY <2>1, VersionsAssumption, TablesAssumption
<1>2. \A e \in es : e.seq \in 0 .. V
  <2>1. \A x \in 1 .. V : x \in 0 .. V BY <1>1
  <2>2. \A e \in Entries : e.seq \in 1 .. V BY DEF Entries
  <2> HIDE DEF V
  <2> QED BY <2>1, <2>2
<1> HIDE DEF V
<1>3. Q \subseteq 0 .. V /\ a.seq \in Q BY <1>2
<1>4. Max(Q) \in Q /\ \A y \in Q : y <= Max(Q)
  <2> HIDE DEF Q
  <2> QED BY <1>1, <1>3, MaxIs
<1>5. PICK e \in es : e.key = a.key /\ e.seq = Max(Q) BY <1>4
<1>6. \A f \in es : f.key = a.key => f.seq <= e.seq BY <1>4, <1>5
<1> QED BY <1>5, <1>6 DEF Newest

LEMMA HeldUnion ==
  ASSUME NEW S, NEW T
  PROVE  Held(S \cup T) = Held(S) \cup Held(T)
  BY DEF Held

LEMMA HeldOne ==
  ASSUME NEW t
  PROVE  Held({t}) = Holds(t)
  BY DEF Held

LEMMA HeldEntries ==
  ASSUME NEW S \in SUBSET AllTables
  PROVE  Held(S) \in SUBSET Entries
<1>1. \A t \in S : Holds(t) \subseteq Entries BY TableFacts
<1> QED BY <1>1 DEF Held
-----------------------------------------------------------------------------
(* A memtable is flushed *)

\* t holds the n-th memtable, of the histories h.
Flushes(t, h, n) ==
  /\ t \in AllTables /\ Holds(t) # {}
  /\ \A e \in Holds(t) : MaxVersions * (n - 1) < e.seq /\ e.seq <= MaxVersions * n
  /\ \A k \in Keys :
       /\ h[k] = << >> => \A e \in Holds(t) : e.key # k
       /\ h[k] # << >> => Newest(Holds(t), Entry(k, MaxVersions * n, h[k][1] = "del"), k)

LEMMA NewTableFlushes ==
  ASSUME NEW h \in Memtables, NEW n \in 1 .. MaxTables, NEW id \in Nat
  PROVE  LET t == Table(id, MemtableEntries(h, n)) IN Flushes(t, h, n) /\ t.id = id
<1> DEFINE es == MemtableEntries(h, n)
           t == Table(id, es)
<1>1. /\ es \in Seq(Entries) /\ Ascending(es) /\ es # << >>
      /\ \A e \in ToSet(es) : MaxVersions * (n - 1) < e.seq /\ e.seq <= MaxVersions * n
      /\ \A k \in Keys :
           /\ h[k] = << >> => \A e \in ToSet(es) : e.key # k
           /\ h[k] # << >> => Newest(ToSet(es), Entry(k, MaxVersions * n, h[k][1] = "del"), k)
  BY MemtableWritten
<1> HIDE DEF es
<1>2. t \in AllTables /\ t.id = id /\ Holds(t) = ToSet(es) BY <1>1, TableIs
<1>3. ToSet(es) # {} BY <1>1, TableBounds
<1> HIDE DEF t
<1> QED BY <1>1, <1>2, <1>3 DEF Flushes, t, es

\* A reader should see the writes of h, the n-th memtable, instead of seen.
Renews(now, seen, h, n) ==
  \A k \in Keys : now[k] = IF h[k] = << >> THEN seen[k]
                           ELSE IF h[k][1] = "del" THEN Nothing ELSE MaxVersions * n

UpTo(es, n) == \A e \in es : e.seq <= MaxVersions * n

\* The entries of the new table are the newest: a reader should see them.
LEMMA NewTableShows ==
  ASSUME NEW h, NEW n \in 1 .. MaxTables, NEW t, Flushes(t, h, n), NEW es \in SUBSET Entries,
         Unique(es), UpTo(es, n - 1), NEW seen, Shows(es, seen), NEW now, Renews(now, seen, h, n)
  PROVE  /\ Shows(es \cup Holds(t), now) /\ Unique(es \cup Holds(t))
         /\ UpTo(es \cup Holds(t), n)
         /\ \A e \in es, f \in Holds(t) : e.seq < f.seq
<1> DEFINE U == MaxVersions * (n - 1)
           V == MaxVersions * n
           A == es \cup Holds(t)
<1>1. U \in Nat /\ V \in Nat \ {0} /\ U <= V
  <2>1. U \in Nat /\ V \in Nat \ {0} /\ V = U + MaxVersions BY Numbers
  <2> HIDE DEF U, V
  <2> QED BY <2>1, VersionsAssumption
<1>2. t \in AllTables /\ Holds(t) \subseteq Entries /\ Unique(Holds(t))
  BY TableFacts, TableUnique DEF Flushes
<1>3. \A e \in A : e.seq \in Nat /\ e.key \in Nat BY <1>2, EntryTypes
<1>4. \A e \in es, f \in Holds(t) : e.seq <= U /\ U < f.seq /\ f.seq <= V BY DEF Flushes, UpTo
<1>5. /\ \A k \in Keys : h[k] = << >> => \A e \in Holds(t) : e.key # k
      /\ \A k \in Keys : h[k] # << >> => Newest(Holds(t), Entry(k, V, h[k][1] = "del"), k)
  BY DEF Flushes
<1>6. \A k \in Keys : now[k] = IF h[k] = << >> THEN seen[k]
                               ELSE IF h[k][1] = "del" THEN Nothing ELSE V
  BY DEF Renews
<1>0. /\ \A e \in es : e.seq <= U
      /\ \A e \in Holds(t) : U < e.seq /\ e.seq <= V
  BY DEF Flushes, UpTo
<1> HIDE DEF U, V
<1>7. \A e \in es, f \in Holds(t) : e.seq < f.seq BY <1>1, <1>3, <1>4
<1>8. \A e \in A : e.seq <= V BY <1>0, <1>1, <1>3
<1>9. Unique(A)
  <2>1. ASSUME NEW e \in A, NEW f \in A, e.key = f.key, e.seq = f.seq PROVE e = f
    <3>1. CASE e \in es /\ f \in es BY <2>1, <3>1 DEF Unique
    <3>2. CASE e \in Holds(t) /\ f \in Holds(t) BY <1>2, <2>1, <3>2 DEF Unique
    <3>3. CASE (e \in es /\ f \in Holds(t)) \/ (f \in es /\ e \in Holds(t))
      <4>1. e.seq < f.seq \/ f.seq < e.seq BY <1>7, <3>3
      <4> QED BY <1>3, <2>1, <4>1
    <3> QED BY <3>1, <3>2, <3>3
  <2> QED BY <2>1 DEF Unique
<1>10. ASSUME NEW k \in Keys
       PROVE  /\ now[k] # Nothing => Newest(A, Entry(k, now[k], FALSE), k)
              /\ now[k] = Nothing => \A e \in A : Newest(A, e, k) => e.del
  <2>1. CASE h[k] = << >>
    <3>1. now[k] = seen[k] BY <1>6, <2>1
    <3>2. \A e : Newest(A, e, k) <=> Newest(es, e, k) BY <1>5, <2>1 DEF Newest
    <3> QED BY <3>1, <3>2 DEF Shows, Newest
  <2>2. CASE h[k] # << >>
    <3> DEFINE b == h[k][1] = "del"
               e == Entry(k, V, b)
    <3>1. Newest(Holds(t), e, k) BY <1>5, <2>2
    <3>2. e.key = k /\ e.seq = V /\ e.del = b BY DEF Entry
    <3>3. Newest(A, e, k) BY <1>8, <3>1, <3>2 DEF Newest
    <3>4. CASE b
      <4>1. now[k] = Nothing BY <1>6, <2>2, <3>4
      <4>2. ASSUME NEW f \in A, Newest(A, f, k) PROVE f.del
        <5>1. f.key = k /\ V <= f.seq BY <3>2, <3>3, <4>2 DEF Newest
        <5>2. f.seq = V BY <1>1, <1>3, <1>8, <5>1
        <5>3. e \in A BY <3>3 DEF Newest
        <5> HIDE DEF e
        <5>4. f = e BY <1>9, <3>2, <5>1, <5>2, <5>3 DEF Unique
        <5> QED BY <3>2, <3>4, <5>4
      <4> QED BY <4>1, <4>2
    <3>5. CASE ~b
      <4>1. now[k] = V BY <1>6, <2>2, <3>5
      <4>2. e = Entry(k, V, FALSE)
        <5>1. b = FALSE BY <3>5
        <5> QED BY <5>1
      <4>3. V # Nothing BY <1>1 DEF Nothing
      <4> QED BY <3>3, <4>1, <4>2, <4>3
    <3> QED BY <3>4, <3>5
  <2> QED BY <2>1, <2>2
<1> HIDE DEF A
<1> QED BY <1>7, <1>8, <1>9, <1>10 DEF Shows, UpTo, A, V

\* Of the entries of the inputs only the newest stay, if they are no tombstones:
\* a reader should see the same as before.
LEMMA MergeShows ==
  ASSUME NEW ins \in SUBSET Entries, NEW others \in SUBSET Entries, NEW seen, Shows(ins \cup others, seen),
         \A e \in ins, f \in others : e.key # f.key,
         NEW out, out = {e \in ins : ~e.del /\ Newest(ins, e, e.key)}
  PROVE  Shows(out \cup others, seen)
<1> DEFINE A == ins \cup others
           B == out \cup others
<1>1. ASSUME NEW k \in Keys
      PROVE  /\ seen[k] # Nothing => Newest(B, Entry(k, seen[k], FALSE), k)
             /\ seen[k] = Nothing => \A e \in B : Newest(B, e, k) => e.del
  <2>1. CASE seen[k] # Nothing
    <3> DEFINE e == Entry(k, seen[k], FALSE)
    <3>1. Newest(A, e, k) BY <2>1 DEF Shows
    <3>2. e.key = k /\ ~e.del BY DEF Entry
    <3> HIDE DEF e
    <3>3. e \in B
      <4>1. CASE e \in others BY <4>1
      <4>2. CASE e \in ins
        <5>1. Newest(ins, e, e.key) BY <3>1, <3>2, <4>2 DEF Newest
        <5> QED BY <3>2, <4>2, <5>1
      <4> QED BY <3>1, <4>1, <4>2 DEF Newest
    <3>4. B \subseteq A OBVIOUS
    <3>5. Newest(B, e, k) BY <3>1, <3>3, <3>4 DEF Newest
    <3> QED BY <2>1, <3>5 DEF e
  <2>2. CASE seen[k] = Nothing
    <3>1. ASSUME NEW e \in B, Newest(B, e, k) PROVE e.del
      <4>1. e.key = k BY <3>1 DEF Newest
      <4>2. CASE e \in ins
        <5>1. \A f \in A : f.key = k => f \in ins BY <4>1, <4>2
        <5>2. CASE e \in out
          <6>1. Newest(ins, e, k) BY <4>1, <5>2
          <6>2. Newest(A, e, k) BY <5>1, <6>1 DEF Newest
          <6> QED BY <2>2, <4>2, <6>2 DEF Shows
        <5>3. CASE e \notin out BY <4>2, <5>3
        <5> QED BY <5>2, <5>3
      <4>3. CASE e \in others
        <5>1. \A f \in A : f.key = k => f \in others BY <4>1, <4>3
        <5>2. Newest(A, e, k) BY <3>1, <4>3, <5>1 DEF Newest
        <5> QED BY <2>2, <4>3, <5>2 DEF Shows
      <4> QED BY <4>2, <4>3
    <3> QED BY <2>2, <3>1
  <2> QED BY <2>1, <2>2
<1> QED BY <1>1 DEF Shows
-----------------------------------------------------------------------------
(* A compaction *)

\* The key ranges of the tables in S are apart.
Divided(S) ==
  \A m, n \in S : \/ m = n \/ m.blocks = << >> \/ n.blocks = << >>
                  \/ m.largest < n.smallest \/ n.largest < m.smallest

\* The L1 tables that are left alone.
Left(old, min_k, max_k) == {m \in old : ~Overlaps(m, min_k, max_k)}

Covers(min_k, max_k, S) == \A m \in S : min_k <= m.smallest /\ m.largest <= max_k

Inputs(tables, old, min_k, max_k) == tables \cup (old \ Left(old, min_k, max_k))

\* The keys of es are all before or all after those of r.
Away(r, es) ==
  \/ r.blocks = << >>
  \/ \A e \in es : r.largest < e.key
  \/ \A e \in es : e.key < r.smallest

LEMMA KeyRange ==
  ASSUME NEW S \in SUBSET AllTables, S # {}
  PROVE  LET min_k == Min({m.smallest : m \in S})
             max_k == Max({m.largest : m \in S})
         IN  min_k \in Nat /\ max_k \in Nat /\ Covers(min_k, max_k, S)
<1> DEFINE K == {m.smallest : m \in S}
           L == {m.largest : m \in S}
<1>1. \A m \in S : m.smallest \in 0 .. MaxKey /\ m.largest \in 0 .. MaxKey BY TableFacts
<1>2. MaxKey \in Nat BY KeysAssumption
<1>3. K \subseteq Nat /\ K # {} /\ L \subseteq 0 .. MaxKey /\ L # {} BY <1>1, <1>2
<1>4. Min(K) \in K /\ \A y \in K : Min(K) <= y
  <2> HIDE DEF K
  <2> QED BY <1>3, MinIs
<1>5. Max(L) \in L /\ \A y \in L : y <= Max(L)
  <2> HIDE DEF L
  <2> QED BY <1>2, <1>3, MaxIs
<1>6. Min(K) \in Nat /\ Max(L) \in Nat BY <1>1, <1>2, <1>4, <1>5
<1> QED BY <1>4, <1>5, <1>6 DEF Covers

\* The keys of the inputs of a compaction are all before or all after those of
\* an L1 table that is left alone, even where they go beyond the range of L0.
LEMMA RemainingApart ==
  ASSUME NEW tables \in SUBSET AllTables, tables # {},
         NEW old \in SUBSET AllTables, Divided(old),
         NEW min_k \in Nat, NEW max_k \in Nat, Covers(min_k, max_k, tables),
         NEW r \in Left(old, min_k, max_k)
  PROVE  r \notin Inputs(tables, old, min_k, max_k) /\ Away(r, Held(Inputs(tables, old, min_k, max_k)))
<1> DEFINE rem == {m \in old : ~Overlaps(m, min_k, max_k)}
           ins == tables \cup (old \ rem)
<1>1. \A m \in tables \cup old : /\ m.smallest \in Nat /\ m.largest \in Nat /\ m.smallest <= m.largest
                                 /\ \A e \in Holds(m) : m.smallest <= e.key /\ e.key <= m.largest /\ e.key \in Nat
                                 /\ (\E e \in Holds(m) : TRUE) => m.blocks # << >>
  <2> TAKE m \in tables \cup old
  <2>1. m.smallest \in Nat /\ m.largest \in Nat BY TableFacts
  <2>2. \A e \in Holds(m) : e.key \in Nat BY TableFacts, EntryTypes
  <2> QED BY <2>1, <2>2, TableFacts
<1>0. /\ rem = {m \in old : ~Overlaps(m, min_k, max_k)} /\ r \in rem
      /\ \A m \in tables : min_k <= m.smallest /\ m.largest <= max_k
  BY DEF Left, Covers
<1>2. r.largest < min_k \/ r.smallest > max_k BY <1>0 DEF Overlaps
<1>3. r \notin ins
  <2>1. r \notin tables
    <3> SUFFICES ASSUME r \in tables PROVE FALSE OBVIOUS
    <3>1. min_k <= r.smallest /\ r.largest <= max_k /\ r.smallest <= r.largest BY <1>0, <1>1
    <3> QED BY <1>1, <1>2, <3>1
  <2> QED BY <1>0, <2>1
<1>4. SUFFICES ASSUME r.blocks # << >>
               PROVE  (\A e \in Held(ins) : r.largest < e.key) \/ (\A e \in Held(ins) : e.key < r.smallest)
  <2>1. Inputs(tables, old, min_k, max_k) = ins BY DEF Inputs, Left
  <2> HIDE DEF ins
  <2> QED BY <1>3, <2>1 DEF Away
<1>5. r \in old BY <1>0
<1>6. CASE r.largest < min_k
  <2>1. ASSUME NEW m \in ins, NEW e \in Holds(m) PROVE r.largest < e.key
    <3>1. m \in tables \cup old /\ m # r BY <1>3
    <3>2. m.smallest <= e.key /\ e.key \in Nat /\ m.blocks # << >> BY <1>1, <3>1
    <3>3. CASE m \in tables BY <1>0, <1>1, <1>5, <1>6, <3>1, <3>2, <3>3
    <3>4. CASE m \in old \ rem
      <4>1. ~(m.largest < min_k) BY <1>0, <3>4 DEF Overlaps
      <4>2. r.largest < m.smallest \/ m.largest < r.smallest BY <1>4, <1>5, <3>1, <3>2, <3>4 DEF Divided
      <4> QED BY <1>1, <1>5, <1>6, <3>1, <3>2, <4>1, <4>2
    <3> QED BY <3>3, <3>4
  <2> QED BY <2>1 DEF Held
<1>7. CASE r.smallest > max_k
  <2>1. ASSUME NEW m \in ins, NEW e \in Holds(m) PROVE e.key < r.smallest
    <3>1. m \in tables \cup old /\ m # r BY <1>3
    <3>2. e.key <= m.largest /\ e.key \in Nat /\ m.blocks # << >> BY <1>1, <3>1
    <3>3. CASE m \in tables BY <1>0, <1>1, <1>5, <1>7, <3>1, <3>2, <3>3
    <3>4. CASE m \in old \ rem
      <4>1. ~(m.smallest > max_k) BY <1>0, <3>4 DEF Overlaps
      <4>2. r.largest < m.smallest \/ m.largest < r.smallest BY <1>4, <1>5, <3>1, <3>2, <3>4 DEF Divided
      <4> QED BY <1>1, <1>5, <1>7, <3>1, <3>2, <4>1, <4>2
    <3> QED BY <3>3, <3>4
  <2> QED BY <2>1 DEF Held
<1> QED BY <1>2, <1>6, <1>7

\* The table a compaction writes.
LEMMA OutputHolds ==
  ASSUME NEW inputs \in SUBSET AllTables, IsFiniteSet(inputs), Unique(Held(inputs)), NEW id \in Nat
  PROVE  LET out == Table(id, KWayMerge([m \in inputs |-> Stream(m.blocks)], TRUE))
         IN  /\ out \in AllTables /\ out.id = id
             /\ Holds(out) = {e \in Held(inputs) : ~e.del /\ Newest(Held(inputs), e, e.key)}
             /\ Rising(Stream(out.blocks))
<1> DEFINE ins == [m \in inputs |-> Stream(m.blocks)]
           es == KWayMerge(ins, TRUE)
           out == Table(id, es)
<1>1. DOMAIN ins = inputs /\ \A m \in inputs : ins[m] = Stream(m.blocks) OBVIOUS
<1> HIDE DEF ins
<1>2. \A m \in inputs : ToSet(ins[m]) = Holds(m) BY <1>1 DEF Holds
<1>3. UNION {ToSet(ins[m]) : m \in DOMAIN ins} = Held(inputs) BY <1>1, <1>2 DEF Held
<1>4. Mergeable(ins)
  <2>1. \A m \in DOMAIN ins : ins[m] \in Seq(Entries) /\ Ascending(ins[m]) BY <1>1, TableFacts
  <2>2. \A i, j \in DOMAIN ins : \A e \in ToSet(ins[i]), f \in ToSet(ins[j]) :
          e.key = f.key /\ e.seq = f.seq => e = f
    BY <1>3 DEF Unique
  <2> QED BY <1>1, <2>1, <2>2 DEF Mergeable
<1>5. /\ es \in Seq(Entries) /\ Rising(es)
      /\ ToSet(es) = {e \in Held(inputs) : ~e.del /\ Newest(Held(inputs), e, e.key)}
  <2> DEFINE A == UNION {ToSet(ins[m]) : m \in DOMAIN ins}
  <2>1. es \in Seq(Entries) /\ Rising(es) /\ ToSet(es) = {e \in A : ~e.del /\ Newest(A, e, e.key)}
    BY <1>4, MergeKeepsNewest
  <2>2. A = Held(inputs) BY <1>3
  <2> HIDE DEF A, es
  <2> QED BY <2>1, <2>2
<1> HIDE DEF es
<1>6. Ascending(es)
  <2> SUFFICES ASSUME NEW i \in 1 .. Len(es), NEW j \in 1 .. Len(es), i < j PROVE Prior(es[i], es[j])
    BY DEF Ascending
  <2> QED BY <1>5 DEF Rising, Prior
<1>7. out \in AllTables /\ out.id = id /\ Stream(out.blocks) = es /\ Holds(out) = ToSet(es) BY <1>5, <1>6, TableIs
<1> HIDE DEF out
<1> QED BY <1>5, <1>7 DEF out, es, ins

\* The tables of L1 after a compaction: those left alone and the new one.
LEMMA OutputApart ==
  ASSUME NEW rem \in SUBSET AllTables, Divided(rem), IsFiniteSet(rem), NEW B \in Nat,
         \A m \in rem : m.id < B, \A m, n \in rem : m.id = n.id => m = n,
         NEW out \in AllTables, out.id = B, NEW es, Holds(out) \subseteq es,
         \A r \in rem : Away(r, es)
  PROVE  Divided(rem \cup {out}) /\ Apart(rem \cup {out}, B)
<1> DEFINE S == rem \cup {out}
<1>1. \A m \in S : m.smallest \in 0 .. MaxKey /\ m.id \in Nat BY TableFacts
<1>2. Apart(S, B)
  <2>1. IsFiniteSet(S) BY FS_AddElement
  <2>2. \A m \in rem : m.id # B BY <1>1
  <2>3. \A m, n \in S : m.id = n.id => m = n BY <2>2
  <2>4. \A m \in S : m.id \in 0 .. B BY <1>1
  <2> QED BY <1>1, <2>1, <2>3, <2>4 DEF Apart
<1>3. ASSUME NEW r \in rem, r.blocks # << >>, out.blocks # << >>
      PROVE  r.largest < out.smallest \/ out.largest < r.smallest
  <2>1. Holds(out) # {} BY <1>3, TableFacts
  <2>2. (\E a \in Holds(out) : out.smallest = a.key) /\ (\E a \in Holds(out) : out.largest = a.key)
    <3>1. PICK id \in Nat, s \in {x \in Seq(Entries) : Ascending(x)} : out = Table(id, s) BY DEF AllTables
    <3>2. s \in Seq(Entries) /\ Ascending(s) OBVIOUS
    <3>3. /\ out.blocks = WriteTable(s) /\ out.smallest = Smallest(out.blocks) /\ out.largest = Largest(out.blocks)
          /\ Holds(out) = ToSet(s)
      BY <3>1, <3>2, TableIs
    <3>4. s # << >> BY <2>1, <3>3 DEF ToSet
    <3> QED BY <3>2, <3>3, <3>4, TableBounds
  <2> QED BY <1>3, <2>2 DEF Away
<1>4. Divided(S) BY <1>3 DEF Divided
<1> QED BY <1>2, <1>4

\* Tables that are apart, sorted, are apart in order.
LEMMA SortedDivides ==
  ASSUME NEW S \in SUBSET AllTables, Divided(S), NEW s \in Seq(S), NEW i \in 1 .. Len(s), NEW j \in 1 .. Len(s),
         BySmallest(s[i], s[j]), s[i] # s[j]
  PROVE  /\ s[i].smallest <= s[j].smallest
         /\ s[i].largest < s[j].smallest \/ s[i].blocks = << >> \/ s[j].blocks = << >>
<1>1. s[i] \in S /\ s[j] \in S BY ElementOfSeq
<1>2. /\ s[i].smallest \in Nat /\ s[i].largest \in Nat /\ s[j].smallest \in Nat /\ s[j].largest \in Nat
      /\ s[j].smallest <= s[j].largest /\ s[i].smallest <= s[i].largest
  BY <1>1, TableFacts, SMTT(40)
<1>3. s[i].smallest <= s[j].smallest BY <1>2 DEF BySmallest
<1>4. \/ s[i].blocks = << >> \/ s[j].blocks = << >>
      \/ s[i].largest < s[j].smallest \/ s[j].largest < s[i].smallest
  BY <1>1 DEF Divided
<1> QED BY <1>2, <1>3, <1>4
-----------------------------------------------------------------------------
(* The invariant *)

Levels == ToSet(l0) \cup ToSet(l1)

Typed ==
  /\ l0 \in Seq(AllTables) /\ l1 \in Seq(AllTables) /\ files \in SUBSET AllTables
  /\ next_id \in Nat \ {0}
  /\ \A t \in Levels \cup files : t.id \in 1 .. next_id - 1
  /\ poisoned \in BOOLEAN
  /\ flushed \in 0 .. MaxTables
  /\ latest \in [Keys -> 0 .. MaxVersions * MaxTables]

\* What is newer is further up, and what is newest is what a reader should see.
Current ==
  /\ Levels \subseteq files
  /\ \A m, n \in ToSet(l1) : m.id = n.id => m = n
  /\ \A t \in ToSet(l0) : Holds(t) # {}
  /\ Unique(Held(Levels))
  /\ UpTo(Held(Levels), flushed)
  /\ \A i, j \in 1 .. Len(l0) : i < j => \A e \in Holds(l0[i]), f \in Holds(l0[j]) : e.seq < f.seq
  /\ \A e \in Held(ToSet(l1)), f \in Held(ToSet(l0)) : e.seq < f.seq
  /\ Shows(Held(Levels), latest)

IInv == Typed /\ L1IsPartitioned /\ FilesHoldLatest /\ (~poisoned => Current)

LEMMA ToSetFinite ==
  ASSUME NEW S, NEW s \in Seq(S)
  PROVE  IsFiniteSet(ToSet(s)) /\ ToSet(s) \in SUBSET S /\ \A x \in ToSet(s) : \E i \in 1 .. Len(s) : x = s[i]
<1>1. Len(s) \in Nat /\ DOMAIN s = 1 .. Len(s) /\ \A i \in 1 .. Len(s) : s[i] \in S BY LenProperties, ElementOfSeq
<1>2. \A x \in ToSet(s) : \E i \in 1 .. Len(s) : x = s[i] BY <1>1 DEF ToSet
<1>3. s \in Surjection(1 .. Len(s), ToSet(s))
  <2>1. s \in [1 .. Len(s) -> S] BY <1>1, LenProperties
  <2>2. \A i \in 1 .. Len(s) : s[i] \in ToSet(s) BY <1>1 DEF ToSet
  <2>3. s \in [1 .. Len(s) -> ToSet(s)] BY <2>1, <2>2
  <2> QED BY <1>2, <2>3 DEF Surjection
<1>4. IsFiniteSet(1 .. Len(s)) BY <1>1, FS_Interval
<1>5. IsFiniteSet(ToSet(s)) BY <1>3, <1>4, FS_Surjection
<1> QED BY <1>1, <1>2, <1>5

LEMMA PartitionDivides ==
  ASSUME Typed, L1IsPartitioned
  PROVE  Divided(ToSet(l1))
<1>1. l1 \in Seq(AllTables) /\ DOMAIN l1 = 1 .. Len(l1) /\ Len(l1) \in Nat BY LenProperties DEF Typed
<1> SUFFICES ASSUME NEW m \in ToSet(l1), NEW n \in ToSet(l1), m # n, m.blocks # << >>, n.blocks # << >>
             PROVE  m.largest < n.smallest \/ n.largest < m.smallest
  BY DEF Divided
<1>2. PICK i \in 1 .. Len(l1) : m = l1[i] BY <1>1, ToSetFinite
<1>3. PICK j \in 1 .. Len(l1) : n = l1[j] BY <1>1, ToSetFinite
<1>4. i < j \/ j < i BY <1>1, <1>2, <1>3
<1> QED BY <1>1, <1>2, <1>3, <1>4 DEF L1IsPartitioned

\* What the memtable that is flushed next adds.
LEMMA NextFlushes ==
  ASSUME Typed, Current, flushed < MaxTables, NEW h \in Memtables, NEW t,
         t = NewTable(MemtableEntries(h, flushed + 1)),
         NEW now, now = [k \in Keys |-> Latest(h, flushed + 1, k)]
  PROVE  /\ t \in AllTables /\ t.id = next_id /\ Holds(t) # {}
         /\ now \in [Keys -> 0 .. MaxVersions * MaxTables]
         /\ Held(Levels \cup {t}) = Held(Levels) \cup Holds(t)
         /\ Unique(Held(Levels \cup {t}))
         /\ Shows(Held(Levels \cup {t}), now)
         /\ UpTo(Held(Levels \cup {t}), flushed + 1)
         /\ \A e \in Held(Levels), f \in Holds(t) : e.seq < f.seq
<1> DEFINE n == flushed + 1
           A == Held(Levels)
<1>1. n \in 1 .. MaxTables /\ n - 1 = flushed /\ next_id \in Nat BY TablesAssumption DEF Typed
<1>2. Flushes(t, h, n) /\ t.id = next_id BY <1>1, NewTableFlushes DEF NewTable
<1>3. Levels \in SUBSET AllTables BY ToSetFinite DEF Typed, Levels
<1>4. A \in SUBSET Entries BY <1>3, HeldEntries
<1>5. Unique(A) /\ Shows(A, latest) /\ UpTo(A, n - 1) BY <1>1 DEF Current
<1>6. \A k \in Keys : now[k] = IF h[k] = << >> THEN latest[k]
                               ELSE IF h[k][1] = "del" THEN Nothing ELSE MaxVersions * n
  BY DEF Latest
<1>7. Held(Levels \cup {t}) = A \cup Holds(t)
  <2>1. Held(Levels \cup {t}) = Held(Levels) \cup Held({t}) BY HeldUnion
  <2>2. Held({t}) = Holds(t) BY HeldOne
  <2> QED BY <2>1, <2>2
<1>8. MaxVersions * n \in 0 .. MaxVersions * MaxTables
  <2>1. MaxVersions * n \in Nat \ {0} /\ MaxVersions * MaxTables \in Nat /\ MaxVersions * n <= MaxVersions * MaxTables
    BY <1>1, Numbers
  <2> QED BY <2>1
<1>9. Nothing \in 0 .. MaxVersions * MaxTables
  <2>1. MaxVersions * MaxTables \in Nat BY <1>1, Numbers
  <2> QED BY <2>1 DEF Nothing
<1> HIDE DEF n, A
<1>10. /\ Shows(A \cup Holds(t), now) /\ Unique(A \cup Holds(t))
       /\ UpTo(A \cup Holds(t), n)
       /\ \A e \in A, f \in Holds(t) : e.seq < f.seq
  <2>1. Renews(now, latest, h, n) BY <1>6 DEF Renews
  <2> QED BY ONLY <1>1, <1>2, <1>4, <1>5, <2>1, NewTableShows
<1>11. now \in [Keys -> 0 .. MaxVersions * MaxTables]
  <2>1. \A k \in Keys : latest[k] \in 0 .. MaxVersions * MaxTables BY DEF Typed
  <2>2. \A k \in Keys : now[k] \in 0 .. MaxVersions * MaxTables BY <1>6, <1>8, <1>9, <2>1
  <2>3. now = [k \in Keys |-> now[k]] OBVIOUS
  <2> QED BY <2>2, <2>3
<1> QED BY <1>2, <1>7, <1>10, <1>11 DEF Flushes, n, A

LEMMA ShowsStored ==
  ASSUME NEW S, NEW seen, Shows(Held(S), seen), NEW k \in Keys, seen[k] # Nothing
  PROVE  \E t \in S : Entry(k, seen[k], FALSE) \in ToSet(Stream(t.blocks))
  BY ZenonT(60) DEF Shows, Newest, Held, Holds

LEMMA InitInv == Init => IInv
<1> SUFFICES ASSUME Init PROVE IInv OBVIOUS
<1>1. ToSet(<< >>) = {} /\ Len(<< >>) = 0 /\ DOMAIN << >> = {} /\ 1 .. 0 = {} BY DEF ToSet
<1>2. Levels = {} /\ Held({}) = {} BY <1>1 DEF Init, Levels, Held
<1>3. MaxVersions * MaxTables \in Nat
  <2>1. \A x, y \in Nat : x * y \in Nat OBVIOUS
  <2> QED BY <2>1, VersionsAssumption, TablesAssumption
<1>4. Typed
  <2>1. << >> \in Seq(AllTables) BY EmptySeq
  <2>2. latest \in [Keys -> 0 .. MaxVersions * MaxTables]
    <3>1. 0 \in 0 .. MaxVersions * MaxTables BY <1>3
    <3> QED BY <3>1 DEF Init, Nothing
  <2>3. poisoned \in BOOLEAN BY DEF Init
  <2>4. next_id \in Nat \ {0} /\ flushed \in 0 .. MaxTables BY TablesAssumption DEF Init
  <2>5. l0 \in Seq(AllTables) /\ l1 \in Seq(AllTables) /\ files = {} BY <2>1 DEF Init
  <2> QED BY <1>2, <2>2, <2>3, <2>4, <2>5 DEF Typed
<1>5. L1IsPartitioned BY <1>1 DEF Init, L1IsPartitioned
<1>6. FilesHoldLatest BY DEF Init, FilesHoldLatest
<1>7. Current BY <1>1, <1>2 DEF Init, Current, Unique, Shows, Newest, UpTo
<1> QED BY <1>4, <1>5, <1>6, <1>7 DEF IInv
-----------------------------------------------------------------------------
(* Every step keeps the invariant *)

\* What the three outcomes of add_l0_table have in common.
Flushing(h, t) ==
  /\ ~poisoned
  /\ flushed < MaxTables
  /\ flushed' = flushed + 1
  /\ t = NewTable(MemtableEntries(h, flushed + 1))
  /\ latest' = [k \in Keys |-> Latest(h, flushed + 1, k)]

LEMMA FlushingAdds ==
  ASSUME IInv, NEW h \in Memtables, NEW t, Flushing(h, t)
  PROVE  /\ t \in AllTables /\ t.id = next_id /\ Holds(t) # {}
         /\ flushed' \in 0 .. MaxTables
         /\ latest' \in [Keys -> 0 .. MaxVersions * MaxTables]
         /\ Held(Levels \cup {t}) = Held(Levels) \cup Holds(t)
         /\ Unique(Held(Levels \cup {t}))
         /\ Shows(Held(Levels \cup {t}), latest')
         /\ UpTo(Held(Levels \cup {t}), flushed')
         /\ \A e \in Held(Levels), f \in Holds(t) : e.seq < f.seq
         /\ Levels \subseteq AllTables /\ Levels \subseteq files
         /\ ToSet(Append(l0, t)) = ToSet(l0) \cup {t} /\ Append(l0, t) \in Seq(AllTables)
<1> DEFINE now == latest'
<1>1. Typed /\ Current /\ flushed < MaxTables BY DEF IInv, Flushing
<1>2. t = NewTable(MemtableEntries(h, flushed + 1)) /\ now = [k \in Keys |-> Latest(h, flushed + 1, k)]
  BY DEF Flushing
<1>3. flushed' = flushed + 1 BY DEF Flushing
<1>4. flushed' \in 0 .. MaxTables BY <1>1, <1>3, TablesAssumption DEF Typed
<1> HIDE DEF now
<1>5. /\ t \in AllTables /\ t.id = next_id /\ Holds(t) # {}
      /\ now \in [Keys -> 0 .. MaxVersions * MaxTables]
      /\ Held(Levels \cup {t}) = Held(Levels) \cup Holds(t)
      /\ Unique(Held(Levels \cup {t}))
      /\ Shows(Held(Levels \cup {t}), now)
      /\ UpTo(Held(Levels \cup {t}), flushed + 1)
      /\ \A e \in Held(Levels), f \in Holds(t) : e.seq < f.seq
  BY <1>1, <1>2, NextFlushes
<1>6. Levels \subseteq AllTables BY <1>1, ToSetFinite DEF Typed, Levels
<1>7. l0 \in Seq(AllTables) BY <1>1 DEF Typed
<1>8. ToSet(Append(l0, t)) = ToSet(l0) \cup {t} /\ Append(l0, t) \in Seq(AllTables)
  BY <1>5, <1>7, ToSetAppend, AppendProperties
<1> QED BY <1>1, <1>3, <1>4, <1>5, <1>6, <1>8 DEF now, Current

LEMMA FlushInv ==
  ASSUME IInv, NEW h \in Memtables, NEW t, Flushing(h, t), Flush(t)
  PROVE  IInv'
<1>1. /\ t \in AllTables /\ t.id = next_id /\ Holds(t) # {}
      /\ flushed' \in 0 .. MaxTables
      /\ latest' \in [Keys -> 0 .. MaxVersions * MaxTables]
      /\ Held(Levels \cup {t}) = Held(Levels) \cup Holds(t)
      /\ Unique(Held(Levels \cup {t}))
      /\ Shows(Held(Levels \cup {t}), latest')
      /\ UpTo(Held(Levels \cup {t}), flushed')
      /\ \A e \in Held(Levels), f \in Holds(t) : e.seq < f.seq
      /\ Levels \subseteq AllTables /\ Levels \subseteq files
      /\ ToSet(Append(l0, t)) = ToSet(l0) \cup {t} /\ Append(l0, t) \in Seq(AllTables)
  BY FlushingAdds
<1>2. Typed /\ Current /\ poisoned' = poisoned /\ ~poisoned BY DEF IInv, Flushing, Flush
<1>3. l0' = Append(l0, t) /\ l1' = l1 /\ files' = files \cup {t} /\ next_id' = next_id + 1 BY DEF Flush
<1>4. ToSet(l0') = ToSet(l0) \cup {t} /\ ToSet(l1') = ToSet(l1) BY <1>1, <1>3
<1>5. Levels' = Levels \cup {t} BY <1>4 DEF Levels
<1>6. Typed'
  <2>1. next_id \in Nat \ {0} /\ poisoned \in BOOLEAN BY <1>2 DEF Typed
  <2>2. next_id' \in Nat \ {0} BY <1>3, <2>1
  <2>3. poisoned' \in BOOLEAN BY <1>2, <2>1
  <2>4. ASSUME NEW m \in Levels' \cup files' PROVE m.id \in 1 .. next_id' - 1
    <3>1. m \in Levels \cup files \/ m = t BY <1>3, <1>5
    <3>2. CASE m \in Levels \cup files
      <4>1. m.id \in 1 .. next_id - 1 BY <1>2, <3>2 DEF Typed
      <4> QED BY <1>3, <2>1, <4>1
    <3>3. CASE m = t BY <1>1, <1>3, <2>1, <3>3
    <3> QED BY <3>1, <3>2, <3>3
  <2>5. l0' \in Seq(AllTables) /\ l1' \in Seq(AllTables) /\ files' \in SUBSET AllTables
    BY <1>1, <1>2, <1>3 DEF Typed
  <2> QED BY <1>1, <2>2, <2>3, <2>4, <2>5 DEF Typed
<1>7. L1IsPartitioned' BY <1>3 DEF IInv, L1IsPartitioned
<1>8. FilesHoldLatest'
  <2>1. Levels \cup {t} \subseteq files' BY <1>1, <1>3
  <2>2. ASSUME NEW k \in Keys, latest'[k] # Nothing
        PROVE  \E m \in files' : Entry(k, latest'[k], FALSE) \in ToSet(Stream(m.blocks))
    <3>1. \E m \in Levels \cup {t} : Entry(k, latest'[k], FALSE) \in ToSet(Stream(m.blocks))
      BY <1>1, <2>2, ShowsStored
    <3> QED BY <2>1, <3>1
  <2> QED BY <2>2 DEF FilesHoldLatest
<1>9. Current'
  <2>1. Levels' \subseteq files' BY <1>1, <1>3, <1>5
  <2>2. \A m, n \in ToSet(l1') : m.id = n.id => m = n BY <1>2, <1>4 DEF Current
  <2>3. \A m \in ToSet(l0') : Holds(m) # {} BY <1>1, <1>2, <1>4 DEF Current
  <2>4. Held(Levels') = Held(Levels \cup {t}) BY <1>5
  <2>5. ASSUME NEW i \in 1 .. Len(l0'), NEW j \in 1 .. Len(l0'), i < j,
               NEW e \in Holds(l0'[i]), NEW f \in Holds(l0'[j])
        PROVE  e.seq < f.seq
    <3>1. /\ l0 \in Seq(AllTables) /\ Len(l0) \in Nat /\ Len(l0') = Len(l0) + 1
          /\ (\A x \in 1 .. Len(l0) : l0'[x] = l0[x]) /\ l0'[Len(l0) + 1] = t
      BY <1>1, <1>2, <1>3, AppendProperties, LenProperties DEF Typed
    <3>2. i \in 1 .. Len(l0) BY <2>5, <3>1
    <3>3. l0[i] \in Levels
      <4>1. DOMAIN l0 = 1 .. Len(l0) BY <3>1, LenProperties
      <4> QED BY <3>2, <4>1 DEF Levels, ToSet
    <3>4. CASE j = Len(l0) + 1
      <4>1. e \in Held(Levels) /\ f \in Holds(t) BY <3>1, <3>2, <3>3, <3>4 DEF Held
      <4> QED BY <1>1, <4>1
    <3>5. CASE j # Len(l0) + 1
      <4>1. j \in 1 .. Len(l0) BY <3>1, <3>5
      <4> QED BY <1>2, <2>5, <3>1, <3>2, <4>1 DEF Current
    <3> QED BY <3>4, <3>5
  <2>6. ASSUME NEW e \in Held(ToSet(l1')), NEW f \in Held(ToSet(l0')) PROVE e.seq < f.seq
    <3>1. e \in Held(ToSet(l1)) /\ e \in Held(Levels) BY <1>4 DEF Held, Levels
    <3>2. f \in Held(ToSet(l0)) \/ f \in Holds(t) BY <1>4 DEF Held
    <3> QED BY <1>1, <1>2, <3>1, <3>2 DEF Current
  <2>7. Unique(Held(Levels')) /\ UpTo(Held(Levels'), flushed') /\ Shows(Held(Levels'), latest')
    BY <1>1, <2>4
  <2> QED BY <2>1, <2>2, <2>3, <2>5, <2>6, <2>7 DEF Current
<1> QED BY <1>6, <1>7, <1>8, <1>9 DEF IInv

LEMMA FlushPanicsInv ==
  ASSUME IInv, NEW h \in Memtables, NEW t, Flushing(h, t), FlushPanics(t)
  PROVE  IInv'
<1>1. /\ t \in AllTables /\ t.id = next_id
      /\ flushed' \in 0 .. MaxTables
      /\ latest' \in [Keys -> 0 .. MaxVersions * MaxTables]
      /\ Shows(Held(Levels \cup {t}), latest')
      /\ Levels \subseteq AllTables /\ Levels \subseteq files
      /\ ToSet(Append(l0, t)) = ToSet(l0) \cup {t} /\ Append(l0, t) \in Seq(AllTables)
  BY FlushingAdds
<1>2. Typed BY DEF IInv
<1>3. l0' = Append(l0, t) /\ l1' = << >> /\ files' = files \cup {t} /\ next_id' = next_id + 2
  BY DEF FlushPanics
<1>4. poisoned' = TRUE BY DEF FlushPanics
<1>5. ToSet(<< >>) = {} /\ << >> \in Seq(AllTables) /\ DOMAIN << >> = {} BY EmptySeq DEF ToSet
<1>6. Typed'
  <2>1. next_id \in Nat \ {0} BY <1>2 DEF Typed
  <2>2. next_id' \in Nat \ {0} BY <1>3, <2>1
  <2>3. poisoned' \in BOOLEAN BY <1>4
  <2>4. ASSUME NEW m \in Levels' \cup files' PROVE m.id \in 1 .. next_id' - 1
    <3>1. m \in Levels \cup files \/ m = t BY <1>1, <1>3, <1>5 DEF Levels
    <3>2. CASE m \in Levels \cup files
      <4>1. m.id \in 1 .. next_id - 1 BY <1>2, <3>2 DEF Typed
      <4> QED BY <1>3, <2>1, <4>1
    <3>3. CASE m = t BY <1>1, <1>3, <2>1, <3>3
    <3> QED BY <3>1, <3>2, <3>3
  <2>5. l0' \in Seq(AllTables) /\ l1' \in Seq(AllTables) /\ files' \in SUBSET AllTables
    BY <1>1, <1>2, <1>3, <1>5 DEF Typed
  <2> QED BY <1>1, <2>2, <2>3, <2>4, <2>5 DEF Typed
<1>7. L1IsPartitioned' BY <1>3, <1>5 DEF L1IsPartitioned
<1>8. FilesHoldLatest'
  <2>1. Levels \cup {t} \subseteq files' BY <1>1, <1>3
  <2>2. ASSUME NEW k \in Keys, latest'[k] # Nothing
        PROVE  \E m \in files' : Entry(k, latest'[k], FALSE) \in ToSet(Stream(m.blocks))
    <3>1. \E m \in Levels \cup {t} : Entry(k, latest'[k], FALSE) \in ToSet(Stream(m.blocks))
      BY <1>1, <2>2, ShowsStored
    <3> QED BY <2>1, <3>1
  <2> QED BY <2>2 DEF FilesHoldLatest
<1> QED BY <1>4, <1>6, <1>7, <1>8 DEF IInv
\* The names of FlushCompacts, and what the lemmas say of them.
LEMMA FlushCompactsInv ==
  ASSUME IInv, NEW h \in Memtables, NEW t, Flushing(h, t), FlushCompacts(t)
  PROVE  IInv'
<1> DEFINE tables == ToSet(l0) \cup {t}
           old == ToSet(l1)
           min_k == Min({m.smallest : m \in tables})
           max_k == Max({m.largest : m \in tables})
           rem == {m \in old : ~Overlaps(m, min_k, max_k)}
           inputs == tables \cup (old \ rem)
           out == Table(next_id + 1, KWayMerge([m \in inputs |-> Stream(m.blocks)], TRUE))
           ins == Held(inputs)
           now == latest'
<1>1. /\ t \in AllTables /\ t.id = next_id /\ Holds(t) # {}
      /\ flushed' \in 0 .. MaxTables
      /\ now \in [Keys -> 0 .. MaxVersions * MaxTables]
      /\ Unique(Held(Levels \cup {t}))
      /\ Shows(Held(Levels \cup {t}), now)
      /\ UpTo(Held(Levels \cup {t}), flushed')
      /\ Levels \subseteq AllTables /\ Levels \subseteq files
  BY FlushingAdds
<1>2. Typed /\ Current /\ L1IsPartitioned /\ poisoned' = poisoned /\ ~poisoned
  BY DEF IInv, Flushing, FlushCompacts
<1>3. /\ l1' = InOrder(rem \cup {out}) /\ l0' = << >> /\ next_id' = next_id + 2
      /\ \E kept \in SUBSET inputs : files' = (files \ inputs) \cup kept \cup {out}
  BY DEF FlushCompacts
<1> HIDE DEF now
<1>4. tables \in SUBSET AllTables /\ tables # {} /\ old \in SUBSET AllTables BY <1>1 DEF Levels
<1>5. IsFiniteSet(tables) /\ IsFiniteSet(old)
  <2>1. IsFiniteSet(ToSet(l0)) /\ IsFiniteSet(ToSet(l1)) BY <1>2, ToSetFinite DEF Typed
  <2> QED BY <2>1, FS_AddElement
<1>6. Divided(old) BY <1>2, PartitionDivides
<1>7. min_k \in Nat /\ max_k \in Nat /\ Covers(min_k, max_k, tables)
  BY <1>4, KeyRange
<1>8. rem \subseteq old /\ inputs \in SUBSET AllTables /\ Levels \cup {t} = inputs \cup rem BY <1>4 DEF Levels
<1>9. /\ rem = Left(old, min_k, max_k) /\ inputs = Inputs(tables, old, min_k, max_k)
      /\ inputs = tables \cup (old \ rem)
  BY DEF Left, Inputs
<1>10. next_id \in Nat \ {0} /\ next_id + 1 \in Nat /\ poisoned \in BOOLEAN BY <1>2 DEF Typed
<1> HIDE DEF min_k, max_k, tables
<1> HIDE DEF old
<1> HIDE DEF rem, inputs
<1>11. ASSUME NEW r \in rem PROVE r \notin inputs /\ Away(r, ins)
  <2>1. r \in Left(old, min_k, max_k) BY <1>9
  <2>2. r \notin Inputs(tables, old, min_k, max_k) /\ Away(r, Held(Inputs(tables, old, min_k, max_k)))
    BY ONLY <1>4, <1>6, <1>7, <2>1, RemainingApart
  <2> QED BY <1>9, <2>2
<1>12. IsFiniteSet(inputs) /\ IsFiniteSet(rem)
  <2>1. IsFiniteSet(old \ rem) BY <1>5, FS_Difference
  <2>2. IsFiniteSet(rem) BY <1>5, <1>8, FS_Subset
  <2>3. IsFiniteSet(tables \cup (old \ rem)) BY <1>5, <2>1, FS_Union
  <2> QED BY <1>9, <2>2, <2>3
<1>13. Held(Levels \cup {t}) = ins \cup Held(rem) BY <1>8, HeldUnion
<1>14. Unique(ins) BY <1>1, <1>13 DEF Unique
<1>15. /\ out \in AllTables /\ out.id = next_id + 1
       /\ Holds(out) = {e \in ins : ~e.del /\ Newest(ins, e, e.key)}
       /\ Rising(Stream(out.blocks))
  BY <1>8, <1>10, <1>12, <1>14, OutputHolds
<1> HIDE DEF out, ins
<1>16. Divided(rem \cup {out}) /\ Apart(rem \cup {out}, next_id + 1)
  <2>1. Divided(rem) BY <1>6, <1>8 DEF Divided
  <2>2. \A m \in rem : m.id < next_id + 1
    <3>1. \A m \in old : m.id \in 1 .. next_id - 1 BY <1>2 DEF Typed, Levels, old
    <3> QED BY <1>8, <1>10, <3>1
  <2>3. \A m, n \in rem : m.id = n.id => m = n BY <1>2, <1>8 DEF Current, old
  <2>4. Holds(out) \subseteq ins BY <1>15
  <2>5. rem \in SUBSET AllTables BY <1>4, <1>8
  <2> QED BY <1>10, <1>11, <1>12, <1>15, <2>1, <2>2, <2>3, <2>4, <2>5, OutputApart
<1> DEFINE new == rem \cup {out}
<1>17. /\ l1' \in Seq(new) /\ ToSet(l1') = new
       /\ \A i, j \in 1 .. Len(l1') : i < j => BySmallest(l1'[i], l1'[j]) /\ l1'[i] # l1'[j]
  <2> HIDE DEF new
  <2> QED BY <1>3, <1>10, <1>16, InOrderSorts, ZenonT(60) DEF new
<1>18. new \in SUBSET AllTables BY <1>4, <1>8, <1>15
<1>19. ToSet(l0') = {} /\ l0' \in Seq(AllTables) /\ Len(l0') = 0 BY <1>3, EmptySeq DEF ToSet
<1>20. Levels' = new BY <1>17, <1>19 DEF Levels
<1>21. PICK kept \in SUBSET inputs : files' = (files \ inputs) \cup kept \cup {out} BY <1>3
<1>22. new \subseteq files'
  <2>1. rem \subseteq files BY <1>1, <1>8 DEF old, Levels
  <2> QED BY <1>11, <1>21, <2>1
<1>23. Typed'
  <2>1. next_id' \in Nat \ {0} BY <1>3, <1>10
  <2>2. poisoned' \in BOOLEAN BY <1>2, <1>10
  <2>3. ASSUME NEW m \in Levels' \cup files' PROVE m.id \in 1 .. next_id' - 1
    <3>1. m \in files \/ m \in inputs \/ m \in rem \/ m = out BY <1>20, <1>21
    <3>2. m \in Levels \cup files \/ m = t \/ m = out BY <1>8, <3>1
    <3>3. CASE m \in Levels \cup files
      <4>1. m.id \in 1 .. next_id - 1 BY <1>2, <3>3 DEF Typed
      <4> QED BY <1>3, <1>10, <4>1
    <3>4. CASE m = t BY <1>1, <1>3, <1>10, <3>4
    <3>5. CASE m = out BY <1>3, <1>10, <1>15, <3>5
    <3> QED BY <3>2, <3>3, <3>4, <3>5
  <2>4. l1' \in Seq(AllTables)
    <3>1. \A i \in 1 .. Len(l1') : l1'[i] \in AllTables BY <1>17, <1>18, ElementOfSeq
    <3>2. l1' \in [1 .. Len(l1') -> AllTables] /\ Len(l1') \in Nat BY <1>17, <3>1, LenProperties
    <3> QED BY <3>2
  <2>5. files' \in SUBSET AllTables
    <3>1. files \in SUBSET AllTables BY <1>2 DEF Typed
    <3> QED BY <1>8, <1>15, <1>21, <3>1
  <2>6. latest' \in [Keys -> 0 .. MaxVersions * MaxTables] BY <1>1 DEF now
  <2> QED BY <1>1, <1>19, <2>1, <2>2, <2>3, <2>4, <2>5, <2>6 DEF Typed
<1>24. Shows(Held(new), now)
  <2>1. Held(new) = Holds(out) \cup Held(rem)
    <3>1. Held(rem \cup {out}) = Held(rem) \cup Held({out}) BY HeldUnion
    <3>2. Held({out}) = Holds(out) BY HeldOne
    <3> QED BY <3>1, <3>2
  <2>2. ASSUME NEW e \in ins, NEW f \in Held(rem) PROVE e.key # f.key
    <3>1. PICK r \in rem : f \in Holds(r) BY DEF Held
    <3>2. r \in AllTables BY <1>4, <1>8
    <3>3. r.blocks # << >> /\ r.smallest <= f.key /\ f.key <= r.largest /\ f \in Entries
          /\ r.smallest \in Nat /\ r.largest \in Nat
      BY <3>1, <3>2, TableFacts
    <3>4. ins \in SUBSET Entries BY <1>8, HeldEntries DEF ins
    <3>5. e.key \in Nat /\ f.key \in Nat BY <3>3, <3>4, EntryTypes
    <3>6. r.largest < e.key \/ e.key < r.smallest BY <1>11, <3>3 DEF Away
    <3> QED BY <3>3, <3>5, <3>6
  <2>3. ins \in SUBSET Entries BY <1>8, HeldEntries DEF ins
  <2>4. Held(rem) \in SUBSET Entries
    <3>1. rem \in SUBSET AllTables BY <1>4, <1>8
    <3> QED BY <3>1, HeldEntries
  <2>5. Shows(ins \cup Held(rem), now) BY <1>1, <1>13
  <2> HIDE DEF new
  <2> QED BY <1>15, <2>1, <2>2, <2>3, <2>4, <2>5, MergeShows
<1>25. L1IsPartitioned'
  <2>1. ASSUME NEW i \in DOMAIN l1', NEW j \in DOMAIN l1', i < j
        PROVE  /\ l1'[i].smallest <= l1'[j].smallest
               /\ l1'[i].largest < l1'[j].smallest \/ l1'[i].blocks = << >> \/ l1'[j].blocks = << >>
    <3>1. i \in 1 .. Len(l1') /\ j \in 1 .. Len(l1') BY <1>17, LenProperties
    <3>2. BySmallest(l1'[i], l1'[j]) /\ l1'[i] # l1'[j] BY <1>17, <2>1, <3>1
    <3> DEFINE s == l1'
    <3>3. s \in Seq(new) BY <1>17
    <3> HIDE DEF s, new
    <3>4. i \in 1 .. Len(s) /\ j \in 1 .. Len(s) /\ BySmallest(s[i], s[j]) /\ s[i] # s[j] BY <3>1, <3>2 DEF s
    <3>5. Divided(new) BY <1>16 DEF new
    <3>6. /\ s[i].smallest <= s[j].smallest
          /\ s[i].largest < s[j].smallest \/ s[i].blocks = << >> \/ s[j].blocks = << >>
      BY ONLY <1>18, <3>3, <3>4, <3>5, SortedDivides
    <3> QED BY <3>6 DEF s
  <2>2. ASSUME NEW m \in ToSet(l1'), NEW i \in DOMAIN Stream(m.blocks), NEW j \in DOMAIN Stream(m.blocks)
        PROVE  ~Stream(m.blocks)[i].del /\ (i < j => Stream(m.blocks)[i].key < Stream(m.blocks)[j].key)
    <3>1. m \in rem \/ m = out BY <1>17
    <3>2. CASE m \in rem
      <4>1. m \in ToSet(l1) BY <1>8, <3>2 DEF old
      <4> QED BY <1>2, <4>1 DEF L1IsPartitioned
    <3>3. CASE m = out
      <4> DEFINE es == Stream(out.blocks)
      <4>1. es \in Seq(Entries) BY <1>15, TableFacts
      <4>2. i \in 1 .. Len(es) /\ j \in 1 .. Len(es) BY <3>3, <4>1, LenProperties
      <4>3. es[i] \in Holds(out) BY <3>3 DEF Holds, ToSet
      <4>4. ~es[i].del BY <1>15, <4>3
      <4>5. i < j => es[i].key < es[j].key BY <1>15, <4>2 DEF Rising
      <4> QED BY <3>3, <4>4, <4>5
    <3> QED BY <3>1, <3>2, <3>3
  <2> QED BY <2>1, <2>2 DEF L1IsPartitioned
<1>26. FilesHoldLatest'
  <2>1. ASSUME NEW k \in Keys, latest'[k] # Nothing
        PROVE  \E m \in files' : Entry(k, latest'[k], FALSE) \in ToSet(Stream(m.blocks))
    <3>1. \E m \in new : Entry(k, now[k], FALSE) \in ToSet(Stream(m.blocks))
      <4>1. now[k] # Nothing BY <2>1 DEF now
      <4> HIDE DEF new
      <4> QED BY <1>24, <4>1, ShowsStored
    <3> QED BY <1>22, <3>1 DEF now
  <2> QED BY <2>1 DEF FilesHoldLatest
<1>27. Current'
  <2>1. Held(Levels') \subseteq Held(Levels \cup {t})
    <3>1. Held(rem \cup {out}) = Held(rem) \cup Held({out}) BY HeldUnion
    <3>2. Held({out}) = Holds(out) BY HeldOne
    <3>3. Holds(out) \subseteq ins BY <1>15
    <3> QED BY <1>13, <1>20, <3>1, <3>2, <3>3
  <2>2. Unique(Held(Levels')) BY <1>1, <2>1 DEF Unique
  <2>3. UpTo(Held(Levels'), flushed') BY <1>1, <2>1 DEF UpTo
  <2>4. \A m, n \in ToSet(l1') : m.id = n.id => m = n BY <1>16, <1>17 DEF Apart
  <2>5. Shows(Held(Levels'), latest') BY <1>20, <1>24 DEF now
  <2>6. Levels' \subseteq files' BY <1>20, <1>22
  <2>7. Held(ToSet(l0')) = {} /\ 1 .. Len(l0') = {} BY <1>19 DEF Held
  <2> QED BY <1>19, <2>2, <2>3, <2>4, <2>5, <2>6, <2>7 DEF Current
<1> QED BY <1>23, <1>25, <1>26, <1>27 DEF IInv
-----------------------------------------------------------------------------
(* Lookups *)

\* A table of the levels answers with entries of the key only, and its newest
\* entry of the key is among the answers.
LEMMA LevelAnswers ==
  ASSUME Typed, Current, NEW k \in Keys, NEW t \in Levels
  PROVE  /\ \A g \in Answers(t, k) : g \in Holds(t) /\ g.key = k
         /\ \A e : Newest(Holds(t), e, k) =>
              e \in Answers(t, k) /\ (Answers(t, k) = {e} \/ Cardinality(Ending(t.blocks, k)) > 1)
         /\ \A a \in Holds(t) : a.key = k => Answers(t, k) # {}
<1> DEFINE G == TableGet(t.blocks, t.filter, k)
<1>1. t \in AllTables
  <2>1. ToSet(l0) \in SUBSET AllTables /\ ToSet(l1) \in SUBSET AllTables BY ToSetFinite DEF Typed
  <2> QED BY <2>1 DEF Levels
<1>2. t \in files BY DEF Current
<1>3. /\ \A g \in G : g \in Holds(t) /\ g.key = k
      /\ \A e : Newest(Holds(t), e, k) => e \in G /\ (G = {e} \/ Cardinality(Ending(t.blocks, k)) > 1)
  BY <1>1, TableAnswers
<1>4. \A e \in Holds(t) : e.key = k => InRange(t, k) BY <1>1, TableFacts DEF InRange
<1>5. InRange(t, k) => Answers(t, k) = G BY <1>2 DEF Answers
<1>6. ~InRange(t, k) => Answers(t, k) = {} BY DEF Answers
<1> HIDE DEF G
<1>7. \A g \in Answers(t, k) : g \in Holds(t) /\ g.key = k BY <1>3, <1>5, <1>6
<1>8. ASSUME NEW e, Newest(Holds(t), e, k)
      PROVE  e \in Answers(t, k) /\ (Answers(t, k) = {e} \/ Cardinality(Ending(t.blocks, k)) > 1)
  <2>1. InRange(t, k) BY <1>4, <1>8 DEF Newest
  <2> QED BY <1>3, <1>5, <1>8, <2>1
<1>9. ASSUME NEW a \in Holds(t), a.key = k PROVE Answers(t, k) # {}
  <2>1. Holds(t) \in SUBSET Entries BY <1>1, TableFacts
  <2>2. PICK e : Newest(Holds(t), e, k) BY <1>9, <2>1, NewestExists
  <2> QED BY <1>8, <2>2
<1> QED BY <1>7, <1>8, <1>9

\* The answers of the newest L0 table that has some.
Upper(k) == Answers(l0[Max({i \in DOMAIN l0 : Answers(l0[i], k) # {}})], k)

\* L0 has an answer: the newest table that has the key has its newest entry.
LEMMA FoundInL0 ==
  ASSUME Typed, Current, NEW k \in Keys, {i \in DOMAIN l0 : Answers(l0[i], k) # {}} # {}
  PROVE  \E e : /\ Newest(Held(Levels), e, k) /\ e \in Upper(k)
                /\ Upper(k) = {e} \/ SplitVersions(k)
<1> DEFINE hits == {i \in DOMAIN l0 : Answers(l0[i], k) # {}}
           M == Max(hits)
           t == l0[M]
<1>1. l0 \in Seq(AllTables) /\ Len(l0) \in Nat /\ DOMAIN l0 = 1 .. Len(l0) /\ l1 \in Seq(AllTables)
  BY LenProperties DEF Typed
<1>2. M \in hits /\ \A i \in hits : i <= M
  <2>1. hits # {} OBVIOUS
  <2>2. \A i \in 1 .. Len(l0) : i \in 0 .. Len(l0) BY <1>1
  <2>3. hits \subseteq 0 .. Len(l0) BY <1>1, <2>2
  <2> HIDE DEF hits
  <2> QED BY <1>1, <2>1, <2>3, MaxIs
<1>3. Upper(k) = Answers(t, k) BY DEF Upper
<1>4. M \in 1 .. Len(l0) /\ Answers(t, k) # {} BY <1>1, <1>2
<1>5. \A i \in 1 .. Len(l0) : i > M => Answers(l0[i], k) = {}
  <2> TAKE i \in 1 .. Len(l0)
  <2> HAVE i > M
  <2>1. i \notin hits
    <3>1. M \in Nat /\ i \in Nat BY <1>1, <1>4
    <3> HIDE DEF hits, M
    <3>2. i \in hits => i <= M BY <1>2
    <3> QED BY <3>1, <3>2
  <2> QED BY <1>1, <2>1
<1>6. \A i \in 1 .. Len(l0) : l0[i] \in Levels /\ l0[i] \in ToSet(l0) BY <1>1 DEF Levels, ToSet
<1> HIDE DEF hits, M
<1>7. t \in Levels /\ t \in AllTables BY <1>1, <1>4, <1>6, ElementOfSeq
<1>8. PICK a \in Holds(t) : a.key = k BY <1>4, <1>7, LevelAnswers
<1>9. Holds(t) \in SUBSET Entries BY <1>7, TableFacts
<1>10. PICK e : Newest(Holds(t), e, k) BY <1>8, <1>9, NewestExists
<1>11. e \in Answers(t, k) /\ (Answers(t, k) = {e} \/ Cardinality(Ending(t.blocks, k)) > 1)
  BY <1>7, <1>10, LevelAnswers
<1>12. e \in Holds(t) /\ e.key = k BY <1>10 DEF Newest
<1>13. \A x \in Levels : x \in AllTables BY <1>1, ToSetFinite DEF Levels
<1>14. e.seq \in Nat BY <1>9, <1>12, EntryTypes
<1>15. ASSUME NEW f \in Held(Levels), f.key = k PROVE f.seq <= e.seq
  <2>1. PICK u \in Levels : f \in Holds(u) BY DEF Held
  <2>2. f.seq \in Nat
    <3>1. Holds(u) \subseteq Entries BY <1>13, TableFacts
    <3> QED BY <2>1, <3>1, EntryTypes
  <2>3. CASE u \in ToSet(l1)
    <3>1. f \in Held(ToSet(l1)) /\ e \in Held(ToSet(l0)) BY <1>4, <1>6, <1>12, <2>1, <2>3 DEF Held
    <3>2. f.seq < e.seq BY <3>1 DEF Current
    <3> QED BY <1>14, <2>2, <3>2
  <2>4. CASE u \in ToSet(l0)
    <3>1. PICK i \in 1 .. Len(l0) : u = l0[i] BY <1>1, <2>4, ToSetFinite
    <3>2. Answers(u, k) # {} BY <1>15, <2>1, LevelAnswers
    <3>3. ~(i > M) BY <1>5, <3>1, <3>2
    <3>4. CASE i = M
      <4>1. f \in Holds(t) BY <2>1, <3>1, <3>4
      <4> QED BY <1>10, <1>15, <4>1 DEF Newest
    <3>5. CASE i # M
      <4>1. i < M BY <1>1, <1>4, <3>3, <3>5
      <4>2. f.seq < e.seq BY <1>4, <1>12, <2>1, <3>1, <4>1 DEF Current
      <4> QED BY <1>14, <2>2, <4>2
    <3> QED BY <3>4, <3>5
  <2> QED BY <2>3, <2>4 DEF Levels
<1>16. Newest(Held(Levels), e, k) BY <1>7, <1>12, <1>15 DEF Newest, Held
<1>17. ASSUME Answers(t, k) # {e} PROVE SplitVersions(k)
  <2>1. Cardinality({b \in DOMAIN t.blocks : LastKey(t.blocks[b]) = k}) > 1 BY <1>11, <1>17 DEF Ending
  <2>2. \A j \in M + 1 .. Len(l0) : Answers(l0[j], k) = {}
    <3> TAKE j \in M + 1 .. Len(l0)
    <3>1. j \in 1 .. Len(l0) /\ j > M BY <1>1, <1>4
    <3> QED BY <1>5, <3>1
  <2>3. M \in DOMAIN l0 BY <1>1, <1>4
  <2> QED BY <2>1, <2>2, <2>3 DEF SplitVersions
<1> QED BY <1>3, <1>11, <1>16, <1>17

\* L0 has none, but L1: the search by smallest key finds the one table with the
\* key, which has one entry of it.
LEMMA FoundInL1 ==
  ASSUME Typed, Current, L1IsPartitioned, NEW k \in Keys, {i \in DOMAIN l0 : Answers(l0[i], k) # {}} = {},
         NEW a \in Held(Levels), a.key = k, ~Hidden(k)
  PROVE  \E e : \E i \in DOMAIN l1 :
           Newest(Held(Levels), e, k) /\ Targets(k) = {i} /\ Answers(l1[i], k) = {e}
<1>1. /\ l1 \in Seq(AllTables) /\ Len(l1) \in Nat /\ DOMAIN l1 = 1 .. Len(l1)
      /\ l0 \in Seq(AllTables) /\ DOMAIN l0 = 1 .. Len(l0)
  BY LenProperties DEF Typed
<1>2. \A i \in 1 .. Len(l1) : l1[i] \in Levels /\ l1[i] \in ToSet(l1) /\ l1[i] \in AllTables
  BY <1>1, ElementOfSeq DEF Levels, ToSet
<1>3. k \in Nat BY KeysAssumption DEF Keys
\* Every entry of the key is in L1.
<1>4. ASSUME NEW f \in Held(Levels), f.key = k PROVE \E i \in 1 .. Len(l1) : f \in Holds(l1[i])
  <2>1. PICK u \in Levels : f \in Holds(u) BY DEF Held
  <2>2. Answers(u, k) # {} BY <1>4, <2>1, LevelAnswers
  <2>3. u \notin ToSet(l0)
    <3> SUFFICES ASSUME u \in ToSet(l0) PROVE FALSE OBVIOUS
    <3>1. PICK i \in 1 .. Len(l0) : u = l0[i] BY <1>1, ToSetFinite
    <3> QED BY <1>1, <2>2, <3>1
  <2>4. u \in ToSet(l1) BY <2>3 DEF Levels
  <2>5. PICK i \in 1 .. Len(l1) : u = l1[i] BY <1>1, <2>4, ToSetFinite
  <2> QED BY <2>1, <2>5
\* Where the key is, is the one table that the search may lead to.
<1>5. ASSUME NEW i \in 1 .. Len(l1), NEW f \in Holds(l1[i]), f.key = k PROVE Targets(k) = {i}
  <2> DEFINE equal == {j \in DOMAIN l1 : l1[j].smallest = k}
             below == {j \in DOMAIN l1 : l1[j].smallest < k}
  <2>1. \A j \in 1 .. Len(l1) : /\ l1[j].smallest \in Nat /\ l1[j].largest \in Nat /\ l1[j].smallest >= 1
                                /\ l1[j].smallest <= l1[j].largest
                                /\ l1[j].blocks = << >> => l1[j].smallest = 1
    BY <1>2, TableFacts
  <2>2. l1[i].smallest <= k /\ k <= l1[i].largest /\ l1[i].blocks # << >> BY <1>2, <1>5, TableFacts
  <2>3. Answers(l1[i], k) # {} BY <1>2, <1>5, LevelAnswers
  <2>4. ASSUME NEW t \in ToSet(l0) PROVE Answers(t, k) = {}
    <3>1. PICK j \in 1 .. Len(l0) : t = l0[j] BY <1>1, ToSetFinite
    <3> QED BY <1>1, <3>1
  <2>5. ASSUME NEW j \in 1 .. Len(l1), l1[j].blocks = << >>, l1[j].smallest = l1[i].smallest
        PROVE  ~(i < j) /\ k # l1[i].smallest
    BY <1>1, <2>3, <2>4, <2>5 DEF Hidden
  <2>6. ASSUME NEW j \in 1 .. Len(l1), l1[j].blocks # << >>, j # i
        PROVE  l1[j].largest < l1[i].smallest \/ l1[i].largest < l1[j].smallest
    <3>1. i < j \/ j < i BY <1>1, <2>6
    <3> QED BY <1>1, <2>2, <2>6, <3>1 DEF L1IsPartitioned
  <2>7. CASE l1[i].smallest = k
    <3>1. i \in equal BY <1>1, <2>7
    <3>2. ASSUME NEW j \in equal, j # i PROVE FALSE
      <4>1. j \in 1 .. Len(l1) /\ l1[j].smallest = k BY <1>1, <3>2
      <4>2. l1[j].blocks # << >> BY <2>5, <2>7, <4>1
      <4>3. l1[j].largest < l1[i].smallest \/ l1[i].largest < l1[j].smallest BY <2>6, <3>2, <4>1, <4>2
      <4> QED BY <1>3, <2>1, <2>2, <2>7, <4>1, <4>3
    <3>3. equal = {i} BY <3>1, <3>2
    <3> QED BY <3>3 DEF Targets
  <2>8. CASE l1[i].smallest # k
    <3>0. l1[i].smallest < k BY <1>3, <2>1, <2>2, <2>8
    <3>1. equal = {}
      <4> SUFFICES ASSUME NEW j \in equal PROVE FALSE OBVIOUS
      <4>1. j \in 1 .. Len(l1) /\ l1[j].smallest = k /\ j # i BY <1>1, <2>8
      <4>2. l1[j].blocks # << >> BY <1>3, <2>1, <3>0, <4>1
      <4>3. i < j
        <5>1. ~(j < i)
          <6> SUFFICES ASSUME j < i PROVE FALSE OBVIOUS
          <6>1. l1[j].smallest <= l1[i].smallest BY <1>1, <4>1 DEF L1IsPartitioned
          <6> QED BY <1>3, <2>1, <3>0, <4>1, <6>1
        <5> QED BY <1>1, <4>1, <5>1
      <4>4. l1[i].largest < l1[j].smallest BY <1>1, <2>2, <4>1, <4>2, <4>3 DEF L1IsPartitioned
      <4> QED BY <1>3, <2>1, <2>2, <4>1, <4>4
    <3>2. i \in below /\ below \subseteq 0 .. Len(l1)
      <4>1. \A j \in 1 .. Len(l1) : j \in 0 .. Len(l1) BY <1>1
      <4> QED BY <1>1, <3>0, <4>1
    <3>3. Max(below) \in below /\ i <= Max(below)
      <4> HIDE DEF below
      <4> QED BY <1>1, <3>2, MaxIs
    <3> DEFINE m == Max(below)
    <3>4. m \in 1 .. Len(l1) /\ l1[m].smallest < k /\ i <= m BY <1>1, <3>3
    <3>5. Targets(k) = {m} BY <3>1, <3>2 DEF Targets
    <3> HIDE DEF m, below, equal
    <3>6. ~(i < m)
      <4> SUFFICES ASSUME i < m PROVE FALSE OBVIOUS
      <4>1. l1[i].smallest <= l1[m].smallest BY <1>1, <3>4 DEF L1IsPartitioned
      <4>2. CASE l1[m].blocks = << >>
        <5>1. l1[m].smallest = l1[i].smallest BY <2>1, <3>4, <4>1, <4>2
        <5> QED BY <2>5, <3>4, <4>2, <5>1
      <4>3. CASE l1[m].blocks # << >>
        <5>1. l1[i].largest < l1[m].smallest BY <1>1, <2>2, <3>4, <4>3 DEF L1IsPartitioned
        <5> QED BY <1>3, <2>1, <2>2, <3>4, <5>1
      <4> QED BY <4>2, <4>3
    <3>7. m = i BY <1>1, <3>4, <3>6
    <3> QED BY <3>5, <3>7
  <2> QED BY <2>7, <2>8
<1>6. PICK i \in 1 .. Len(l1) : a \in Holds(l1[i]) BY <1>4
<1> DEFINE t == l1[i]
<1>7. Targets(k) = {i} BY <1>5, <1>6
<1>10. \A f \in Held(Levels) : f.key = k => f \in Holds(t)
  <2> TAKE f \in Held(Levels)
  <2> HAVE f.key = k
  <2>1. PICK j \in 1 .. Len(l1) : f \in Holds(l1[j]) BY <1>4
  <2>2. Targets(k) = {j} BY <1>5, <2>1
  <2>3. j = i BY <1>7, <2>2
  <2> QED BY <2>1, <2>3
<1>11. Holds(t) \in SUBSET Entries BY <1>2, TableFacts
<1>12. PICK e : Newest(Holds(t), e, k) BY <1>6, <1>11, NewestExists
<1>13. Newest(Held(Levels), e, k) BY <1>2, <1>10, <1>12 DEF Newest, Held
<1>14. ASSUME NEW f \in Holds(t), NEW g \in Holds(t), f.key = k, g.key = k PROVE f = g
  <2> DEFINE es == Stream(t.blocks)
  <2>1. es \in Seq(Entries) BY <1>2, TableFacts
  <2>2. Len(es) \in Nat /\ DOMAIN es = 1 .. Len(es) BY <2>1, LenProperties
  <2>3. \A x, y \in 1 .. Len(es) : x < y => es[x].key < es[y].key BY <1>2, <2>2 DEF L1IsPartitioned
  <2>4. Holds(t) = ToSet(es) BY DEF Holds
  <2> HIDE DEF es
  <2>5. PICK x \in 1 .. Len(es) : f = es[x] BY <2>2, <2>4 DEF ToSet
  <2>6. PICK y \in 1 .. Len(es) : g = es[y] BY <2>2, <2>4 DEF ToSet
  <2>7. ~(x < y) /\ ~(y < x) BY <1>3, <1>14, <2>3, <2>5, <2>6
  <2>8. x = y BY <2>2, <2>7
  <2> QED BY <2>5, <2>6, <2>8
<1>15. Answers(t, k) = {e}
  <2>1. e \in Answers(t, k) /\ \A g \in Answers(t, k) : g \in Holds(t) /\ g.key = k BY <1>2, <1>12, LevelAnswers
  <2>2. e \in Holds(t) /\ e.key = k BY <1>12 DEF Newest
  <2> QED BY <1>14, <2>1, <2>2
<1> QED BY <1>1, <1>7, <1>13, <1>15

LEMMA NotFound ==
  ASSUME Typed, Current, NEW k \in Keys, \A f \in Held(Levels) : f.key # k
  PROVE  Visible(k) = {Nothing}
<1>1. /\ l1 \in Seq(AllTables) /\ Len(l1) \in Nat /\ DOMAIN l1 = 1 .. Len(l1)
      /\ l0 \in Seq(AllTables) /\ DOMAIN l0 = 1 .. Len(l0)
  BY LenProperties DEF Typed
<1>2. \A t \in Levels : Answers(t, k) = {}
  <2> SUFFICES ASSUME NEW t \in Levels, NEW g \in Answers(t, k) PROVE FALSE OBVIOUS
  <2>1. g \in Holds(t) /\ g.key = k BY LevelAnswers
  <2> QED BY <2>1 DEF Held
<1>3. {i \in DOMAIN l0 : Answers(l0[i], k) # {}} = {} BY <1>1, <1>2 DEF Levels, ToSet
<1>4. Targets(k) \subseteq DOMAIN l1
  <2> DEFINE below == {i \in DOMAIN l1 : l1[i].smallest < k}
  <2>1. below # {} => Max(below) \in DOMAIN l1
    <3>1. below \subseteq 0 .. Len(l1) /\ below \subseteq DOMAIN l1 BY <1>1
    <3> HIDE DEF below
    <3> QED BY <1>1, <3>1, MaxIs
  <2> QED BY <2>1 DEF Targets
<1>5. ASSUME NEW i \in Targets(k) PROVE Values(Answers(l1[i], k)) = {Nothing}
  <2>1. l1[i] \in Levels BY <1>4 DEF Levels, ToSet
  <2> QED BY <1>2, <2>1 DEF Values
<1>6. Targets(k) # {} => UNION {Values(Answers(l1[i], k)) : i \in Targets(k)} = {Nothing} BY <1>5
<1> QED BY <1>3, <1>6 DEF Visible

\* The value of a lookup, unless a table without keys is in the way.
LEMMA Looked ==
  ASSUME Typed, Current, L1IsPartitioned, NEW k \in Keys, NEW a \in Held(Levels), a.key = k, ~Hidden(k)
  PROVE  \E e, found : /\ Newest(Held(Levels), e, k) /\ e \in found /\ Visible(k) = Values(found)
                       /\ found = {e} \/ SplitVersions(k)
<1> DEFINE hits == {i \in DOMAIN l0 : Answers(l0[i], k) # {}}
<1>1. CASE hits # {}
  <2>1. Visible(k) = Values(Upper(k)) BY <1>1 DEF Visible, Upper
  <2>2. \E e : /\ Newest(Held(Levels), e, k) /\ e \in Upper(k)
               /\ Upper(k) = {e} \/ SplitVersions(k)
    BY <1>1, FoundInL0
  <2> QED BY <2>1, <2>2
<1>2. CASE hits = {}
  <2>0. PICK e : \E i \in DOMAIN l1 :
          Newest(Held(Levels), e, k) /\ Targets(k) = {i} /\ Answers(l1[i], k) = {e}
    BY <1>2, FoundInL1
  <2>1. PICK i \in DOMAIN l1 :
          Newest(Held(Levels), e, k) /\ Targets(k) = {i} /\ Answers(l1[i], k) = {e}
    BY <2>0
  <2>2. UNION {Values(Answers(l1[j], k)) : j \in Targets(k)} = Values({e}) BY <2>1
  <2>3. Visible(k) = Values({e}) BY <1>2, <2>1, <2>2 DEF Visible
  <2> QED BY <2>1, <2>3
<1> QED BY <1>1, <1>2

LEMMA LooksUpLatest ==
  ASSUME IInv
  PROVE  LookupIsLatest
<1> SUFFICES ASSUME ~poisoned, NEW k \in Keys
             PROVE  \/ Visible(k) = {latest[k]}
                    \/ latest[k] \in Visible(k) /\ SplitVersions(k)
                    \/ Hidden(k)
  BY DEF LookupIsLatest
<1> SUFFICES ASSUME ~Hidden(k)
             PROVE  \/ Visible(k) = {latest[k]}
                    \/ latest[k] \in Visible(k) /\ SplitVersions(k)
  OBVIOUS
<1> DEFINE A == Held(Levels)
           value(e) == IF e.del THEN Nothing ELSE e.seq
<1>1. Typed /\ Current /\ L1IsPartitioned BY DEF IInv
<1>2. Shows(A, latest) /\ Unique(A) BY <1>1 DEF Current
<1>3. CASE \A f \in A : f.key # k
  <2>1. Visible(k) = {Nothing} BY <1>1, <1>3, NotFound
  <2>2. latest[k] = Nothing BY <1>2, <1>3 DEF Shows, Newest
  <2> QED BY <2>1, <2>2
<1>4. CASE ~\A f \in A : f.key # k
  <2>1. PICK a \in A : a.key = k BY <1>4
  <2>2. \E e, found : /\ Newest(A, e, k) /\ e \in found /\ Visible(k) = Values(found)
                      /\ found = {e} \/ SplitVersions(k)
    BY <1>1, <2>1, Looked
  <2>3. PICK e, found : /\ Newest(A, e, k) /\ e \in found /\ Visible(k) = Values(found)
                        /\ found = {e} \/ SplitVersions(k)
    BY <2>2
  <2>4. A \in SUBSET Entries
    <3>1. Levels \in SUBSET AllTables BY <1>1, ToSetFinite DEF Typed, Levels
    <3> QED BY <3>1, HeldEntries
  <2>5. latest[k] = value(e)
    <3>1. CASE latest[k] = Nothing
      <4>1. e.del BY <1>2, <2>3, <3>1 DEF Shows, Newest
      <4> QED BY <3>1, <4>1
    <3>2. CASE latest[k] # Nothing
      <4> DEFINE f == Entry(k, latest[k], FALSE)
      <4>1. Newest(A, f, k) BY <1>2, <3>2 DEF Shows
      <4>2. f.key = k /\ f.seq = latest[k] /\ ~f.del BY DEF Entry
      <4> HIDE DEF f
      <4>3. e \in A /\ f \in A /\ e.key = k /\ e.seq <= f.seq /\ f.seq <= e.seq BY <2>3, <4>1, <4>2 DEF Newest
      <4>4. e.seq \in Nat /\ f.seq \in Nat BY <2>4, <4>3, EntryTypes
      <4>5. e = f BY <1>2, <4>2, <4>3, <4>4 DEF Unique
      <4> QED BY <4>2, <4>5
    <3> QED BY <3>1, <3>2
  <2>6. Visible(k) = {value(x) : x \in found} BY <2>3 DEF Values
  <2> HIDE DEF value
  <2> QED BY <2>3, <2>5, <2>6
<1> QED BY <1>3, <1>4
-----------------------------------------------------------------------------
(* Theorems *)

LEMMA NextInv == IInv /\ [Next]_vars => IInv'
<1> SUFFICES ASSUME IInv, [Next]_vars PROVE IInv' OBVIOUS
<1>1. CASE Next
  <2>1. PICK h \in Memtables :
          LET t == NewTable(MemtableEntries(h, flushed + 1))
          IN  /\ latest' = [k \in Keys |-> Latest(h, flushed + 1, k)]
              /\ Flush(t) \/ FlushCompacts(t) \/ FlushPanics(t)
    BY <1>1 DEF Next
  <2> DEFINE t == NewTable(MemtableEntries(h, flushed + 1))
  <2>2. Flushing(h, t) BY <1>1, <2>1 DEF Next, Flushing
  <2>3. Flush(t) \/ FlushCompacts(t) \/ FlushPanics(t) BY <2>1
  <2> HIDE DEF t
  <2>4. CASE Flush(t) BY <2>2, <2>4, FlushInv
  <2>5. CASE FlushCompacts(t) BY <2>2, <2>5, FlushCompactsInv
  <2>6. CASE FlushPanics(t) BY <2>2, <2>6, FlushPanicsInv
  <2> QED BY <2>3, <2>4, <2>5, <2>6
<1>2. CASE UNCHANGED vars
  <2>1. /\ l0' = l0 /\ l1' = l1 /\ files' = files /\ next_id' = next_id /\ poisoned' = poisoned
        /\ flushed' = flushed /\ latest' = latest
    BY <1>2 DEF vars
  <2>2. Levels' = Levels BY <2>1 DEF Levels
  <2>3. Typed' BY <2>1, <2>2 DEF IInv, Typed
  <2>4. L1IsPartitioned' BY <2>1 DEF IInv, L1IsPartitioned
  <2>5. FilesHoldLatest' BY <2>1 DEF IInv, FilesHoldLatest
  <2>6. Current => Current' BY <2>1, <2>2 DEF Current
  <2> QED BY <2>1, <2>3, <2>4, <2>5, <2>6 DEF IInv
<1> QED BY <1>1, <1>2

\* The inductive invariant of the levels.
THEOREM LevelsInvariant == Spec => []IInv
  BY InitInv, NextInv, PTL DEF Spec

\* Every table in memory or on disk is well formed, with ids below the counter and
\* sequence numbers below the bound (manager.rs, writer.rs).
THEOREM TypeCorrect == Spec => []TypeOK
<1>1. IInv => TypeOK
  <2> SUFFICES ASSUME IInv PROVE TypeOK OBVIOUS
  <2>1. Typed BY DEF IInv
  <2>2. Levels \in SUBSET AllTables /\ files \in SUBSET AllTables BY <2>1, ToSetFinite DEF Typed, Levels
  <2>3. ASSUME NEW t \in ToSet(l0) \cup ToSet(l1) \cup files
        PROVE  /\ t.id \in 1 .. next_id - 1
               /\ t.smallest \in Keys /\ t.largest \in Keys
               /\ t.blocks \in Seq(Seq([key : Keys, seq : 1 .. MaxVersions * MaxTables, del : BOOLEAN]))
    <3>1. t \in Levels \cup files /\ t \in AllTables BY <2>2 DEF Levels
    <3>2. t.id \in 1 .. next_id - 1 BY <2>1, <3>1 DEF Typed
    <3>3. t.smallest \in Keys /\ t.largest \in Keys /\ t.blocks \in Seq(Seq(Entries))
      BY <3>1, TableFacts
    <3> QED BY <3>2, <3>3 DEF Entries
  <2> QED BY <2>1, <2>3 DEF Typed, TypeOK
<1> QED BY <1>1, LevelsInvariant, PTL

\* A lookup through the levels answers with the newest write, whatever was
\* flushed and compacted before, unless versions of the key end several blocks
\* of one L0 table, or a table without keys hides the one that begins with the
\* empty key (manager.rs, merge.rs, reader.rs, EngineNode::get).
THEOREM LookupsReturnLatest == Spec => []LookupIsLatest
<1>1. IInv => LookupIsLatest BY LooksUpLatest
<1> QED BY <1>1, LevelsInvariant, PTL

\* The L1 tables are in order and those with keys apart; in them every key occurs
\* once, without tombstones (manager.rs lines 52-113).
THEOREM L1StaysPartitioned == Spec => []L1IsPartitioned
<1>1. IInv => L1IsPartitioned BY DEF IInv
<1> QED BY <1>1, LevelsInvariant, PTL

\* Some file holds the newest value of every key, also after a compaction that
\* failed half-way or could not remove all of its inputs (manager.rs).
THEOREM FilesKeepLatest == Spec => []FilesHoldLatest
<1>1. IInv => FilesHoldLatest BY DEF IInv
<1> QED BY <1>1, LevelsInvariant, PTL
=============================================================================
