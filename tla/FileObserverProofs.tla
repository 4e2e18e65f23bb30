------------------------ MODULE FileObserverProofs ------------------------
(***************************************************************************)
(* Theorems about FileObserver, for any observers, inodes, lines and       *)
(* bounds.  The invariants come in layers, each proved with the ones       *)
(* before it: types, what the file is, what offsets cover, how events are  *)
(* numbered, what the incident tells, and the order of lines.              *)
(***************************************************************************)
EXTENDS FileObserver, FiniteSetTheorems, SequenceTheorems, WellFoundedInduction, TLAPS

\* A set with 0 and the successors of its members has every natural number:
\* induction over the set of the numbers that have a property.
LEMMA Induction ==
  ASSUME NEW N, 0 \in N, \A n \in Nat : n \in N => n + 1 \in N
  PROVE  \A n \in Nat : n \in N
<1> DEFINE Less == OpToRel(<, Nat)
           F == Nat \ N
<1>1. \A x, y \in Nat : x < y => <<x, y>> \in Less
  BY DEF OpToRel
<1>2. IsWellFoundedOn(Less, Nat)
  BY NatLessThanWellFounded
<1> SUFFICES ASSUME F # {} PROVE FALSE
  OBVIOUS
<1> HIDE DEF Less
<1>3. F \subseteq Nat
  OBVIOUS
<1>4. PICK m \in F : \A y \in F : <<y, m>> \notin Less
  <2> HIDE DEF F
  <2> QED BY <1>2, <1>3, WFMin
<1>5. m \in Nat /\ m - 1 \in Nat /\ m - 1 < m
  BY <1>4
<1>6. m - 1 \in N
  BY <1>1, <1>4, <1>5
<1>7. m - 1 + 1 = m
  BY <1>5
<1> QED BY <1>4, <1>5, <1>6, <1>7

-----------------------------------------------------------------------------
(* Sets of positions as sequences.                                         *)

IsAscending(s, ps) ==
  /\ s \in [1..Cardinality(ps) -> ps]
  /\ \A i, j \in DOMAIN s : i < j => s[i] < s[j]

\* Any set of positions has its sequence.
LEMMA AscendingExists ==
  ASSUME NEW b \in Nat, NEW ps \in SUBSET (1..b)
  PROVE  IsFiniteSet(ps) /\ \E s : IsAscending(s, ps)
<1> DEFINE Good(n) == \A qs \in SUBSET (1..n) : IsFiniteSet(qs) /\ \E s : IsAscending(s, qs)
           N == { n \in Nat : Good(n) }
<1>1. 0 \in N
  <2> SUFFICES ASSUME NEW qs \in SUBSET (1..0)
               PROVE  IsFiniteSet(qs) /\ \E s : IsAscending(s, qs)
    OBVIOUS
  <2>1. qs = {}
    OBVIOUS
  <2>2. IsFiniteSet(qs) /\ Cardinality(qs) = 0
    BY <2>1, FS_EmptySet
  <2>3. IsAscending([i \in 1..0 |-> i], qs)
    BY <2>1, <2>2 DEF IsAscending
  <2> QED BY <2>2, <2>3
<1>2. ASSUME NEW n \in Nat, n \in N
      PROVE  n + 1 \in N
  <2> SUFFICES ASSUME NEW qs \in SUBSET (1..(n + 1))
               PROVE  IsFiniteSet(qs) /\ \E s : IsAscending(s, qs)
    OBVIOUS
  <2>1. Good(n)
    BY <1>2
  <2>2. CASE n + 1 \notin qs
    <3>1. qs \in SUBSET (1..n)
      BY <2>2
    <3> QED BY <2>1, <3>1
  <2>3. CASE n + 1 \in qs
    <3> DEFINE rs == qs \ {n + 1}
               c == Cardinality(rs)
    <3>1. rs \in SUBSET (1..n)
      OBVIOUS
    <3>2. IsFiniteSet(rs) /\ \E s : IsAscending(s, rs)
      BY <2>1, <3>1
    <3>3. PICK s : IsAscending(s, rs)
      BY <3>2
    <3>4. IsFiniteSet(rs \cup {n + 1}) /\ Cardinality(rs \cup {n + 1}) = c + 1
      BY <3>2, FS_AddElement
    <3>5. rs \cup {n + 1} = qs
      BY <2>3
    <3>6. c \in Nat
      BY <3>2, FS_CardinalityType
    <3> DEFINE t == [i \in 1..(c + 1) |-> IF i = c + 1 THEN n + 1 ELSE s[i]]
    <3>7. \A i \in 1..c : s[i] \in rs /\ s[i] \in 1..n
      BY <3>1, <3>3 DEF IsAscending
    <3>8. \A i, j \in 1..c : i < j => s[i] < s[j]
      BY <3>3 DEF IsAscending
    <3> HIDE DEF c, rs
    <3>9. t \in [1..(c + 1) -> qs]
      BY <3>5, <3>6, <3>7, <2>3 DEF rs
    <3>10. ASSUME NEW i \in 1..(c + 1), NEW j \in 1..(c + 1), i < j
           PROVE  t[i] < t[j]
      <4>1. i \in 1..c /\ t[i] = s[i]
        BY <3>6, <3>10
      <4>2. CASE j = c + 1
        BY <3>6, <3>7, <4>1, <4>2
      <4>3. CASE j # c + 1
        BY <3>6, <3>8, <3>10, <4>1, <4>3
      <4> QED BY <4>2, <4>3
    <3>11. DOMAIN t = 1..(c + 1)
      OBVIOUS
    <3> HIDE DEF t
    <3>12. IsAscending(t, qs)
      BY <3>4, <3>5, <3>9, <3>10, <3>11 DEF IsAscending
    <3> QED BY <3>4, <3>5, <3>12
  <2> QED BY <2>2, <2>3
<1> HIDE DEF N
<1>3. \A n \in Nat : n \in N
  BY <1>1, <1>2, Induction
<1> QED BY <1>3 DEF N

\* Ascending has every position once, in order.
LEMMA AscendingIs ==
  ASSUME NEW b \in Nat, NEW ps \in SUBSET (1..b)
  PROVE  /\ Ascending(ps) \in Seq(Nat)
         /\ \A i \in DOMAIN Ascending(ps) : Ascending(ps)[i] \in ps
         /\ \A i, j \in DOMAIN Ascending(ps) : i < j => Ascending(ps)[i] < Ascending(ps)[j]
         /\ \A p \in ps : \E i \in DOMAIN Ascending(ps) : Ascending(ps)[i] = p
         /\ Ascending(ps) = << >> <=> ps = {}
<1> DEFINE s == Ascending(ps)
           n == Cardinality(ps)
<1>1. IsFiniteSet(ps) /\ \E t : IsAscending(t, ps)
  BY AscendingExists
<1>2. n \in Nat
  BY <1>1, FS_CardinalityType
<1>3. IsAscending(s, ps)
  BY <1>1 DEF IsAscending, Ascending
<1> HIDE DEF s
<1>4. s \in [1..n -> ps] /\ \A i, j \in 1..n : i < j => s[i] < s[j]
  BY <1>3 DEF IsAscending
<1> HIDE DEF n
<1>5. DOMAIN s = 1..n /\ \A i \in 1..n : s[i] \in ps /\ s[i] \in Nat
  <2>1. \A p \in ps : p \in Nat
    OBVIOUS
  <2> QED BY <1>4, <2>1
<1>6. s \in Seq(Nat) /\ Len(s) = n
  BY <1>2, <1>4, <1>5
<1>7. \A p \in ps : \E i \in 1..n : s[i] = p
  <2> SUFFICES ASSUME NEW p \in ps, \A i \in 1..n : s[i] # p
               PROVE  FALSE
    OBVIOUS
  <2>1. IsFiniteSet(ps \ {p}) /\ Cardinality(ps \ {p}) = n - 1
    BY <1>1, FS_RemoveElement DEF n
  <2>2. IsFiniteSet(1..n) /\ Cardinality(1..n) = n
    BY <1>2, FS_Interval
  <2>3. s \in [1..n -> ps \ {p}]
    BY <1>4
  <2> DEFINE D == 1..n
             R == ps \ {p}
  <2>4. Cardinality(R) < Cardinality(D)
    BY <1>2, <2>1, <2>2
  <2> HIDE DEF D, R
  <2>5. \E x, y \in D : x # y /\ s[x] = s[y]
    <3>1. IsFiniteSet(D) /\ IsFiniteSet(R) /\ s \in [D -> R]
      BY <2>1, <2>2, <2>3 DEF D, R
    <3> QED BY <2>4, <3>1, FS_PigeonHole
  <2> USE DEF D
  <2> QED BY <1>2, <1>4, <1>5, <2>5
<1>8. s = << >> <=> ps = {}
  <2>1. s = << >> <=> n = 0
    BY <1>2, <1>6
  <2>2. n = 0 <=> ps = {}
    BY <1>1, FS_EmptySet DEF n
  <2> QED BY <2>1, <2>2
<1> QED BY <1>4, <1>5, <1>6, <1>7, <1>8 DEF s

-----------------------------------------------------------------------------
(* The operators of the model.                                             *)

\* What Recording does with each event of a batch.
NextTally(after, found, n) ==
  IF n = 0 THEN incident
  ELSE IF IsError(found[n]) THEN Occurrence(after[n - 1], found[n].line)
  ELSE after[n - 1]

\* Recording goes through the batch one event at a time.
LEMMA RecordingIs ==
  ASSUME NEW found, Len(found) \in Nat
  PROVE  /\ Recording(found)[0] = incident
         /\ \A n \in 1..Len(found) :
              Recording(found)[n] =
                IF IsError(found[n]) THEN Occurrence(Recording(found)[n - 1], found[n].line)
                ELSE Recording(found)[n - 1]
<1> DEFINE Is(g, m) == g = [n \in 0..m |-> NextTally(g, found, n)]
           N == { m \in Nat : \E g : Is(g, m) }
<1>1. 0 \in N
  <2> DEFINE g == [n \in 0..0 |-> incident]
  <2>1. g = [n \in 0..0 |-> NextTally(g, found, n)]
    BY DEF NextTally
  <2> QED BY <2>1
<1>2. ASSUME NEW m \in Nat, m \in N
      PROVE  m + 1 \in N
  <2>1. PICK g : Is(g, m)
    BY <1>2
  <2> DEFINE h == [n \in 0..(m + 1) |-> IF n = m + 1 THEN NextTally(g, found, m + 1) ELSE g[n]]
  <2>2. ASSUME NEW n \in 0..(m + 1)
        PROVE  h[n] = NextTally(h, found, n)
    <3>1. \A k \in 0..m : h[k] = g[k]
      OBVIOUS
    <3>2. CASE n = 0
      BY <2>1, <3>1, <3>2 DEF NextTally
    <3>3. CASE n # 0
      <4>1. n - 1 \in 0..m /\ h[n - 1] = g[n - 1]
        BY <2>2, <3>1, <3>3
      <4>2. NextTally(h, found, n) = NextTally(g, found, n)
        BY <3>3, <4>1 DEF NextTally
      <4>3. CASE n = m + 1
        BY <4>2, <4>3
      <4>4. CASE n # m + 1
        <5>1. n \in 0..m
          BY <2>2, <4>4
        <5>2. g[n] = NextTally(g, found, n)
          BY <2>1, <5>1
        <5> QED BY <3>1, <4>2, <5>1, <5>2
      <4> QED BY <4>3, <4>4
    <3> QED BY <3>2, <3>3
  <2>3. h = [n \in 0..(m + 1) |-> h[n]]
    OBVIOUS
  <2> HIDE DEF h
  <2>4. h = [n \in 0..(m + 1) |-> NextTally(h, found, n)]
    BY <2>2, <2>3
  <2> QED BY <2>4
<1>3. \A m \in Nat : m \in N
  <2> HIDE DEF N
  <2> QED BY <1>1, <1>2, Induction
<1>4. \E g : Is(g, Len(found))
  BY <1>3
<1> DEFINE r == Recording(found)
<1>5. r = CHOOSE g : Is(g, Len(found))
  BY DEF Recording, NextTally
<1> HIDE DEF r
<1>6. r = [n \in 0..Len(found) |-> NextTally(r, found, n)]
  BY <1>4, <1>5
<1>7. \A n \in 0..Len(found) : r[n] = NextTally(r, found, n)
  BY <1>6
<1>8. r[0] = incident
  BY <1>7 DEF NextTally
<1>9. ASSUME NEW n \in 1..Len(found)
      PROVE  r[n] = IF IsError(found[n]) THEN Occurrence(r[n - 1], found[n].line)
                    ELSE r[n - 1]
  BY <1>7, <1>9 DEF NextTally
<1> QED BY <1>8, <1>9 DEF r

Writes == [line : 1..MaxLines, end : BOOLEAN]
Founds == [type : EventTypes, line : 0..MaxLines]

\* Cursors of a file that is not there, or was never read, are at its beginning.
Rows == { c \in Cursors : c.inode \in {Missing, Unknown} => c.offset = 0 }

Stats == [cursor : Rows, origin : Nat, inode : Inodes \cup {Missing}, size : Nat, generation : Nat]
Batches == [found : Seq(Founds), cursor : Rows, origin : Nat]

\* What the assumption says of each constant.
LEMMA ConstantTypes ==
  /\ Inodes \subseteq Nat \ {0} /\ MaxLines \in Nat /\ MaxReplacements \in Nat /\ MaxRuns \in Nat
  /\ \A i \in Inodes : i \in Nat /\ i # Missing /\ i # Unknown
  BY FileAssumption DEF Missing, Unknown

\* The ends of lines behind an offset, in order.
LEMMA LineEndsAre ==
  ASSUME NEW data \in Seq(Writes), NEW start \in Nat
  PROVE  /\ LineEnds(data, start) \in Seq(Nat)
         /\ \A i \in DOMAIN LineEnds(data, start) :
              LineEnds(data, start)[i] \in (start + 1)..Len(data) /\ data[LineEnds(data, start)[i]].end
         /\ \A i, j \in DOMAIN LineEnds(data, start) :
              i < j => LineEnds(data, start)[i] < LineEnds(data, start)[j]
         /\ \A p \in (start + 1)..Len(data) :
              data[p].end => \E i \in DOMAIN LineEnds(data, start) : LineEnds(data, start)[i] = p
<1> DEFINE ps == Ends(data, start)
<1>1. Len(data) \in Nat /\ ps \in SUBSET (1..Len(data))
  BY DEF Ends
<1>2. \A p : p \in ps <=> p \in (start + 1)..Len(data) /\ data[p].end
  BY DEF Ends
<1>3. LineEnds(data, start) = Ascending(ps)
  BY DEF LineEnds
<1> HIDE DEF ps
<1> QED BY <1>1, <1>2, <1>3, AscendingIs

\* The next offset is where the last line ends, or where the read began.
LEMMA NextOffsetIs ==
  ASSUME NEW data \in Seq(Writes), NEW start \in Nat
  PROVE  /\ NextOffset(data, start) \in Nat
         /\ start <= NextOffset(data, start)
         /\ NextOffset(data, start) # start =>
              NextOffset(data, start) \in 1..Len(data) /\ data[NextOffset(data, start)].end
         /\ \A i \in DOMAIN LineEnds(data, start) :
              LineEnds(data, start)[i] <= NextOffset(data, start) /\ NextOffset(data, start) # start
         /\ \A p \in (start + 1)..Len(data) : data[p].end => p <= NextOffset(data, start)
<1> DEFINE ends == LineEnds(data, start)
<1>1. /\ ends \in Seq(Nat)
      /\ \A i \in DOMAIN ends : ends[i] \in (start + 1)..Len(data) /\ data[ends[i]].end
      /\ \A i, j \in DOMAIN ends : i < j => ends[i] < ends[j]
      /\ \A p \in (start + 1)..Len(data) : data[p].end => \E i \in DOMAIN ends : ends[i] = p
  BY LineEndsAre
<1>2. NextOffset(data, start) = IF ends = << >> THEN start ELSE ends[Len(ends)]
  BY DEF NextOffset, Last
<1> HIDE DEF ends
<1>3. CASE ends = << >>
  <2>1. NextOffset(data, start) = start /\ DOMAIN ends = {}
    BY <1>2, <1>3
  <2>2. \A p \in (start + 1)..Len(data) : ~data[p].end
    BY <1>1, <2>1
  <2> QED BY <2>1, <2>2 DEF ends
<1>4. CASE ends # << >>
  <2>1. Len(ends) \in DOMAIN ends /\ DOMAIN ends = 1..Len(ends)
    BY <1>1, <1>4
  <2>2. NextOffset(data, start) = ends[Len(ends)]
    BY <1>2, <1>4
  <2>3. ends[Len(ends)] \in (start + 1)..Len(data) /\ data[ends[Len(ends)]].end
    BY <1>1, <2>1
  <2>4. ASSUME NEW i \in DOMAIN ends
        PROVE  ends[i] <= ends[Len(ends)]
    <3>1. CASE i = Len(ends)
      BY <2>3, <3>1
    <3>2. CASE i # Len(ends)
      <4>1. i < Len(ends)
        BY <1>1, <2>1, <3>2
      <4>2. ends[i] < ends[Len(ends)]
        BY <1>1, <2>1, <4>1
      <4>3. ends[i] \in (start + 1)..Len(data)
        BY <1>1
      <4> QED BY <2>3, <4>2, <4>3
    <3> QED BY <3>1, <3>2
  <2>5. \A p \in (start + 1)..Len(data) : data[p].end => p <= ends[Len(ends)]
    BY <1>1, <2>4
  <2>6. ends[Len(ends)] \in Nat /\ start <= ends[Len(ends)] /\ ends[Len(ends)] # start
    BY <2>3
  <2> QED BY <2>2, <2>3, <2>4, <2>5, <2>6, <1>1 DEF ends
<1> QED BY <1>3, <1>4 DEF ends

\* What a stat says has become of the file.
LEMMA NoticeIs ==
  ASSUME NEW c, NEW s, s.inode # Missing
  PROVE  /\ Notice(c, s) \in {"source.available", "source.rotated", "source.truncated", "none"}
         /\ Notice(c, s) = "source.available" <=> c.inode = Missing
         /\ Notice(c, s) = "none" =>
              /\ c.inode \in {Unknown, s.inode}
              /\ ~(s.size < c.offset)
         /\ c.inode \in {Unknown, s.inode} /\ c.inode # Missing /\ ~(s.size < c.offset) =>
              Notice(c, s) = "none"
<1>1. CASE c.inode = Missing
  <2>1. Notice(c, s) = "source.available"
    BY <1>1 DEF Notice, Missing, Unknown
  <2> QED BY <1>1, <2>1
<1>2. CASE c.inode \notin {Missing, Unknown, s.inode}
  <2>1. Notice(c, s) = "source.rotated"
    BY <1>2 DEF Notice
  <2> QED BY <1>2, <2>1
<1>3. CASE c.inode \in {Unknown, s.inode} /\ s.size < c.offset
  <2>1. c.inode # Missing
    BY <1>3 DEF Missing, Unknown
  <2>2. Notice(c, s) = "source.truncated"
    BY <1>3, <2>1 DEF Notice
  <2> QED BY <1>3, <2>1, <2>2
<1>4. CASE c.inode \in {Unknown, s.inode} /\ ~(s.size < c.offset)
  <2>1. c.inode # Missing
    BY <1>4 DEF Missing, Unknown
  <2>2. Notice(c, s) = "none"
    BY <1>4, <2>1 DEF Notice
  <2> QED BY <1>4, <2>1, <2>2
<1> QED BY <1>1, <1>2, <1>3, <1>4

\* The event e is that of a line which ends at p.
IsLineAt(start, e, p) ==
  /\ p \in (start + 1)..NextOffset(path.data, start)
  /\ p \in 1..Len(path.data)
  /\ path.data[p].end
  /\ e = LineEvent(path.data, start, p)

\* A batch is the notice there is, and the lines behind the start in order.
LEMMA ReadBatchIs ==
  ASSUME NEW s \in Stats, s.inode \in Inodes, path.data \in Seq(Writes), generation \in Nat
  PROVE  /\ StartOffset(s) \in Nat
         /\ ReadBatch(s) \in Batches
         /\ \A i \in DOMAIN ReadBatch(s).found :
              \/ /\ i = 1
                 /\ Notice(s.cursor, s) # "none"
                 /\ ReadBatch(s).found[i] = [type |-> Notice(s.cursor, s), line |-> Fragment]
              \/ /\ i > 1 \/ Notice(s.cursor, s) = "none"
                 /\ \E p : IsLineAt(StartOffset(s), ReadBatch(s).found[i], p)
         /\ \A i, j \in DOMAIN ReadBatch(s).found :
              /\ i < j
              /\ ReadBatch(s).found[i].type = "log.line"
              => \E p, q : /\ p < q
                           /\ IsLineAt(StartOffset(s), ReadBatch(s).found[i], p)
                           /\ IsLineAt(StartOffset(s), ReadBatch(s).found[j], q)
         /\ \A p \in (StartOffset(s) + 1)..Len(path.data) : path.data[p].end =>
              \E i \in DOMAIN ReadBatch(s).found :
                ReadBatch(s).found[i] = LineEvent(path.data, StartOffset(s), p)
         /\ Notice(s.cursor, s) # "none" => Len(ReadBatch(s).found) >= 1
         /\ ReadBatch(s).cursor.sequence = s.cursor.sequence + Len(ReadBatch(s).found)
<1> DEFINE data  == path.data
           start == StartOffset(s)
           ends  == LineEnds(data, start)
           ns    == Notices(s)
           ls    == LineEvents(data, start)
           found == ReadBatch(s).found
           k     == Len(ns)
<1>1. s.cursor \in Rows /\ s.cursor.offset \in Nat /\ s.cursor.sequence \in Nat /\ s.origin \in Nat
  BY DEF Stats, Rows, Cursors
<1>2. start \in Nat
  BY <1>1 DEF StartOffset
<1>3. /\ ends \in Seq(Nat)
      /\ \A i \in DOMAIN ends : ends[i] \in (start + 1)..Len(data) /\ data[ends[i]].end
      /\ \A i, j \in DOMAIN ends : i < j => ends[i] < ends[j]
      /\ \A p \in (start + 1)..Len(data) : data[p].end => \E i \in DOMAIN ends : ends[i] = p
  BY <1>2, LineEndsAre
<1>4. /\ NextOffset(data, start) \in Nat
      /\ \A i \in DOMAIN ends : ends[i] <= NextOffset(data, start)
  BY <1>2, NextOffsetIs
<1>5. ls = [i \in DOMAIN ends |-> LineEvent(data, start, ends[i])]
  BY DEF LineEvents
<1>6. ns = IF Notice(s.cursor, s) = "none" THEN << >>
           ELSE <<[type |-> Notice(s.cursor, s), line |-> Fragment]>>
  BY DEF Notices
<1>7. found = ns \o ls
  BY DEF ReadBatch
<1>8. /\ ReadBatch(s).cursor = [ inode    |-> s.inode,
                                 offset   |-> NextOffset(data, start),
                                 sequence |-> NextSequence(s.cursor, ns, ls) ]
      /\ ReadBatch(s).origin = IF start = 0 \/ s.origin = generation THEN generation ELSE Torn
      /\ ReadBatch(s) = [ found |-> found, cursor |-> ReadBatch(s).cursor,
                          origin |-> ReadBatch(s).origin ]
  BY DEF ReadBatch
<1> HIDE DEF start, ends, ns, ls, found
<1>9. ASSUME NEW p \in 1..Len(data)
      PROVE  LineEvent(data, start, p) \in Founds /\ LineEvent(data, start, p).type = "log.line"
  <2>3. data[p] \in Writes
    BY <1>9
  <2>1. data[p].line \in 1..MaxLines
    BY <2>3 DEF Writes
  <2>2. data[p].line \in 0..MaxLines /\ 0 \in 0..MaxLines
    BY <2>1, ConstantTypes
  <2> QED BY <2>2 DEF LineEvent, Founds, EventTypes, Fragment
<1>10. \A i \in DOMAIN ends : ends[i] \in 1..Len(data)
  BY <1>2, <1>3
<1>11. ls \in Seq(Founds) /\ DOMAIN ls = DOMAIN ends /\ Len(ls) = Len(ends)
  <2>1. DOMAIN ends = 1..Len(ends) /\ Len(ends) \in Nat
    BY <1>3
  <2>2. \A i \in 1..Len(ends) : LineEvent(data, start, ends[i]) \in Founds
    BY <1>9, <1>10, <2>1
  <2> DEFINE n == Len(ends)
             E(i) == LineEvent(data, start, ends[i])
  <2>3. ls = [i \in 1..n |-> E(i)]
    BY <1>5, <2>1
  <2>4. n \in Nat /\ \A i \in 1..n : E(i) \in Founds
    BY <2>1, <2>2
  <2> HIDE DEF n, E
  <2>5. ls \in Seq(Founds) /\ DOMAIN ls = 1..n /\ Len(ls) = n
    BY <2>3, <2>4
  <2> QED BY <2>1, <2>5 DEF n
<1>12. /\ ns \in Seq(Founds)
       /\ k = IF Notice(s.cursor, s) = "none" THEN 0 ELSE 1
       /\ Notice(s.cursor, s) # "none" => ns[1] = [type |-> Notice(s.cursor, s), line |-> Fragment]
  <2>1. Notice(s.cursor, s) \in {"source.available", "source.rotated", "source.truncated", "none"}
    BY ConstantTypes, NoticeIs
  <2>2. 0 \in 0..MaxLines
    BY ConstantTypes
  <2>3. Notice(s.cursor, s) # "none" =>
          [type |-> Notice(s.cursor, s), line |-> Fragment] \in Founds
    BY <2>1, <2>2 DEF Founds, EventTypes, Fragment
  <2> QED BY <1>6, <2>3
<1>13. found \in Seq(Founds) /\ Len(found) = k + Len(ends)
  BY <1>7, <1>11, <1>12
<1>14. \A i \in DOMAIN found : found[i] = IF i <= k THEN ns[i] ELSE ls[i - k]
  <2>1. k \in Nat /\ Len(ls) \in Nat /\ DOMAIN found = 1..(k + Len(ls))
    BY <1>3, <1>11, <1>12, <1>13
  <2> QED BY <1>7, <1>11, <1>12, <2>1
<1>15. ASSUME NEW i \in DOMAIN found, i > k
       PROVE  /\ i - k \in DOMAIN ends
              /\ IsLineAt(start, found[i], ends[i - k])
  <2>1. i - k \in DOMAIN ends
    BY <1>3, <1>12, <1>13, <1>15
  <2>2. found[i] = LineEvent(data, start, ends[i - k])
    BY <1>5, <1>12, <1>13, <1>14, <1>15, <2>1
  <2>3. ends[i - k] \in (start + 1)..NextOffset(data, start)
    BY <1>2, <1>3, <1>4, <2>1
  <2> QED BY <1>3, <1>10, <2>1, <2>2, <2>3 DEF IsLineAt
<1>16. ASSUME NEW i \in DOMAIN found, ~(i > k)
       PROVE  /\ i = 1 /\ Notice(s.cursor, s) # "none"
              /\ found[i] = [type |-> Notice(s.cursor, s), line |-> Fragment]
              /\ found[i].type # "log.line"
  <2>1. i = 1 /\ k = 1 /\ Notice(s.cursor, s) # "none"
    BY <1>12, <1>13, <1>16
  <2>2. found[i] = ns[1]
    BY <1>14, <2>1
  <2>3. Notice(s.cursor, s) # "log.line"
    BY ConstantTypes, NoticeIs
  <2> QED BY <1>12, <2>1, <2>2, <2>3
<1>17. start \in Nat /\ ReadBatch(s) \in Batches
  <2>1. NextSequence(s.cursor, ns, ls) \in Nat
    BY <1>1, <1>11, <1>12 DEF NextSequence
  <2>2. ReadBatch(s).cursor \in Rows
    <3>1. ReadBatch(s).cursor \in Cursors
      BY <1>4, <1>8, <2>1 DEF Cursors
    <3>2. ReadBatch(s).cursor.inode \notin {Missing, Unknown}
      BY <1>8, ConstantTypes
    <3> QED BY <3>1, <3>2 DEF Rows
  <2>3. ReadBatch(s).origin \in Nat
    BY <1>8 DEF Torn
  <2> QED BY <1>2, <1>8, <1>13, <2>2, <2>3 DEF Batches
<1>18. ASSUME NEW i \in DOMAIN found
       PROVE  \/ /\ i = 1
                 /\ Notice(s.cursor, s) # "none"
                 /\ found[i] = [type |-> Notice(s.cursor, s), line |-> Fragment]
              \/ /\ i > 1 \/ Notice(s.cursor, s) = "none"
                 /\ \E p : IsLineAt(start, found[i], p)
  <2>1. CASE ~(i > k)
    BY <1>16, <2>1
  <2>2. CASE i > k
    <3>1. i > 1 \/ Notice(s.cursor, s) = "none"
      BY <1>12, <1>13, <2>2
    <3> QED BY <1>15, <2>2, <3>1
  <2> QED BY <2>1, <2>2
<1>19. ASSUME NEW i \in DOMAIN found, NEW j \in DOMAIN found, i < j, found[i].type = "log.line"
       PROVE  \E p, q : p < q /\ IsLineAt(start, found[i], p) /\ IsLineAt(start, found[j], q)
  <2>1. i > k /\ j > k
    BY <1>12, <1>13, <1>16, <1>19
  <2>2. i - k \in DOMAIN ends /\ j - k \in DOMAIN ends /\ i - k < j - k
    BY <1>12, <1>13, <1>15, <1>19, <2>1
  <2>3. ends[i - k] < ends[j - k]
    BY <1>3, <2>2
  <2> QED BY <1>15, <2>1, <2>3
<1>20. ASSUME NEW p \in (start + 1)..Len(data), data[p].end
       PROVE  \E i \in DOMAIN found : found[i] = LineEvent(data, start, p)
  <2>1. PICK j \in DOMAIN ends : ends[j] = p
    BY <1>3, <1>20
  <2>2. j + k \in DOMAIN found /\ j + k > k /\ j + k - k = j
    BY <1>3, <1>12, <1>13
  <2> DEFINE i == j + k
  <2>6. i \in DOMAIN found /\ i > k /\ i - k = j
    BY <2>2
  <2> HIDE DEF i, k
  <2>3. IsLineAt(start, found[i], ends[j])
    BY <1>15, <2>6
  <2>4. i \in DOMAIN found /\ found[i] = LineEvent(data, start, ends[j])
    BY <2>6, <2>3 DEF IsLineAt
  <2> QED BY <2>1, <2>4
<1>21. Notice(s.cursor, s) # "none" => Len(found) >= 1
  BY <1>3, <1>12, <1>13
<1>22. ReadBatch(s).cursor.sequence = s.cursor.sequence + Len(found)
  <2> DEFINE a == s.cursor.sequence
             b == Len(ls)
  <2>1. ReadBatch(s).cursor.sequence = a + k + b
    BY <1>8 DEF NextSequence
  <2>2. a \in Nat /\ k \in Nat /\ b \in Nat /\ Len(found) = k + b
    BY <1>1, <1>3, <1>11, <1>12, <1>13
  <2> HIDE DEF a, b, k
  <2>3. a + k + b = a + Len(found)
    BY <2>2
  <2> QED BY <2>1, <2>3 DEF a
<1> QED BY <1>17, <1>18, <1>19, <1>20, <1>21, <1>22 DEF start, found

-----------------------------------------------------------------------------
(* Types.                                                                  *)

Incidents == [count : Nat, samples : Seq(0..MaxLines)]
Events == [run : 1..MaxRuns, sequence : Nat, type : EventTypes, line : 0..MaxLines]

\* A sequence with an element replaced.
LEMMA ReplacedElement ==
  ASSUME NEW S, NEW s \in Seq(S), NEW k \in Nat, NEW x \in S
  PROVE  [s EXCEPT ![k] = x] \in Seq(S) /\ Len([s EXCEPT ![k] = x]) = Len(s)
<1>1. CASE k \in 1..Len(s)
  BY <1>1, ExceptSeq
<1>2. CASE k \notin 1..Len(s)
  <2>1. [s EXCEPT ![k] = x] = s
    BY <1>2
  <2> QED BY <2>1
<1> QED BY <1>1, <1>2

\* One more occurrence keeps an incident an incident.
LEMMA OccurrenceTypes ==
  ASSUME NEW i \in Incidents, NEW l \in 0..MaxLines
  PROVE  Occurrence(i, l) \in Incidents
<1> DEFINE c == i.count
           s == i.samples
<1>1. c \in Nat /\ s \in Seq(0..MaxLines)
  BY DEF Incidents
<1>2. Occurrence(i, l) = [ count   |-> c + 1,
                           samples |-> IF c < 3 THEN Append(s, l) ELSE [s EXCEPT ![3] = l] ]
  BY DEF Occurrence
<1> HIDE DEF c, s
<1>3. Append(s, l) \in Seq(0..MaxLines)
  BY <1>1
<1>4. [s EXCEPT ![3] = l] \in Seq(0..MaxLines)
  BY <1>1, ReplacedElement
<1>5. CASE c < 3
  <2>1. Occurrence(i, l) = [count |-> c + 1, samples |-> Append(s, l)]
    BY <1>2, <1>5
  <2> QED BY <1>1, <1>3, <2>1 DEF Incidents
<1>6. CASE ~(c < 3)
  <2> DEFINE t == [s EXCEPT ![3] = l]
  <2>1. Occurrence(i, l) = [count |-> c + 1, samples |-> t]
    BY <1>2, <1>6
  <2>2. t \in Seq(0..MaxLines)
    BY <1>4
  <2> HIDE DEF t
  <2> QED BY <1>1, <2>1, <2>2 DEF Incidents
<1> QED BY <1>5, <1>6

\* Recording keeps an incident an incident.
LEMMA RecordingTypes ==
  ASSUME NEW found \in Seq(Founds), incident \in Incidents
  PROVE  \A n \in 0..Len(found) : Recording(found)[n] \in Incidents
<1> DEFINE r == Recording(found)
           N == { n \in Nat : n <= Len(found) => r[n] \in Incidents }
<1>1. Len(found) \in Nat
  OBVIOUS
<1>2. /\ r[0] = incident
      /\ \A n \in 1..Len(found) :
           r[n] = IF IsError(found[n]) THEN Occurrence(r[n - 1], found[n].line) ELSE r[n - 1]
  BY <1>1, RecordingIs
<1> HIDE DEF r
<1>3. 0 \in N
  BY <1>2
<1>4. ASSUME NEW n \in Nat, n \in N
      PROVE  n + 1 \in N
  <2> SUFFICES ASSUME n + 1 <= Len(found)
               PROVE  r[n + 1] \in Incidents
    OBVIOUS
  <2>1. r[n] \in Incidents
    BY <1>1, <1>4
  <2>2. n + 1 \in 1..Len(found) /\ n + 1 - 1 = n
    BY <1>1
  <2> DEFINE l == found[n + 1].line
  <2>3. l \in 0..MaxLines
    <3>1. found[n + 1] \in Founds
      BY <2>2
    <3> QED BY <3>1 DEF Founds
  <2>4. r[n + 1] = Occurrence(r[n], l) \/ r[n + 1] = r[n]
    BY <1>2, <2>2
  <2> HIDE DEF l
  <2>5. Occurrence(r[n], l) \in Incidents
    BY <2>1, <2>3, OccurrenceTypes
  <2> QED BY <2>1, <2>4, <2>5
<1>5. \A n \in Nat : n \in N
  <2> HIDE DEF N
  <2> QED BY <1>3, <1>4, Induction
<1> QED BY <1>1, <1>5 DEF r

\* The type invariant, and what keeps it: who runs has a run_id, and nothing
\* read is younger than the content of the path.
FileTypes ==
  /\ path \in [inode : Inodes \cup {Missing}, data : Seq(Writes)]
  /\ path.inode = Missing => path.data = << >>
  /\ written \in 0..MaxLines
  /\ \A p \in DOMAIN path.data : path.data[p].line <= written
  /\ generation \in 1..(MaxReplacements + 1)
  /\ cursor \in Rows
  /\ origin \in 0..generation
  /\ events \in Seq(Events)
  /\ incident \in Incidents
  /\ pc \in [Observers -> {"off", "idle", "stat", "read", "append"}]
  /\ run \in [Observers -> 0..MaxRuns]
  /\ runs \in 0..MaxRuns
  /\ \A o \in Observers : pc[o] # "off" => run[o] # 0
  /\ seen \in [Observers -> Stats]
  /\ \A o \in Observers : seen[o].origin <= generation /\ seen[o].generation <= generation
  /\ \A o \in Observers : pc[o] = "read" => seen[o].inode \in Inodes
  /\ batch \in [Observers -> Batches]
  /\ \A o \in Observers : batch[o].origin <= generation
  /\ replaced \in BOOLEAN
  /\ overlapped \in BOOLEAN

\* What an observer starts with is well-typed.
LEMMA NothingTypes ==
  /\ NoStat \in Stats /\ NoStat.origin = 0 /\ NoStat.generation = 0
  /\ NoBatch \in Batches /\ NoBatch.origin = 0
  /\ NoStat.cursor \in Rows
<1>1. NoStat.cursor = [inode |-> Unknown, offset |-> 0, sequence |-> 0]
  BY DEF NoStat
<1>2. NoStat.cursor \in Rows
  BY <1>1 DEF Rows, Cursors
<1>3. NoStat \in Stats
  BY <1>2 DEF NoStat, Stats, Torn
<1>4. NoBatch \in Batches
  <2>1. << >> \in Seq(Founds)
    OBVIOUS
  <2> QED BY <1>2, <2>1 DEF NoBatch, Batches, Torn
<1> QED BY <1>2, <1>3, <1>4 DEF NoStat, NoBatch, Torn

\* A file that is not there gives a batch.
LEMMA MissingBatchIs ==
  ASSUME NEW c \in Rows
  PROVE  /\ MissingBatch(c) \in Batches
         /\ MissingBatch(c).origin = 0
         /\ MissingBatch(c).cursor.inode = Missing
         /\ MissingBatch(c).cursor.offset = 0
         /\ MissingBatch(c).cursor.sequence = c.sequence + Len(MissingBatch(c).found)
         /\ MissingBatch(c).found =
              IF c.inode = Missing THEN << >> ELSE <<[type |-> "source.missing", line |-> Fragment]>>
<1>1. c \in Cursors /\ c.sequence \in Nat /\ (c.inode = Missing => c.offset = 0)
  BY DEF Rows, Cursors
<1>2. CASE c.inode = Missing
  <2>1. MissingBatch(c) = [found |-> << >>, cursor |-> c, origin |-> Torn]
    BY <1>2 DEF MissingBatch, NoBatch
  <2>2. << >> \in Seq(Founds) /\ Len(<< >>) = 0
    OBVIOUS
  <2> QED BY <1>1, <1>2, <2>1, <2>2 DEF Batches, Torn
<1>3. CASE c.inode # Missing
  <2> DEFINE e == [type |-> "source.missing", line |-> Fragment]
             d == [inode |-> Missing, offset |-> 0, sequence |-> c.sequence + 1]
  <2>1. MissingBatch(c) = [found |-> <<e>>, cursor |-> d, origin |-> Torn]
    BY <1>3 DEF MissingBatch
  <2>2. e \in Founds
    BY ConstantTypes DEF Founds, EventTypes, Fragment
  <2>3. d \in Rows /\ d.inode = Missing /\ d.offset = 0 /\ d.sequence = c.sequence + 1
    BY <1>1 DEF Rows, Cursors
  <2> HIDE DEF d
  <2>4. <<e>> \in Seq(Founds) /\ Len(<<e>>) = 1
    BY <2>2
  <2> QED BY <1>3, <2>1, <2>3, <2>4 DEF Batches, Torn
<1> QED BY <1>2, <1>3

\* The first state is well-typed.
LEMMA InitTypes == Init => FileTypes
<1> SUFFICES ASSUME Init PROVE FileTypes
  OBVIOUS
<1>1. path \in [inode : Inodes \cup {Missing}, data : Seq(Writes)] /\ path.data = << >>
  <2>1. PICK i \in Inodes \cup {Missing} : path = [inode |-> i, data |-> << >>]
    BY DEF Init
  <2>2. << >> \in Seq(Writes)
    OBVIOUS
  <2> QED BY <2>1, <2>2
<1>2. DOMAIN path.data = {}
  BY <1>1
<1>3. cursor \in Rows
  BY NothingTypes DEF Init
<1>4. incident \in Incidents
  <2>1. << >> \in Seq(0..MaxLines)
    OBVIOUS
  <2> QED BY <2>1 DEF Init, NoIncident, Incidents
<1>5. << >> \in Seq(Events)
  OBVIOUS
<1>6. /\ seen \in [Observers -> Stats]
      /\ \A o \in Observers : seen[o].origin <= generation /\ seen[o].generation <= generation
      /\ batch \in [Observers -> Batches]
      /\ \A o \in Observers : batch[o].origin <= generation
  BY NothingTypes DEF Init
<1>7. /\ written \in 0..MaxLines
      /\ generation \in 1..(MaxReplacements + 1)
      /\ origin \in 0..generation
      /\ runs \in 0..MaxRuns
  BY ConstantTypes DEF Init
<1>8. /\ pc \in [Observers -> {"off", "idle", "stat", "read", "append"}]
      /\ run \in [Observers -> 0..MaxRuns]
      /\ \A o \in Observers : pc[o] = "off"
  BY ConstantTypes DEF Init
<1>9. events \in Seq(Events) /\ replaced \in BOOLEAN /\ overlapped \in BOOLEAN
  BY <1>5 DEF Init
<1> QED BY <1>1, <1>2, <1>3, <1>4, <1>6, <1>7, <1>8, <1>9 DEF FileTypes

\* What is written, and by whom.
LEMMA WriteTypes ==
  ASSUME FileTypes, NEW line \in 1..MaxLines, NEW end \in BOOLEAN, line <= written',
         written' \in 0..MaxLines, written <= written', Write(line, end)
  PROVE  FileTypes'
<1> DEFINE w == [line |-> line, end |-> end]
<1>1. path.data \in Seq(Writes) /\ path.inode \in Inodes /\ w \in Writes
  BY DEF FileTypes, Write, Writes
<1>2. path'.inode = path.inode /\ path'.data = Append(path.data, w)
      /\ path' = [inode |-> path'.inode, data |-> path'.data]
  BY DEF FileTypes, Write
<1> HIDE DEF w
<1>3. path'.data \in Seq(Writes) /\ Len(path'.data) = Len(path.data) + 1
  BY <1>1, <1>2
<1>4. path' \in [inode : Inodes \cup {Missing}, data : Seq(Writes)]
  BY <1>1, <1>2, <1>3
<1>5. ASSUME NEW p \in DOMAIN path'.data
      PROVE  path'.data[p].line <= written'
  <2>1. CASE p = Len(path.data) + 1
    <3>1. path'.data[p] = w
      BY <1>1, <1>2, <2>1
    <3> QED BY <3>1 DEF w
  <2>2. CASE p # Len(path.data) + 1
    <3>1. p \in DOMAIN path.data /\ path'.data[p] = path.data[p]
      BY <1>1, <1>2, <1>3, <2>2
    <3>2. path.data[p].line \in Nat /\ path.data[p].line <= written
      <4>1. path.data[p] \in Writes
        BY <1>1, <3>1
      <4> QED BY <3>1, <4>1 DEF FileTypes, Writes
    <3> QED BY <3>1, <3>2 DEF FileTypes
  <2> QED BY <2>1, <2>2
<1>6. path'.inode # Missing
  BY <1>1, <1>2, ConstantTypes
<1>7. UNCHANGED <<generation, cursor, origin, events, incident, pc, run, runs, seen, batch,
                  replaced, overlapped>>
  BY DEF Write, store, flaws
<1> QED BY <1>4, <1>5, <1>6, <1>7 DEF FileTypes

\* An observer that has nothing left to do.
LEMMA ResetTypes ==
  ASSUME FileTypes, NEW o \in Observers, Reset(o) \/ (Goto(o, "idle") /\ Forget(o)),
         run' \in [Observers -> 0..MaxRuns], \A q \in Observers \ {o} : run'[q] = run[q],
         run'[o] # 0, generation' = generation
  PROVE  /\ pc' \in [Observers -> {"off", "idle", "stat", "read", "append"}]
         /\ \A q \in Observers : pc'[q] # "off" => run'[q] # 0
         /\ seen' \in [Observers -> Stats]
         /\ \A q \in Observers :
              seen'[q].origin <= generation' /\ seen'[q].generation <= generation'
         /\ \A q \in Observers : pc'[q] = "read" => seen'[q].inode \in Inodes
         /\ batch' \in [Observers -> Batches]
         /\ \A q \in Observers : batch'[q].origin <= generation'
<1>1. /\ seen' = [seen EXCEPT ![o] = NoStat]
      /\ batch' = [batch EXCEPT ![o] = NoBatch]
      /\ \/ pc' = [pc EXCEPT ![o] = "off"]
         \/ pc' = [pc EXCEPT ![o] = "idle"]
  BY DEF Reset, Goto, Forget
<1>2. pc'[o] # "read" /\ \A q \in Observers \ {o} : pc'[q] = pc[q]
  BY <1>1 DEF FileTypes
<1>3. pc' \in [Observers -> {"off", "idle", "stat", "read", "append"}]
  BY <1>1 DEF FileTypes
<1>4. seen' \in [Observers -> Stats] /\ batch' \in [Observers -> Batches]
  BY <1>1, NothingTypes DEF FileTypes
<1>5. seen'[o] = NoStat /\ batch'[o] = NoBatch
      /\ \A q \in Observers \ {o} : seen'[q] = seen[q] /\ batch'[q] = batch[q]
  BY <1>1 DEF FileTypes
<1>6. 0 <= generation
  BY DEF FileTypes
<1>7. \A q \in Observers : seen'[q].origin <= generation /\ seen'[q].generation <= generation
                           /\ batch'[q].origin <= generation
  BY <1>5, <1>6, NothingTypes DEF FileTypes
<1>8. \A q \in Observers : pc'[q] = "read" => seen'[q].inode \in Inodes
  BY <1>2, <1>5 DEF FileTypes
<1>9. \A q \in Observers : pc'[q] # "off" => run'[q] # 0
  BY <1>2 DEF FileTypes
<1> QED BY <1>3, <1>4, <1>7, <1>8, <1>9

\* Each step keeps the types.
LEMMA StepTypes == FileTypes /\ [Next]_vars => FileTypes'
<1> SUFFICES ASSUME FileTypes, [Next]_vars PROVE FileTypes'
  OBVIOUS
<1>1. CASE WriteNext
  <2>1. written \in Nat /\ written < MaxLines /\ written' = written + 1
    BY <1>1 DEF WriteNext, FileTypes
  <2>2. PICK end \in BOOLEAN : Write(written + 1, end)
    BY <1>1 DEF WriteNext
  <2>3. written + 1 \in 1..MaxLines /\ written' \in 0..MaxLines
    BY <2>1, ConstantTypes
  <2> QED BY <2>1, <2>2, <2>3, WriteTypes
<1>2. CASE WriteRest
  <2>1. path.data # << >> /\ path.data \in Seq(Writes) /\ Len(path.data) \in DOMAIN path.data
    BY <1>2 DEF WriteRest, Unfinished, FileTypes
  <2>2. path.data[Len(path.data)] \in Writes
    BY <2>1
  <2> DEFINE l == path.data[Len(path.data)].line
  <2>3. l \in 1..MaxLines /\ l <= written
    BY <2>1, <2>2 DEF FileTypes, Writes
  <2>4. written' = written /\ written \in 0..MaxLines /\ Write(l, TRUE)
    BY <1>2 DEF WriteRest, Last, FileTypes
  <2> HIDE DEF l
  <2>5. written <= written' /\ l <= written' /\ written' \in 0..MaxLines
    BY <2>3, <2>4
  <2> QED BY <2>3, <2>4, <2>5, WriteTypes
<1>3. ASSUME NEW i \in Inodes \cup {Missing}, path' = [inode |-> i, data |-> << >>],
             generation' \in 1..(MaxReplacements + 1), generation <= generation',
             UNCHANGED <<written, store, pc, run, runs, seen, batch, flaws>>
      PROVE  FileTypes'
  <2>1. path' \in [inode : Inodes \cup {Missing}, data : Seq(Writes)] /\ path'.data = << >>
    <3>1. << >> \in Seq(Writes)
      OBVIOUS
    <3> QED BY <1>3, <3>1
  <2>2. DOMAIN path'.data = {}
    BY <2>1
  <2>3. generation \in Nat /\ generation' \in Nat
    BY <1>3 DEF FileTypes
  <2>4. origin' \in 0..generation'
    BY <1>3, <2>3 DEF FileTypes, store
  <2>5. \A o \in Observers : seen'[o].origin <= generation' /\ seen'[o].generation <= generation'
                             /\ batch'[o].origin <= generation'
    <3>1. \A o \in Observers : seen[o].origin \in Nat /\ seen[o].generation \in Nat
                               /\ batch[o].origin \in Nat
      BY DEF FileTypes, Stats, Batches
    <3> QED BY <1>3, <2>3, <3>1 DEF FileTypes
  <2> QED BY <1>3, <2>1, <2>2, <2>4, <2>5 DEF FileTypes, store, flaws
<1>4. ASSUME NEW i \in Inodes, Replace(i)
      PROVE  FileTypes'
  <2>1. generation' \in 1..(MaxReplacements + 1) /\ generation <= generation'
    BY <1>4, ConstantTypes DEF Replace, FileTypes
  <2> QED BY <1>3, <1>4, <2>1 DEF Replace
<1>5. CASE RemoveFile
  <2>1. generation' \in 1..(MaxReplacements + 1) /\ generation <= generation'
    BY <1>5, ConstantTypes DEF RemoveFile, FileTypes
  <2>2. path' = [inode |-> Missing, data |-> << >>]
    BY <1>5 DEF RemoveFile
  <2> QED BY <1>3, <1>5, <2>1, <2>2 DEF RemoveFile
<1>6. ASSUME NEW o \in Observers, Begin(o)
      PROVE  FileTypes'
  <2> DEFINE s == [NoStat EXCEPT !.cursor = cursor, !.origin = origin]
  <2>1. s \in Stats /\ s.origin = origin /\ s.generation = 0
    <3>1. cursor \in Rows /\ origin \in Nat
      BY DEF FileTypes
    <3> QED BY <3>1, NothingTypes DEF Stats
  <2>2. /\ pc[o] = "idle"
        /\ pc' = [pc EXCEPT ![o] = "stat"]
        /\ seen' = [seen EXCEPT ![o] = s]
        /\ UNCHANGED <<path, written, generation, run, runs, cursor, origin, events, incident,
                       batch, replaced, overlapped>>
    BY <1>6 DEF Begin, At, Goto, file, store, flaws
  <2> HIDE DEF s
  <2>3. seen' \in [Observers -> Stats]
    BY <2>1, <2>2 DEF FileTypes
  <2>4. \A q \in Observers : seen'[q].origin <= generation' /\ seen'[q].generation <= generation'
    <3>1. origin <= generation /\ 0 <= generation
      BY DEF FileTypes
    <3> QED BY <2>1, <2>2, <3>1 DEF FileTypes
  <2>5. /\ pc' \in [Observers -> {"off", "idle", "stat", "read", "append"}]
        /\ \A q \in Observers : pc'[q] # "off" => run'[q] # 0
        /\ \A q \in Observers : pc'[q] = "read" => seen'[q].inode \in Inodes
    BY <2>2 DEF FileTypes
  <2> QED BY <2>2, <2>3, <2>4, <2>5 DEF FileTypes
<1>7. ASSUME NEW o \in Observers, Stat(o)
      PROVE  FileTypes'
  <2>1. /\ pc[o] = "stat"
        /\ UNCHANGED <<path, written, generation, run, runs, cursor, origin, events, incident,
                       replaced, overlapped>>
    BY <1>7 DEF Stat, At, file, store, flaws
  <2>2. CASE path.inode = Missing
    <3>1. /\ pc' = [pc EXCEPT ![o] = "append"]
          /\ batch' = [batch EXCEPT ![o] = MissingBatch(seen[o].cursor)]
          /\ seen' = seen
      BY <1>7, <2>2 DEF Stat, Goto
    <3>2. seen[o].cursor \in Rows
      BY DEF FileTypes, Stats
    <3>3. MissingBatch(seen[o].cursor) \in Batches /\ MissingBatch(seen[o].cursor).origin = 0
      BY <3>2, MissingBatchIs
    <3>4. batch' \in [Observers -> Batches]
      BY <3>1, <3>3 DEF FileTypes
    <3>5. \A q \in Observers : batch'[q].origin <= generation'
      <4>1. 0 <= generation
        BY DEF FileTypes
      <4> QED BY <2>1, <3>1, <3>3, <4>1 DEF FileTypes
    <3>6. /\ pc' \in [Observers -> {"off", "idle", "stat", "read", "append"}]
          /\ \A q \in Observers : pc'[q] # "off" => run'[q] # 0
          /\ \A q \in Observers : pc'[q] = "read" => seen'[q].inode \in Inodes
      BY <2>1, <3>1 DEF FileTypes
    <3> QED BY <2>1, <3>1, <3>4, <3>5, <3>6 DEF FileTypes
  <2>3. CASE path.inode # Missing
    <3> DEFINE s == [seen[o] EXCEPT !.inode = path.inode, !.size = Len(path.data),
                                    !.generation = generation]
    <3>1. /\ pc' = [pc EXCEPT ![o] = "read"]
          /\ seen' = [seen EXCEPT ![o].inode = path.inode, ![o].size = Len(path.data),
                                  ![o].generation = generation]
          /\ batch' = batch
      BY <1>7, <2>3 DEF Stat, Goto
    <3>2. path.inode \in Inodes /\ Len(path.data) \in Nat /\ generation \in Nat
      BY <2>3 DEF FileTypes
    <3>3. seen[o] \in Stats
      BY DEF FileTypes
    <3>4. s \in Stats /\ s.inode = path.inode /\ s.origin = seen[o].origin
          /\ s.generation = generation
      BY <3>2, <3>3 DEF Stats
    <3>5. seen' = [seen EXCEPT ![o] = s]
      BY <3>1 DEF FileTypes
    <3> HIDE DEF s
    <3>6. seen' \in [Observers -> Stats]
      BY <3>4, <3>5 DEF FileTypes
    <3>7. \A q \in Observers : seen'[q].origin <= generation' /\ seen'[q].generation <= generation'
      BY <2>1, <3>2, <3>4, <3>5 DEF FileTypes
    <3>8. /\ pc' \in [Observers -> {"off", "idle", "stat", "read", "append"}]
          /\ \A q \in Observers : pc'[q] # "off" => run'[q] # 0
          /\ \A q \in Observers : pc'[q] = "read" => seen'[q].inode \in Inodes
      BY <2>1, <3>1, <3>2, <3>4, <3>5 DEF FileTypes
    <3> QED BY <2>1, <3>1, <3>6, <3>7, <3>8 DEF FileTypes
  <2> QED BY <2>2, <2>3
<1>8. ASSUME NEW o \in Observers, ReadFile(o)
      PROVE  FileTypes'
  <2>1. /\ pc[o] = "read"
        /\ pc' = [pc EXCEPT ![o] = "append"]
        /\ batch' = [batch EXCEPT ![o] = ReadBatch(seen[o])]
        /\ replaced' = (replaced \/ seen[o].generation # generation)
        /\ UNCHANGED <<path, written, generation, run, runs, cursor, origin, events, incident,
                       seen, overlapped>>
    BY <1>8 DEF ReadFile, At, Goto, file, store
  <2>2. seen[o] \in Stats /\ seen[o].inode \in Inodes /\ path.data \in Seq(Writes)
        /\ generation \in Nat
    BY <2>1 DEF FileTypes
  <2>3. ReadBatch(seen[o]) \in Batches
    BY <2>2, ReadBatchIs
  <2>4. ReadBatch(seen[o]).origin <= generation
    <3>1. ReadBatch(seen[o]).origin \in {generation, Torn}
      BY DEF ReadBatch
    <3> QED BY <2>2, <3>1 DEF Torn
  <2>5. batch' \in [Observers -> Batches] /\ \A q \in Observers : batch'[q].origin <= generation'
    BY <2>1, <2>3, <2>4 DEF FileTypes
  <2>6. /\ pc' \in [Observers -> {"off", "idle", "stat", "read", "append"}]
        /\ \A q \in Observers : pc'[q] # "off" => run'[q] # 0
        /\ \A q \in Observers : pc'[q] = "read" => seen'[q].inode \in Inodes
    BY <2>1 DEF FileTypes
  <2>7. replaced' \in BOOLEAN
    BY <2>1 DEF FileTypes
  <2> QED BY <2>1, <2>5, <2>6, <2>7 DEF FileTypes
<1>9. ASSUME NEW o \in Observers, ReadFails(o) \/ AppendFails(o)
      PROVE  FileTypes'
  <2>1. /\ pc[o] # "off"
        /\ Reset(o)
        /\ UNCHANGED <<path, written, generation, run, runs, cursor, origin, events, incident,
                       replaced, overlapped>>
    BY <1>9 DEF ReadFails, AppendFails, At, file, store, flaws
  <2>2. /\ run' \in [Observers -> 0..MaxRuns] /\ run'[o] # 0
        /\ \A q \in Observers \ {o} : run'[q] = run[q]
    BY <2>1 DEF FileTypes
  <2>3. /\ pc' \in [Observers -> {"off", "idle", "stat", "read", "append"}]
        /\ \A q \in Observers : pc'[q] # "off" => run'[q] # 0
        /\ seen' \in [Observers -> Stats]
        /\ \A q \in Observers :
             seen'[q].origin <= generation' /\ seen'[q].generation <= generation'
        /\ \A q \in Observers : pc'[q] = "read" => seen'[q].inode \in Inodes
        /\ batch' \in [Observers -> Batches]
        /\ \A q \in Observers : batch'[q].origin <= generation'
    BY <2>1, <2>2, ResetTypes
  <2> QED BY <2>1, <2>3 DEF FileTypes
<1>10. ASSUME NEW o \in Observers, AppendObservation(o)
       PROVE  FileTypes'
  <2> DEFINE b == batch[o]
             new == [ i \in DOMAIN b.found |->
                        [ run |-> run[o], sequence |-> seen[o].cursor.sequence + i,
                          type |-> b.found[i].type, line |-> b.found[i].line ] ]
  <2>1. /\ pc[o] # "off"
        /\ Reset(o)
        /\ events' = events \o new
        /\ incident' = Recording(b.found)[Len(b.found)]
        /\ cursor' = b.cursor
        /\ origin' = b.origin
        /\ overlapped' = (overlapped \/ cursor # seen[o].cursor)
        /\ UNCHANGED <<path, written, generation, run, runs, replaced>>
    BY <1>10 DEF AppendObservation, At, file
  <2>2. /\ run' \in [Observers -> 0..MaxRuns] /\ run'[o] # 0
        /\ \A q \in Observers \ {o} : run'[q] = run[q]
    BY <2>1 DEF FileTypes
  <2>3. /\ pc' \in [Observers -> {"off", "idle", "stat", "read", "append"}]
        /\ \A q \in Observers : pc'[q] # "off" => run'[q] # 0
        /\ seen' \in [Observers -> Stats]
        /\ \A q \in Observers :
             seen'[q].origin <= generation' /\ seen'[q].generation <= generation'
        /\ \A q \in Observers : pc'[q] = "read" => seen'[q].inode \in Inodes
        /\ batch' \in [Observers -> Batches]
        /\ \A q \in Observers : batch'[q].origin <= generation'
    BY <2>1, <2>2, ResetTypes
  <2>4. b \in Batches /\ b.found \in Seq(Founds) /\ b.cursor \in Rows /\ b.origin \in 0..generation
    <3>1. b \in Batches /\ b.origin <= generation
      BY DEF FileTypes
    <3>2. generation \in Nat
      BY DEF FileTypes
    <3> QED BY <3>1, <3>2 DEF Batches
  <2>5. incident' \in Incidents
    <3>1. \A n \in 0..Len(b.found) : Recording(b.found)[n] \in Incidents
      BY <2>4, RecordingTypes DEF FileTypes
    <3>2. Len(b.found) \in 0..Len(b.found)
      BY <2>4
    <3> QED BY <2>1, <3>1, <3>2
  <2>6. new \in Seq(Events)
    <3>1. Len(b.found) \in Nat /\ DOMAIN b.found = 1..Len(b.found)
      BY <2>4
    <3>2. run[o] \in 1..MaxRuns /\ seen[o].cursor.sequence \in Nat
      BY <2>1 DEF FileTypes, Stats, Rows, Cursors
    <3>3. ASSUME NEW i \in 1..Len(b.found)
          PROVE  [ run |-> run[o], sequence |-> seen[o].cursor.sequence + i,
                   type |-> b.found[i].type, line |-> b.found[i].line ] \in Events
      <4>1. b.found[i] \in Founds
        BY <2>4
      <4>2. b.found[i].type \in EventTypes /\ b.found[i].line \in 0..MaxLines
        BY <4>1 DEF Founds
      <4> QED BY <3>2, <4>2 DEF Events
    <3> QED BY <3>1, <3>3
  <2>7. events' \in Seq(Events)
    <3> HIDE DEF new
    <3> QED BY <2>1, <2>6 DEF FileTypes
  <2>8. overlapped' \in BOOLEAN
    BY <2>1 DEF FileTypes
  <2> HIDE DEF new
  <2> QED BY <2>1, <2>3, <2>4, <2>5, <2>7, <2>8 DEF FileTypes
<1>11. ASSUME NEW o \in Observers, Start(o)
       PROVE  FileTypes'
  <2>1. /\ runs < MaxRuns
        /\ runs' = runs + 1
        /\ run' = [run EXCEPT ![o] = runs + 1]
        /\ Goto(o, "idle") /\ Forget(o)
        /\ UNCHANGED <<path, written, generation, cursor, origin, events, incident,
                       replaced, overlapped>>
    BY <1>11 DEF Start, file, store, flaws
  <2>2. runs + 1 \in 0..MaxRuns /\ runs + 1 # 0
    BY <2>1, ConstantTypes DEF FileTypes
  <2>3. /\ run' \in [Observers -> 0..MaxRuns] /\ run'[o] # 0
        /\ \A q \in Observers \ {o} : run'[q] = run[q]
    BY <2>1, <2>2 DEF FileTypes
  <2>4. /\ pc' \in [Observers -> {"off", "idle", "stat", "read", "append"}]
        /\ \A q \in Observers : pc'[q] # "off" => run'[q] # 0
        /\ seen' \in [Observers -> Stats]
        /\ \A q \in Observers :
             seen'[q].origin <= generation' /\ seen'[q].generation <= generation'
        /\ \A q \in Observers : pc'[q] = "read" => seen'[q].inode \in Inodes
        /\ batch' \in [Observers -> Batches]
        /\ \A q \in Observers : batch'[q].origin <= generation'
    BY <2>1, <2>3, ResetTypes
  <2> QED BY <2>1, <2>2, <2>3, <2>4 DEF FileTypes
<1>12. CASE UNCHANGED vars
  BY <1>12 DEF FileTypes, vars, file, store, flaws
<1> QED BY <1>1, <1>2, <1>4, <1>5, <1>6, <1>7, <1>8, <1>9, <1>10, <1>11, <1>12 DEF Next, Observe

\* Every variable keeps its type, and a missing file has no offset: MissingBatch
\* and read_available give cursors, and append_observation stores them whole.
THEOREM TypesKept == Spec => []TypeOK
<1>1. FileTypes => TypeOK
  BY DEF FileTypes, TypeOK, Writes, Rows, Events, Incidents, Stats, Batches
<1> QED BY <1>1, InitTypes, StepTypes, PTL DEF Spec

-----------------------------------------------------------------------------
(* The steps, by what they do to the store and to the observers.           *)

Stored == <<cursor, origin, events, incident>>

\* Nothing changes but the file.
FileSteps == UNCHANGED <<Stored, pc, seen, batch, replaced, overlapped>>

\* Only the observer o changes, and the file does not.
Alone(o) ==
  /\ UNCHANGED <<path, written, generation>>
  /\ \A q \in Observers \ {o} : pc'[q] = pc[q] /\ seen'[q] = seen[q] /\ batch'[q] = batch[q]

Begins(o) ==
  /\ Alone(o) /\ UNCHANGED <<Stored, replaced, overlapped>>
  /\ pc'[o] = "stat"
  /\ seen'[o].cursor = cursor /\ seen'[o].origin = origin /\ batch'[o] = batch[o]

Misses(o) ==
  /\ Alone(o) /\ UNCHANGED <<Stored, replaced, overlapped>>
  /\ path.inode = Missing
  /\ pc[o] = "stat" /\ pc'[o] = "append"
  /\ seen'[o] = seen[o] /\ batch'[o] = MissingBatch(seen[o].cursor)

StatsIt(o) ==
  /\ Alone(o) /\ UNCHANGED <<Stored, replaced, overlapped>>
  /\ path.inode # Missing
  /\ pc[o] = "stat" /\ pc'[o] = "read"
  /\ seen'[o].cursor = seen[o].cursor /\ seen'[o].origin = seen[o].origin
  /\ seen'[o].inode = path.inode /\ seen'[o].size = Len(path.data)
  /\ seen'[o].generation = generation
  /\ batch'[o] = batch[o]

Reads(o) ==
  /\ Alone(o) /\ UNCHANGED <<Stored, overlapped>>
  /\ path.inode # Missing
  /\ pc[o] = "read" /\ pc'[o] = "append"
  /\ seen'[o] = seen[o] /\ batch'[o] = ReadBatch(seen[o])
  /\ replaced' = (replaced \/ seen[o].generation # generation)

\* The observation fails, the process starts, or it dies and starts again.
Drops(o) ==
  /\ Alone(o) /\ UNCHANGED <<Stored, replaced, overlapped>>
  /\ pc'[o] \in {"off", "idle"}
  /\ seen'[o] = NoStat /\ batch'[o] = NoBatch

NewEvents(o) ==
  [ i \in DOMAIN batch[o].found |->
      [ run |-> run[o], sequence |-> seen[o].cursor.sequence + i,
        type |-> batch[o].found[i].type, line |-> batch[o].found[i].line ] ]

Appends(o) ==
  /\ Alone(o) /\ UNCHANGED replaced
  /\ pc[o] = "append" /\ pc'[o] \in {"off", "idle"}
  /\ seen'[o] = NoStat /\ batch'[o] = NoBatch
  /\ events' = events \o NewEvents(o)
  /\ incident' = Recording(batch[o].found)[Len(batch[o].found)]
  /\ cursor' = batch[o].cursor
  /\ origin' = batch[o].origin
  /\ overlapped' = (overlapped \/ cursor # seen[o].cursor)

\* Every step is one of these.
LEMMA StepsAre ==
  FileTypes /\ [Next]_vars =>
    \/ FileSteps
    \/ \E o \in Observers :
         Begins(o) \/ Misses(o) \/ StatsIt(o) \/ Reads(o) \/ Drops(o) \/ Appends(o)
<1> SUFFICES ASSUME FileTypes, [Next]_vars
             PROVE  \/ FileSteps
                    \/ \E o \in Observers :
                         Begins(o) \/ Misses(o) \/ StatsIt(o) \/ Reads(o) \/ Drops(o) \/ Appends(o)
  OBVIOUS
<1>1. CASE WriteNext \/ WriteRest \/ RemoveFile \/ \E i \in Inodes : Replace(i)
  BY <1>1 DEF WriteNext, WriteRest, Write, RemoveFile, Replace, store, flaws, FileSteps, Stored
<1>2. CASE UNCHANGED vars
  BY <1>2 DEF vars, store, flaws, FileSteps, Stored
<1>3. ASSUME NEW o \in Observers
      PROVE  /\ Begin(o) => Begins(o)
             /\ Stat(o) => Misses(o) \/ StatsIt(o)
             /\ ReadFile(o) => Reads(o)
             /\ ReadFails(o) \/ AppendFails(o) \/ Start(o) => Drops(o)
             /\ AppendObservation(o) => Appends(o)
  <2>1. /\ pc \in [Observers -> {"off", "idle", "stat", "read", "append"}]
        /\ seen \in [Observers -> Stats] /\ batch \in [Observers -> Batches]
    BY DEF FileTypes
  <2>2. ASSUME Begin(o) PROVE Begins(o)
    <3> DEFINE s == [NoStat EXCEPT !.cursor = cursor, !.origin = origin]
    <3>1. s.cursor = cursor /\ s.origin = origin
      BY NothingTypes DEF Stats
    <3>2. seen' = [seen EXCEPT ![o] = s]
      BY <2>2 DEF Begin
    <3> HIDE DEF s
    <3> QED BY <2>1, <2>2, <3>1, <3>2 DEF Begin, At, Goto, file, store, flaws, Begins, Alone, Stored
  <2>3. ASSUME Stat(o) PROVE Misses(o) \/ StatsIt(o)
    <3>1. CASE path.inode = Missing
      BY <2>1, <2>3, <3>1 DEF Stat, At, Goto, file, store, flaws, Misses, Alone, Stored
    <3>2. CASE path.inode # Missing
      <4>1. seen' = [seen EXCEPT ![o].inode = path.inode, ![o].size = Len(path.data),
                                 ![o].generation = generation]
        BY <2>3, <3>2 DEF Stat
      <4>2. /\ seen'[o].cursor = seen[o].cursor /\ seen'[o].origin = seen[o].origin
            /\ seen'[o].inode = path.inode /\ seen'[o].size = Len(path.data)
            /\ seen'[o].generation = generation
            /\ \A q \in Observers \ {o} : seen'[q] = seen[q]
        BY <2>1, <4>1 DEF Stats
      <4> QED BY <2>1, <2>3, <3>2, <4>2
            DEF Stat, At, Goto, file, store, flaws, StatsIt, Alone, Stored
    <3> QED BY <3>1, <3>2
  <2>4. ASSUME ReadFile(o) PROVE Reads(o)
    BY <2>1, <2>4 DEF ReadFile, At, Goto, file, store, Reads, Alone, Stored
  <2>5. ASSUME ReadFails(o) \/ AppendFails(o) PROVE Drops(o)
    BY <2>1, <2>5 DEF ReadFails, AppendFails, At, Goto, Reset, Forget, file, store, flaws,
                      Drops, Alone, Stored
  <2>6. ASSUME Start(o) PROVE Drops(o)
    BY <2>1, <2>6 DEF Start, Goto, Forget, file, store, flaws, Drops, Alone, Stored
  <2>7. ASSUME AppendObservation(o) PROVE Appends(o)
    <3>1. /\ pc[o] = "append" /\ Reset(o)
          /\ UNCHANGED <<path, written, generation, replaced>>
          /\ events' = events \o NewEvents(o)
          /\ incident' = Recording(batch[o].found)[Len(batch[o].found)]
          /\ cursor' = batch[o].cursor /\ origin' = batch[o].origin
          /\ overlapped' = (overlapped \/ cursor # seen[o].cursor)
      BY <2>7 DEF AppendObservation, At, file, NewEvents
    <3>2. /\ pc' = [pc EXCEPT ![o] = IF o \in OneShot THEN "off" ELSE "idle"]
          /\ seen' = [seen EXCEPT ![o] = NoStat] /\ batch' = [batch EXCEPT ![o] = NoBatch]
      BY <3>1 DEF Reset, Goto, Forget
    <3>3. /\ pc'[o] \in {"off", "idle"} /\ seen'[o] = NoStat /\ batch'[o] = NoBatch
          /\ \A q \in Observers \ {o} : pc'[q] = pc[q] /\ seen'[q] = seen[q] /\ batch'[q] = batch[q]
      BY <2>1, <3>2
    <3> QED BY <3>1, <3>3 DEF Appends, Alone
  <2> QED BY <2>2, <2>3, <2>4, <2>5, <2>6, <2>7
<1> QED BY <1>1, <1>2, <1>3 DEF Next, Observe

\* What a commit adds to the events.
LEMMA NewEventsAre ==
  ASSUME FileTypes, NEW o \in Observers
  PROVE  /\ Len(events) \in Nat /\ DOMAIN events = 1..Len(events)
         /\ batch[o] \in Batches /\ seen[o] \in Stats
         /\ Len(batch[o].found) \in Nat /\ DOMAIN batch[o].found = 1..Len(batch[o].found)
         /\ seen[o].cursor.sequence \in Nat
         /\ Len(events \o NewEvents(o)) = Len(events) + Len(batch[o].found)
         /\ DOMAIN (events \o NewEvents(o)) = 1..(Len(events) + Len(batch[o].found))
         /\ \A i \in 1..Len(events) : (events \o NewEvents(o))[i] = events[i]
         /\ \A i \in 1..Len(batch[o].found) :
              /\ (events \o NewEvents(o))[Len(events) + i].type = batch[o].found[i].type
              /\ (events \o NewEvents(o))[Len(events) + i].line = batch[o].found[i].line
              /\ (events \o NewEvents(o))[Len(events) + i].sequence = seen[o].cursor.sequence + i
<1> DEFINE f == batch[o].found
           n == Len(f)
           E(i) == [ run |-> run[o], sequence |-> seen[o].cursor.sequence + i,
                     type |-> f[i].type, line |-> f[i].line ]
           new == NewEvents(o)
<1>1. events \in Seq(Events) /\ batch[o] \in Batches /\ seen[o] \in Stats
  BY DEF FileTypes
<1>2. f \in Seq(Founds) /\ seen[o].cursor.sequence \in Nat
  BY <1>1 DEF Batches, Stats, Rows, Cursors
<1>3. n \in Nat /\ DOMAIN f = 1..n
  BY <1>2
<1>4. new = [i \in 1..n |-> E(i)]
  BY <1>3 DEF NewEvents
<1>5. \A i \in 1..n : /\ E(i).type = f[i].type /\ E(i).line = f[i].line
                      /\ E(i).sequence = seen[o].cursor.sequence + i
  OBVIOUS
<1> HIDE DEF E, n, new
<1>6. new \in Seq({ E(i) : i \in 1..n }) /\ Len(new) = n /\ \A i \in 1..n : new[i] = E(i)
  BY <1>3, <1>4
<1>7. /\ Len(events \o new) = Len(events) + n
      /\ \A i \in 1..Len(events) : (events \o new)[i] = events[i]
      /\ \A i \in 1..n : (events \o new)[Len(events) + i] = new[i]
      /\ DOMAIN (events \o new) = 1..(Len(events) + n)
  BY <1>1, <1>3, <1>6
<1>8. \A i \in 1..n : /\ (events \o new)[Len(events) + i].type = f[i].type
                      /\ (events \o new)[Len(events) + i].line = f[i].line
                      /\ (events \o new)[Len(events) + i].sequence = seen[o].cursor.sequence + i
  BY <1>5, <1>6, <1>7
<1>9. Len(events) \in Nat /\ DOMAIN events = 1..Len(events)
  BY <1>1
<1> HIDE DEF f
<1> QED BY <1>1, <1>2, <1>3, <1>7, <1>8, <1>9 DEF n, new, f

-----------------------------------------------------------------------------
(* The numbers of events and the notices of absence.                       *)

\* A batch goes on where the cursor it was read with ends.
BatchNumbers(o) ==
  batch[o].cursor.sequence = seen[o].cursor.sequence + Len(batch[o].found)

\* A batch has a notice of absence, in front of all else, just when its cursor
\* says otherwise than the one it was read with.
BatchNotices(o) ==
  /\ \A i \in DOMAIN batch[o].found :
       /\ batch[o].found[i].type = "source.missing" =>
            i = 1 /\ seen[o].cursor.inode # Missing /\ batch[o].cursor.inode = Missing
       /\ batch[o].found[i].type = "source.available" =>
            i = 1 /\ seen[o].cursor.inode = Missing /\ batch[o].cursor.inode # Missing
  /\ seen[o].cursor.inode # Missing /\ batch[o].cursor.inode = Missing =>
       1 \in DOMAIN batch[o].found /\ batch[o].found[1].type = "source.missing"
  /\ seen[o].cursor.inode = Missing /\ batch[o].cursor.inode # Missing =>
       1 \in DOMAIN batch[o].found /\ batch[o].found[1].type = "source.available"

\* The batches, the events themselves, and that no observer has read a cursor
\* which counts events that are not there yet.
NumberInv ==
  /\ \A o \in Observers : pc[o] = "append" => BatchNumbers(o) /\ BatchNotices(o)
  /\ CursorTellsTheEvents
  /\ ~overlapped => \A o \in Observers : seen[o].cursor.sequence <= Len(events)

\* At first nothing is numbered.
LEMMA InitNumbers == Init => NumberInv
<1> SUFFICES ASSUME Init PROVE NumberInv
  OBVIOUS
<1>1. Len(events) = 0 /\ DOMAIN events = {}
  BY DEF Init
<1>2. cursor.sequence = 0 /\ cursor.inode # Missing
  BY DEF Init, NoStat, Unknown, Missing
<1>3. ~Absent(Len(events))
  BY <1>1 DEF Absent
<1>4. \A o \in Observers : pc[o] # "append" /\ seen[o].cursor.sequence = 0
  BY DEF Init, NoStat
<1>5. CursorTellsTheEvents
  BY <1>1, <1>2, <1>3 DEF CursorTellsTheEvents, SequenceHasNoGaps, AbsencesAlternate
<1> QED BY <1>1, <1>4, <1>5 DEF NumberInv

\* A read gives a batch with its numbers and notices.
LEMMA ReadNumbers ==
  ASSUME FileTypes, NEW o \in Observers, Reads(o)
  PROVE  BatchNumbers(o)' /\ BatchNotices(o)'
<1> DEFINE s == seen[o]
           b == ReadBatch(s)
<1>1. s \in Stats /\ s.inode \in Inodes /\ path.data \in Seq(Writes) /\ generation \in Nat
  BY DEF FileTypes, Reads
<1>2. /\ b \in Batches
      /\ \A i \in DOMAIN b.found :
           \/ /\ i = 1
              /\ Notice(s.cursor, s) # "none"
              /\ b.found[i] = [type |-> Notice(s.cursor, s), line |-> Fragment]
           \/ /\ i > 1 \/ Notice(s.cursor, s) = "none"
              /\ \E p : IsLineAt(StartOffset(s), b.found[i], p)
      /\ Notice(s.cursor, s) # "none" => Len(b.found) >= 1
      /\ b.cursor.sequence = s.cursor.sequence + Len(b.found)
  BY <1>1, ReadBatchIs
<1>3. seen'[o] = s /\ batch'[o] = b
  BY DEF Reads
<1>4. b.cursor.inode = s.inode /\ s.inode # Missing
  BY <1>1, ConstantTypes DEF ReadBatch
<1>5. /\ Notice(s.cursor, s) = "source.available" <=> s.cursor.inode = Missing
      /\ Notice(s.cursor, s) # "source.missing"
  BY <1>4, NoticeIs
<1> HIDE DEF b, s
<1>6. ASSUME NEW i \in DOMAIN b.found
      PROVE  /\ b.found[i].type # "source.missing"
             /\ b.found[i].type = "source.available" => i = 1 /\ s.cursor.inode = Missing
  <2>1. CASE i = 1 /\ b.found[i] = [type |-> Notice(s.cursor, s), line |-> Fragment]
    BY <1>5, <2>1
  <2>2. CASE \E p : IsLineAt(StartOffset(s), b.found[i], p)
    <3>1. b.found[i].type = "log.line"
      BY <2>2 DEF IsLineAt, LineEvent
    <3> QED BY <3>1
  <2> QED BY <1>2, <2>1, <2>2
<1>7. s.cursor.inode = Missing => 1 \in DOMAIN b.found /\ b.found[1].type = "source.available"
  <2> SUFFICES ASSUME s.cursor.inode = Missing
               PROVE  1 \in DOMAIN b.found /\ b.found[1].type = "source.available"
    OBVIOUS
  <2>1. Notice(s.cursor, s) = "source.available"
    BY <1>5
  <2>2. 1 \in DOMAIN b.found
    BY <1>2, <2>1 DEF Batches
  <2>3. b.found[1] = [type |-> Notice(s.cursor, s), line |-> Fragment]
    BY <1>2, <2>1, <2>2
  <2> QED BY <2>1, <2>2, <2>3
<1>8. BatchNumbers(o)'
  BY <1>2, <1>3 DEF BatchNumbers
<1>9. BatchNotices(o)'
  BY <1>3, <1>4, <1>6, <1>7 DEF BatchNotices
<1> QED BY <1>8, <1>9

\* A missing file gives a batch with its numbers and notices.
LEMMA MissNumbers ==
  ASSUME FileTypes, NEW o \in Observers, Misses(o)
  PROVE  BatchNumbers(o)' /\ BatchNotices(o)'
<1> DEFINE c == seen[o].cursor
           b == MissingBatch(c)
<1>1. c \in Rows
  BY DEF FileTypes, Stats
<1>2. /\ b.cursor.inode = Missing
      /\ b.cursor.sequence = c.sequence + Len(b.found)
      /\ b.found =
           IF c.inode = Missing THEN << >> ELSE <<[type |-> "source.missing", line |-> Fragment]>>
  BY <1>1, MissingBatchIs
<1>3. seen'[o] = seen[o] /\ batch'[o] = b
  BY DEF Misses
<1> HIDE DEF b
<1>4. CASE c.inode = Missing
  <2>1. DOMAIN b.found = {}
    BY <1>2, <1>4
  <2> QED BY <1>2, <1>3, <1>4, <2>1 DEF BatchNumbers, BatchNotices
<1>5. CASE c.inode # Missing
  <2>1. DOMAIN b.found = {1} /\ b.found[1].type = "source.missing"
    BY <1>2, <1>5
  <2>2. BatchNumbers(o)'
    BY <1>2, <1>3 DEF BatchNumbers
  <2>3. BatchNotices(o)'
    <3>1. /\ batch'[o].cursor.inode = Missing /\ seen'[o].cursor.inode # Missing
          /\ DOMAIN batch'[o].found = {1} /\ batch'[o].found[1].type = "source.missing"
      BY <1>2, <1>3, <1>5, <2>1
    <3> QED BY <3>1 DEF BatchNotices
  <2> QED BY <2>2, <2>3
<1> QED BY <1>4, <1>5

\* What was absent after the first events stays so.
LEMMA AbsentStays ==
  ASSUME NEW n \in Nat, \A i \in 1..n : events'[i] = events[i]
  PROVE  \A k \in 0..n : Absent(k)' <=> Absent(k)
<1> SUFFICES ASSUME NEW k \in 0..n PROVE Absent(k)' <=> Absent(k)
  OBVIOUS
<1>1. \A i \in 1..k : events'[i] = events[i]
  OBVIOUS
<1>2. \A i \in 1..k : \A j \in i..k : j \in 1..k
  OBVIOUS
<1> QED BY <1>1, <1>2 DEF Absent

\* A commit on the cursor that was read goes on with the numbers, and alternates
\* the notices.
LEMMA CommitNumbers ==
  ASSUME FileTypes, NumberInv, NEW o \in Observers, Appends(o), ~overlapped'
  PROVE  (SequenceHasNoGaps /\ AbsencesAlternate)'
<1> DEFINE f == batch[o].found
<1>1. /\ Len(events) \in Nat /\ DOMAIN events = 1..Len(events)
      /\ Len(f) \in Nat /\ DOMAIN f = 1..Len(f)
  BY NewEventsAre
<1>2. PICK N \in Nat : N = Len(events)
  BY <1>1
<1>3. PICK m \in Nat : m = Len(f)
  BY <1>1
<1>4. /\ N \in Nat /\ DOMAIN events = 1..N
      /\ m \in Nat /\ DOMAIN f = 1..m
      /\ Len(events') = N + m
      /\ DOMAIN events' = 1..(N + m)
      /\ \A i \in 1..N : events'[i] = events[i]
      /\ \A i \in 1..m : /\ events'[N + i].type = f[i].type
                         /\ events'[N + i].sequence = seen[o].cursor.sequence + i
  BY <1>1, <1>2, <1>3, NewEventsAre DEF Appends
<1>5. /\ ~overlapped /\ cursor = seen[o].cursor
      /\ cursor' = batch[o].cursor
      /\ BatchNumbers(o) /\ BatchNotices(o)
  BY DEF Appends, NumberInv
<1>6. /\ cursor.sequence = N
      /\ \A i \in 1..N : events[i].sequence = i
      /\ \A i \in 1..N : /\ events[i].type = "source.missing" => ~Absent(i - 1)
                         /\ events[i].type = "source.available" => Absent(i - 1)
      /\ cursor.inode = Missing <=> Absent(N)
  BY <1>4, <1>5, <1>2 DEF NumberInv, CursorTellsTheEvents, SequenceHasNoGaps, AbsencesAlternate
<1>7. \A k \in 0..N : Absent(k)' <=> Absent(k)
  BY <1>4, AbsentStays
<1>8. /\ \A i \in 1..m :
           /\ f[i].type = "source.missing" =>
                i = 1 /\ cursor.inode # Missing /\ cursor'.inode = Missing
           /\ f[i].type = "source.available" =>
                i = 1 /\ cursor.inode = Missing /\ cursor'.inode # Missing
      /\ cursor.inode # Missing /\ cursor'.inode = Missing =>
           1 \in 1..m /\ f[1].type = "source.missing"
      /\ cursor.inode = Missing /\ cursor'.inode # Missing =>
           1 \in 1..m /\ f[1].type = "source.available"
      /\ cursor'.sequence = cursor.sequence + m
  BY <1>4, <1>5, <1>3 DEF BatchNumbers, BatchNotices
<1> HIDE DEF f
<1>9. \A i \in 1..(N + m) : i \in 1..N \/ \E k \in 1..m : i = N + k
  <2> SUFFICES ASSUME NEW i \in 1..(N + m), i \notin 1..N
               PROVE  \E k \in 1..m : i = N + k
    OBVIOUS
  <2>1. i - N \in 1..m /\ i = N + (i - N)
    BY <1>4
  <2> QED BY <2>1
<1>10. SequenceHasNoGaps'
  <2>1. ASSUME NEW i \in 1..(N + m) PROVE events'[i].sequence = i
    <3>1. CASE i \in 1..N
      BY <1>4, <1>6, <3>1
    <3>2. ASSUME NEW k \in 1..m, i = N + k PROVE events'[i].sequence = i
      BY <1>4, <1>5, <1>6, <3>2
    <3> QED BY <1>9, <3>1, <3>2
  <2>2. cursor'.sequence = N + m
    BY <1>6, <1>8
  <2> QED BY <1>4, <2>1, <2>2 DEF SequenceHasNoGaps
<1>11. ASSUME NEW i \in 1..(N + m)
      PROVE  /\ events'[i].type = "source.missing" => ~Absent(i - 1)'
             /\ events'[i].type = "source.available" => Absent(i - 1)'
  <2>1. CASE i \in 1..N
    <3>1. i - 1 \in 0..N /\ events'[i] = events[i]
      BY <1>4, <2>1
    <3> QED BY <1>6, <1>7, <2>1, <3>1
  <2>2. ASSUME NEW k \in 1..m, i = N + k
        PROVE  /\ events'[i].type = "source.missing" => ~Absent(i - 1)'
               /\ events'[i].type = "source.available" => Absent(i - 1)'
    <3>1. k = 1 => i - 1 = N /\ N \in 0..N
      BY <1>4, <2>2
    <3>2. events'[i].type = f[k].type
      BY <1>4, <2>2
    <3>3. CASE k = 1
      <4>1. Absent(N)' <=> Absent(N)
        BY <1>7, <3>1, <3>3
      <4> QED BY <1>6, <1>8, <3>1, <3>2, <3>3, <4>1
    <3>4. CASE k # 1
      BY <1>8, <3>2, <3>4
    <3> QED BY <3>3, <3>4
  <2> QED BY <1>9, <2>1, <2>2
<1>12. cursor'.inode = Missing <=> Absent(N + m)'
  <2>1. Absent(N)' <=> Absent(N)
    BY <1>4, <1>7
  <2>2. CASE cursor.inode # Missing /\ cursor'.inode = Missing
    <3>1. N + 1 \in 1..(N + m) /\ events'[N + 1].type = "source.missing"
      BY <1>4, <1>8, <2>2
    <3>2. ASSUME NEW j \in (N + 1)..(N + m)
          PROVE  events'[j].type # "source.available"
      <4>1. PICK k \in 1..m : j = N + k
        BY <1>4, <1>9
      <4> QED BY <1>4, <1>8, <2>2, <4>1
    <3> QED BY <2>2, <3>1, <3>2 DEF Absent
  <2>3. CASE cursor.inode = Missing /\ cursor'.inode # Missing
    <3>1. N + 1 \in 1..(N + m) /\ events'[N + 1].type = "source.available"
      BY <1>4, <1>8, <2>3
    <3>2. ASSUME NEW i \in 1..(N + m), events'[i].type = "source.missing"
          PROVE  N + 1 \in i..(N + m)
      <4>1. i \in 1..N
        <5>1. ASSUME NEW k \in 1..m, i = N + k PROVE FALSE
          BY <1>4, <1>8, <2>3, <3>2, <5>1
        <5> QED BY <1>9, <5>1
      <4> QED BY <1>4, <3>1, <4>1
    <3> QED BY <2>3, <3>1, <3>2 DEF Absent
  <2>4. CASE cursor.inode = Missing <=> cursor'.inode = Missing
    <3>1. \A k \in 1..m : /\ events'[N + k].type # "source.missing"
                          /\ events'[N + k].type # "source.available"
      BY <1>4, <1>8, <2>4
    <3>2. ASSUME Absent(N)' PROVE Absent(N + m)'
      <4>1. PICK i \in 1..N : /\ events'[i].type = "source.missing"
                              /\ \A j \in i..N : events'[j].type # "source.available"
        BY <3>2 DEF Absent
      <4>2. i \in 1..(N + m)
        BY <1>4
      <4>3. ASSUME NEW j \in i..(N + m) PROVE events'[j].type # "source.available"
        <5>1. j \in 1..(N + m) /\ (j \in 1..N => j \in i..N)
          BY <1>4
        <5> QED BY <1>9, <3>1, <4>1, <5>1
      <4> QED BY <4>1, <4>2, <4>3 DEF Absent
    <3>3. ASSUME Absent(N + m)' PROVE Absent(N)'
      <4>1. PICK i \in 1..(N + m) : /\ events'[i].type = "source.missing"
                                    /\ \A j \in i..(N + m) : events'[j].type # "source.available"
        BY <3>3 DEF Absent
      <4>2. i \in 1..N
        BY <1>9, <3>1, <4>1
      <4>3. \A j \in i..N : j \in i..(N + m)
        BY <1>4
      <4> QED BY <4>1, <4>2, <4>3 DEF Absent
    <3> QED BY <1>6, <2>1, <2>4, <3>2, <3>3
  <2> QED BY <2>2, <2>3, <2>4
<1>13. AbsencesAlternate'
  BY <1>4, <1>11, <1>12 DEF AbsencesAlternate
<1> QED BY <1>10, <1>13

\* Each step keeps the numbers and the notices.
LEMMA StepNumbers == FileTypes /\ NumberInv /\ [Next]_vars => NumberInv'
<1> SUFFICES ASSUME FileTypes, NumberInv, [Next]_vars PROVE NumberInv'
  OBVIOUS
<1>1. ASSUME UNCHANGED <<Stored, overlapped>>
      PROVE  CursorTellsTheEvents'
  BY <1>1 DEF Stored, NumberInv, CursorTellsTheEvents, SequenceHasNoGaps, AbsencesAlternate, Absent
<1>2. CASE FileSteps
  <2>1. \A o \in Observers : pc'[o] = "append" => BatchNumbers(o)' /\ BatchNotices(o)'
    BY <1>2 DEF FileSteps, NumberInv, BatchNumbers, BatchNotices
  <2> QED BY <1>1, <1>2, <2>1 DEF FileSteps, Stored, NumberInv
<1>3. ASSUME NEW o \in Observers, Alone(o)
      PROVE  \A q \in Observers \ {o} :
               pc'[q] = "append" => BatchNumbers(q)' /\ BatchNotices(q)'
  BY <1>3 DEF Alone, NumberInv, BatchNumbers, BatchNotices
<1>4. ASSUME NEW o \in Observers, Begins(o)
      PROVE  NumberInv'
  <2>1. pc'[o] # "append"
    BY <1>4 DEF Begins
  <2>2. ~overlapped' => \A q \in Observers : seen'[q].cursor.sequence <= Len(events')
    <3> SUFFICES ASSUME ~overlapped
                 PROVE  \A q \in Observers : seen'[q].cursor.sequence <= Len(events')
      BY <1>4 DEF Begins
    <3>1. cursor.sequence = Len(events) /\ Len(events) \in Nat
      BY DEF NumberInv, CursorTellsTheEvents, SequenceHasNoGaps, FileTypes
    <3> QED BY <1>4, <3>1 DEF Begins, Alone, Stored, NumberInv
  <2> QED BY <1>1, <1>3, <1>4, <2>1, <2>2 DEF Begins, NumberInv
<1>5. ASSUME NEW o \in Observers, Misses(o) \/ Reads(o)
      PROVE  NumberInv'
  <2>1. BatchNumbers(o)' /\ BatchNotices(o)'
    BY <1>5, MissNumbers, ReadNumbers
  <2>2. \A q \in Observers : pc'[q] = "append" => BatchNumbers(q)' /\ BatchNotices(q)'
    BY <1>3, <1>5, <2>1 DEF Misses, Reads
  <2>3. CursorTellsTheEvents'
    BY <1>1, <1>5 DEF Misses, Reads
  <2>4. ~overlapped' => \A q \in Observers : seen'[q].cursor.sequence <= Len(events')
    BY <1>5 DEF Misses, Reads, Alone, Stored, NumberInv
  <2> QED BY <2>2, <2>3, <2>4 DEF NumberInv
<1>6. ASSUME NEW o \in Observers, StatsIt(o)
      PROVE  NumberInv'
  <2>1. pc'[o] # "append"
    BY <1>6 DEF StatsIt
  <2>2. ~overlapped' => \A q \in Observers : seen'[q].cursor.sequence <= Len(events')
    BY <1>6 DEF StatsIt, Alone, Stored, NumberInv
  <2> QED BY <1>1, <1>3, <1>6, <2>1, <2>2 DEF StatsIt, NumberInv
<1>7. \A o \in Observers : seen'[o] = NoStat => seen'[o].cursor.sequence = 0
  BY DEF NoStat
<1>8. ASSUME NEW o \in Observers, Drops(o)
      PROVE  NumberInv'
  <2>1. pc'[o] # "append"
    BY <1>8 DEF Drops
  <2>2. ~overlapped' => \A q \in Observers : seen'[q].cursor.sequence <= Len(events')
    <3>1. Len(events) \in Nat
      BY DEF FileTypes
    <3> QED BY <1>7, <1>8, <3>1 DEF Drops, Alone, Stored, NumberInv
  <2> QED BY <1>1, <1>3, <1>8, <2>1, <2>2 DEF Drops, NumberInv
<1>9. ASSUME NEW o \in Observers, Appends(o)
      PROVE  NumberInv'
  <2>1. pc'[o] # "append"
    BY <1>9 DEF Appends
  <2>2. ~overlapped' => \A q \in Observers : seen'[q].cursor.sequence <= Len(events')
    <3>1. /\ Len(events) \in Nat /\ Len(batch[o].found) \in Nat
          /\ Len(events') = Len(events) + Len(batch[o].found)
      BY <1>9, NewEventsAre DEF Appends
    <3>2. \A q \in Observers : seen[q].cursor.sequence \in Nat
      BY DEF FileTypes, Stats, Rows, Cursors
    <3>3. ~overlapped' => \A q \in Observers : seen[q].cursor.sequence <= Len(events)
      BY <1>9 DEF Appends, NumberInv
    <3>4. \A q \in Observers : seen'[q] = NoStat \/ seen'[q] = seen[q]
      BY <1>9 DEF Appends, Alone
    <3> QED BY <1>7, <3>1, <3>2, <3>3, <3>4
  <2>3. CursorTellsTheEvents'
    <3>1. CASE ~overlapped'
      BY <1>9, <3>1, CommitNumbers DEF CursorTellsTheEvents
    <3>2. CASE overlapped'
      BY <3>2 DEF CursorTellsTheEvents, SequenceHasNoGaps, AbsencesAlternate
    <3> QED BY <3>1, <3>2
  <2> QED BY <1>3, <1>9, <2>1, <2>2, <2>3 DEF Appends, NumberInv
<1> QED BY <1>2, <1>4, <1>5, <1>6, <1>8, <1>9, StepsAre

\* The events are numbered over all runs without a gap and a missing file is
\* reported once, and the cursor agrees with both, through crashes and failures
\* of read_available and append_observation, unless two observations overlapped.
THEOREM CursorAndEvents == Spec => []CursorTellsTheEvents
<1>1. NumberInv => CursorTellsTheEvents
  BY DEF NumberInv
<1> QED BY <1>1, InitTypes, StepTypes, InitNumbers, StepNumbers, PTL DEF Spec

-----------------------------------------------------------------------------
(* What the offsets cover.                                                 *)

\* The file has one write more: a new line, or the rest of the last one.
Grows ==
  LET n == Len(path.data)
      w == path'.data[n + 1]
  IN  /\ generation' = generation /\ path'.inode = path.inode
      /\ Len(path'.data) = n + 1 /\ DOMAIN path'.data = 1..(n + 1)
      /\ \A p \in 1..n : path'.data[p] = path.data[p]
      /\ \/ written' = written + 1 /\ w.line = written' /\ (n > 0 => path.data[n].end)
         \/ written' = written /\ n > 0 /\ ~path.data[n].end /\ w.line = path.data[n].line /\ w.end

\* The file is empty: another content, or none.
Empties ==
  /\ path'.data = << >> /\ written' = written
  /\ \/ generation' = generation + 1
     \/ generation' = generation /\ path'.inode = Missing

\* What a step does to the file.
LEMMA FileStepsAre ==
  FileTypes /\ [Next]_vars => UNCHANGED <<path, written, generation>> \/ Grows \/ Empties
<1> SUFFICES ASSUME FileTypes, [Next]_vars
             PROVE  UNCHANGED <<path, written, generation>> \/ Grows \/ Empties
  OBVIOUS
<1> DEFINE n == Len(path.data)
<1>1. /\ path \in [inode : Inodes \cup {Missing}, data : Seq(Writes)]
      /\ path.data \in Seq(Writes) /\ n \in Nat /\ DOMAIN path.data = 1..n
      /\ Last(path.data) = path.data[n] /\ (path.data # << >> <=> n > 0)
  BY DEF FileTypes, Last
<1>2. ASSUME NEW line, NEW end, Write(line, end)
      PROVE  /\ generation' = generation /\ path'.inode = path.inode
             /\ Len(path'.data) = n + 1 /\ DOMAIN path'.data = 1..(n + 1)
             /\ \A p \in 1..n : path'.data[p] = path.data[p]
             /\ path'.data[n + 1] = [line |-> line, end |-> end]
  <2>1. path'.data = Append(path.data, [line |-> line, end |-> end]) /\ path'.inode = path.inode
    BY <1>1, <1>2 DEF Write
  <2>2. generation' = generation
    BY <1>2 DEF Write
  <2> QED BY <1>1, <2>1, <2>2
<1> HIDE DEF n
<1>3. CASE WriteNext
  <2>1. /\ written' = written + 1
        /\ n > 0 => path.data[n].end
    BY <1>1, <1>3 DEF WriteNext, Unfinished
  <2>2. PICK end \in BOOLEAN : Write(written + 1, end)
    BY <1>3 DEF WriteNext
  <2>3. path'.data[n + 1] = [line |-> written + 1, end |-> end]
    BY <1>2, <2>2
  <2> QED BY <1>2, <2>1, <2>2, <2>3 DEF Grows, n
<1>4. CASE WriteRest
  <2>1. written' = written /\ n > 0 /\ ~path.data[n].end /\ Write(path.data[n].line, TRUE)
    BY <1>1, <1>4 DEF WriteRest, Unfinished
  <2>2. path'.data[n + 1] = [line |-> path.data[n].line, end |-> TRUE]
    BY <1>2, <2>1
  <2>3. path'.data[n + 1].end
    BY <2>2
  <2>4. path'.data[n + 1].line = path.data[n].line
    BY <2>2
  <2> QED BY <1>2, <2>1, <2>3, <2>4 DEF Grows, n
<1>5. CASE RemoveFile \/ \E i \in Inodes : Replace(i)
  BY <1>5 DEF RemoveFile, Replace, Empties
<1>6. ASSUME NEW o \in Observers, Observe(o) \/ Start(o)
      PROVE  UNCHANGED <<path, written, generation>>
  BY <1>6 DEF Observe, Begin, Stat, ReadFile, ReadFails, AppendObservation, AppendFails,
              Start, At, file
<1>7. CASE UNCHANGED vars
  BY <1>7 DEF vars, file
<1> QED BY <1>3, <1>4, <1>5, <1>6, <1>7 DEF Next

\* Recorded, or about to be.
Known(l, found) ==
  Recorded(l) \/ \E i \in DOMAIN found : found[i].type = "log.line" /\ found[i].line = l

\* An offset of the present content ends a line, and what is before it is known.
Covers(c, content, found) ==
  content = generation /\ c.inode = path.inode =>
    /\ c.offset <= Len(path.data)
    /\ c.offset > 0 => path.data[c.offset].end
    /\ \A p \in 1..c.offset : path.data[p].end => Known(path.data[p].line, found)

CoverInv ==
  /\ Covers(cursor, origin, << >>)
  /\ \A o \in Observers : /\ Covers(seen[o].cursor, seen[o].origin, << >>)
                          /\ Covers(batch[o].cursor, batch[o].origin, batch[o].found)

\* No offset belongs to no content.
LEMMA CoversNothing == generation >= 1 => \A c, found : Covers(c, 0, found)
  BY DEF Covers

\* At first the cursor covers nothing.
LEMMA InitCovers == Init => CoverInv
<1> SUFFICES ASSUME Init PROVE CoverInv
  OBVIOUS
<1>1. generation >= 1 /\ cursor.offset = 0 /\ path.data = << >>
  BY DEF Init, NoStat
<1>2. Covers(cursor, origin, << >>)
  BY <1>1 DEF Covers
<1>3. \A o \in Observers : seen[o].origin = 0 /\ batch[o].origin = 0
  BY NothingTypes DEF Init
<1> QED BY <1>1, <1>2, <1>3, CoversNothing DEF CoverInv

\* What was recorded stays so, and what a commit has found gets recorded.
LEMMA RecordedStays ==
  ASSUME FileTypes, NEW o \in Observers, Appends(o)
  PROVE  /\ \A l : Recorded(l) => Recorded(l)'
         /\ \A l : Known(l, batch[o].found) => Recorded(l)'
<1> DEFINE f == batch[o].found
<1>1. /\ Len(events) \in Nat /\ DOMAIN events = 1..Len(events)
      /\ Len(f) \in Nat /\ DOMAIN f = 1..Len(f)
      /\ DOMAIN events' = 1..(Len(events) + Len(f))
      /\ \A i \in 1..Len(events) : events'[i] = events[i]
      /\ \A i \in 1..Len(f) : /\ events'[Len(events) + i].type = f[i].type
                              /\ events'[Len(events) + i].line = f[i].line
  BY NewEventsAre DEF Appends
<1> HIDE DEF f
<1>2. \A i \in 1..Len(events) : i \in DOMAIN events'
  BY <1>1
<1>3. \A i \in 1..Len(f) : Len(events) + i \in DOMAIN events'
  BY <1>1
<1>4. \A l : Recorded(l) => Recorded(l)'
  BY <1>1, <1>2 DEF Recorded
<1>5. ASSUME NEW l, Known(l, f) PROVE Recorded(l)'
  <2>1. CASE Recorded(l)
    BY <1>4, <2>1
  <2>2. ASSUME NEW i \in DOMAIN f, f[i].type = "log.line", f[i].line = l
        PROVE  Recorded(l)'
    BY <1>1, <1>3, <2>2 DEF Recorded
  <2> QED BY <1>5, <2>1, <2>2 DEF Known
<1> QED BY <1>4, <1>5 DEF f

\* An offset covers what it did as the file grows, and no other content.
LEMMA CoversStays ==
  ASSUME FileTypes, Grows \/ Empties, UNCHANGED events,
         NEW c \in Rows, NEW content \in Nat, content <= generation, NEW found,
         Covers(c, content, found)
  PROVE  Covers(c, content, found)'
<1>1. /\ Len(path.data) \in Nat /\ c.offset \in Nat /\ generation \in Nat
      /\ c.inode = Missing => c.offset = 0
  BY DEF FileTypes, Rows, Cursors
<1>2. \A l : Known(l, found)' <=> Known(l, found)
  BY DEF Known, Recorded
<1>3. CASE Grows
  <2> SUFFICES ASSUME content = generation, c.inode = path.inode
               PROVE  /\ c.offset <= Len(path'.data)
                      /\ c.offset > 0 => path'.data[c.offset].end
                      /\ \A p \in 1..c.offset :
                           path'.data[p].end => Known(path.data[p].line, found)'
    BY <1>3 DEF Covers, Grows
  <2>1. /\ c.offset <= Len(path.data)
        /\ c.offset > 0 => path.data[c.offset].end
        /\ \A p \in 1..c.offset : path.data[p].end => Known(path.data[p].line, found)
    BY DEF Covers
  <2>2. Len(path'.data) = Len(path.data) + 1 /\ \A p \in 1..c.offset : path'.data[p] = path.data[p]
    BY <1>1, <1>3, <2>1 DEF Grows
  <2>3. c.offset > 0 => c.offset \in 1..c.offset
    BY <1>1
  <2>4. ASSUME NEW p \in 1..c.offset, path'.data[p].end
        PROVE  Known(path.data[p].line, found)'
    <3>1. PICK l : l = path.data[p].line
      OBVIOUS
    <3>2. Known(l, found)'
      BY <1>2, <2>1, <2>2, <2>4, <3>1
    <3> QED BY <2>2, <3>1, <3>2 DEF Known, Recorded
  <2> QED BY <1>1, <2>1, <2>2, <2>3, <2>4
<1>4. CASE Empties
  <2>1. CASE generation' = generation + 1
    BY <1>1, <2>1 DEF Covers
  <2>2. CASE path'.inode = Missing
    <3> SUFFICES ASSUME c.inode = Missing PROVE Covers(c, content, found)'
      BY <2>2 DEF Covers
    <3>1. c.offset = 0 /\ Len(path'.data) = 0
      BY <1>1, <1>4 DEF Empties
    <3> QED BY <3>1 DEF Covers
  <2> QED BY <1>4, <2>1, <2>2 DEF Empties
<1> QED BY <1>3, <1>4

\* What is read behind an offset that covers what is before it covers the rest.
LEMMA ReadCovers ==
  ASSUME FileTypes, CoverInv, NEW o \in Observers, pc[o] = "read"
  PROVE  Covers(ReadBatch(seen[o]).cursor, ReadBatch(seen[o]).origin, ReadBatch(seen[o]).found)
<1> DEFINE s == seen[o]
           b == ReadBatch(s)
           start == StartOffset(s)
           offset == NextOffset(path.data, start)
<1>1. /\ s \in Stats /\ s.inode \in Inodes /\ path.data \in Seq(Writes) /\ generation \in Nat
      /\ generation >= 1 /\ s.cursor \in Rows
  BY DEF FileTypes, Stats
<1>2. Len(path.data) \in Nat
  BY <1>1
<1>3. start \in Nat /\ \A p \in (start + 1)..Len(path.data) : path.data[p].end =>
        \E i \in DOMAIN b.found : b.found[i] = LineEvent(path.data, start, p)
  BY <1>1, ReadBatchIs
<1>4. /\ offset \in Nat /\ start <= offset
      /\ offset # start => offset \in 1..Len(path.data) /\ path.data[offset].end
  BY <1>1, <1>3, NextOffsetIs
<1>5. /\ b.cursor.inode = s.inode /\ b.cursor.offset = offset
      /\ b.origin = IF start = 0 \/ s.origin = generation THEN generation ELSE 0
  BY DEF ReadBatch, Torn
<1>6. start = 0 \/ (start = s.cursor.offset /\ s.cursor.inode = s.inode)
  <2>1. Notice(s.cursor, s) = "none" => s.cursor.inode \in {Unknown, s.inode}
    BY <1>1, ConstantTypes, NoticeIs
  <2>2. start = IF Notice(s.cursor, s) = "none" THEN s.cursor.offset ELSE 0
    BY DEF StartOffset
  <2>3. s.cursor.inode = Unknown => s.cursor.offset = 0
    BY <1>1 DEF Rows
  <2> HIDE DEF s, start
  <2> QED BY <2>1, <2>2, <2>3
<1>7. Covers(s.cursor, s.origin, << >>)
  BY DEF CoverInv
<1> HIDE DEF s, b, start, offset
<1> SUFFICES ASSUME b.origin = generation, s.inode = path.inode
             PROVE  /\ offset <= Len(path.data)
                    /\ offset > 0 => path.data[offset].end
                    /\ \A p \in 1..offset : path.data[p].end => Known(path.data[p].line, b.found)
  BY <1>5 DEF Covers, b, s
<1>8. start > 0 =>
        /\ start <= Len(path.data) /\ path.data[start].end
        /\ \A p \in 1..start : path.data[p].end => Recorded(path.data[p].line)
  BY <1>1, <1>3, <1>5, <1>6, <1>7 DEF Covers, Known
<1>9. ASSUME NEW p \in 1..offset, path.data[p].end
      PROVE  Known(path.data[p].line, b.found)
  <2>1. CASE p <= start
    BY <1>3, <1>8, <1>9, <2>1 DEF Known
  <2>2. CASE p > start
    <3>1. p \in (start + 1)..Len(path.data)
      BY <1>2, <1>3, <1>4, <2>2
    <3>2. PICK i \in DOMAIN b.found : b.found[i] = LineEvent(path.data, start, p)
      BY <1>3, <1>9, <3>1
    <3>3. LineEvent(path.data, start, p) = [type |-> "log.line", line |-> path.data[p].line]
      BY <1>3, <1>8 DEF LineEvent
    <3> QED BY <3>2, <3>3 DEF Known
  <2> QED BY <1>3, <1>4, <2>1, <2>2
<1> QED BY <1>2, <1>3, <1>4, <1>8, <1>9

\* Each step keeps what the offsets cover.
LEMMA StepCovers == FileTypes /\ CoverInv /\ [Next]_vars => CoverInv'
<1> SUFFICES ASSUME FileTypes, CoverInv, [Next]_vars PROVE CoverInv'
  OBVIOUS
<1>1. /\ generation >= 1 /\ cursor \in Rows /\ origin \in Nat /\ origin <= generation
      /\ \A o \in Observers : /\ seen[o].cursor \in Rows /\ seen[o].origin \in Nat
                              /\ seen[o].origin <= generation
                              /\ batch[o].cursor \in Rows /\ batch[o].origin \in Nat
                              /\ batch[o].origin <= generation
  BY DEF FileTypes, Stats, Batches
<1>2. CASE FileSteps
  <2>1. CASE Grows \/ Empties
    BY <1>1, <1>2, <2>1, CoversStays DEF FileSteps, Stored, CoverInv
  <2>2. CASE UNCHANGED <<path, written, generation>>
    BY <1>2, <2>2 DEF FileSteps, Stored, CoverInv, Covers, Known, Recorded
  <2> QED BY <2>1, <2>2, FileStepsAre
<1>3. ASSUME NEW o \in Observers, Alone(o), UNCHANGED Stored,
             Covers(seen'[o].cursor, seen'[o].origin, << >>),
             Covers(batch'[o].cursor, batch'[o].origin, batch'[o].found)
      PROVE  CoverInv'
  <2>1. \A q \in Observers : /\ Covers(seen'[q].cursor, seen'[q].origin, << >>)
                             /\ Covers(batch'[q].cursor, batch'[q].origin, batch'[q].found)
    BY <1>3 DEF Alone, CoverInv
  <2>2. Covers(cursor', origin', << >>)
    BY <1>3 DEF Stored, CoverInv
  <2> QED BY <1>3, <2>1, <2>2 DEF Alone, Stored, CoverInv, Covers, Known, Recorded
<1>4. ASSUME NEW o \in Observers, Begins(o)
      PROVE  CoverInv'
  BY <1>3, <1>4 DEF Begins, CoverInv
<1>5. ASSUME NEW o \in Observers, Misses(o)
      PROVE  CoverInv'
  <2>1. MissingBatch(seen[o].cursor).origin = 0
    BY <1>1, MissingBatchIs
  <2>2. Covers(batch'[o].cursor, batch'[o].origin, batch'[o].found)
    BY <1>1, <1>5, <2>1, CoversNothing DEF Misses
  <2> QED BY <1>3, <1>5, <2>2 DEF Misses, CoverInv
<1>6. ASSUME NEW o \in Observers, StatsIt(o)
      PROVE  CoverInv'
  BY <1>3, <1>6 DEF StatsIt, CoverInv
<1>7. ASSUME NEW o \in Observers, Reads(o)
      PROVE  CoverInv'
  <2>1. Covers(batch'[o].cursor, batch'[o].origin, batch'[o].found)
    BY <1>7, ReadCovers DEF Reads
  <2> QED BY <1>3, <1>7, <2>1 DEF Reads, CoverInv
<1>8. ASSUME NEW o \in Observers, seen'[o] = NoStat, batch'[o] = NoBatch
      PROVE  /\ Covers(seen'[o].cursor, seen'[o].origin, << >>)
             /\ Covers(batch'[o].cursor, batch'[o].origin, batch'[o].found)
  BY <1>1, <1>8, NothingTypes, CoversNothing
<1>9. ASSUME NEW o \in Observers, Drops(o)
      PROVE  CoverInv'
  BY <1>3, <1>8, <1>9 DEF Drops
<1>10. ASSUME NEW o \in Observers, Appends(o)
       PROVE  CoverInv'
  <2>1. ASSUME NEW c, NEW content, NEW found,
               Covers(c, content, found), \A l : Known(l, found) => Recorded(l)'
        PROVE  Covers(c, content, << >>)'
    <3> SUFFICES ASSUME content = generation, c.inode = path.inode
                 PROVE  /\ c.offset <= Len(path.data)
                        /\ c.offset > 0 => path.data[c.offset].end
                        /\ \A p \in 1..c.offset : path.data[p].end => Recorded(path.data[p].line)'
      BY <1>10 DEF Covers, Known, Appends, Alone
    <3> QED BY <2>1, <1>10 DEF Covers, Appends, Alone
  <2>2. ASSUME NEW c, NEW content, NEW found, Covers(c, content, found)
        PROVE  Covers(c, content, found)'
    <3>1. \A l : Known(l, found) => Known(l, found)'
      BY <1>10, RecordedStays DEF Known
    <3> QED BY <2>2, <3>1, <1>10 DEF Covers, Appends, Alone
  <2>3. Covers(cursor, origin, << >>)'
    <3>1. PICK c, content, found : /\ c = batch[o].cursor /\ content = batch[o].origin
                                   /\ found = batch[o].found
      OBVIOUS
    <3>2. Covers(c, content, found)
      BY <3>1 DEF CoverInv
    <3>3. Covers(c, content, << >>)'
      BY <2>1, <3>1, <3>2, <1>10, RecordedStays
    <3> QED BY <1>10, <3>1, <3>3 DEF Appends
  <2>4. ASSUME NEW q \in Observers
        PROVE  /\ Covers(seen[q].cursor, seen[q].origin, << >>)'
               /\ Covers(batch[q].cursor, batch[q].origin, batch[q].found)'
    <3>1. CASE q = o
      <4>1. seen'[q].origin = 0 /\ batch'[q].origin = 0 /\ generation' >= 1
        BY <1>1, <1>10, <3>1, NothingTypes DEF Appends, Alone
      <4> QED BY <4>1 DEF Covers
    <3>2. CASE q # o
      <4>1. PICK s, b : s = seen[q] /\ b = batch[q]
        OBVIOUS
      <4>2. /\ Covers(s.cursor, s.origin, << >>)
            /\ Covers(b.cursor, b.origin, b.found)
        BY <4>1 DEF CoverInv
      <4>3. /\ Covers(s.cursor, s.origin, << >>)'
            /\ Covers(b.cursor, b.origin, b.found)'
        BY <2>2, <4>2
      <4>4. seen'[q] = s /\ batch'[q] = b
        BY <1>10, <3>2, <4>1 DEF Appends, Alone
      <4> QED BY <4>3, <4>4
    <3> QED BY <3>1, <3>2
  <2> QED BY <2>3, <2>4 DEF CoverInv
<1> QED BY <1>2, <1>4, <1>5, <1>6, <1>7, <1>9, <1>10, StepsAre

\* The stored offset never passes a complete line that was not recorded:
\* append_observation stores the lines and the offset of read_available together.
THEOREM NothingIsSkipped == Spec => []CursorSkipsNothing
<1>1. FileTypes /\ CoverInv => CursorSkipsNothing
  BY DEF CoverInv, Covers, Known, CursorSkipsNothing, FileTypes, Rows, Cursors
<1> QED BY <1>1, InitTypes, StepTypes, InitCovers, StepCovers, PTL DEF Spec

-----------------------------------------------------------------------------
(* What the incident tells.                                                *)

\* The error lines among the first n events of es.
ErrorsOf(es, n) == { i \in 1..n : IsError(es[i]) }

\* What IncidentTalliesErrors says of the incident and the events, said of an
\* incident and the first n events of a sequence.
Tallies(inc, es, n) ==
  LET total == Cardinality(ErrorsOf(es, n)) IN
  /\ inc.count = total
  /\ Len(inc.samples) = IF total < 3 THEN total ELSE 3
  /\ \A i \in ErrorsOf(es, n) :
       LET k == Cardinality(ErrorsOf(es, i)) IN
         /\ k < 3 => inc.samples[k] = es[i].line
         /\ k >= 3 /\ k = total => inc.samples[3] = es[i].line

\* How many errors there are.
LEMMA ErrorsOfAre ==
  ASSUME NEW es, NEW n \in Nat
  PROVE  /\ Cardinality(ErrorsOf(es, n)) \in Nat
         /\ n = 0 => Cardinality(ErrorsOf(es, n)) = 0
         /\ ~IsError(es[n + 1]) => ErrorsOf(es, n + 1) = ErrorsOf(es, n)
         /\ IsError(es[n + 1]) =>
              /\ Cardinality(ErrorsOf(es, n + 1)) = Cardinality(ErrorsOf(es, n)) + 1
              /\ ErrorsOf(es, n + 1) = ErrorsOf(es, n) \cup {n + 1}
         /\ \A i \in ErrorsOf(es, n) : Cardinality(ErrorsOf(es, i)) \in 1..Cardinality(ErrorsOf(es, n))
<1> DEFINE E(k) == ErrorsOf(es, k)
<1>1. \A k \in Nat : IsFiniteSet(E(k)) /\ Cardinality(E(k)) \in Nat
  <2> SUFFICES ASSUME NEW k \in Nat PROVE IsFiniteSet(E(k)) /\ Cardinality(E(k)) \in Nat
    OBVIOUS
  <2>1. IsFiniteSet(1..k)
    BY FS_Interval
  <2>2. E(k) \subseteq 1..k
    BY DEF ErrorsOf
  <2>3. IsFiniteSet(E(k))
    BY <2>1, <2>2, FS_Subset
  <2> QED BY <2>3, FS_CardinalityType
<1>2. n = 0 => Cardinality(E(n)) = 0
  <2>1. n = 0 => E(n) = {}
    BY DEF ErrorsOf
  <2> QED BY <2>1, FS_EmptySet
<1>3. ~IsError(es[n + 1]) => E(n + 1) = E(n)
  BY DEF ErrorsOf
<1>4. IsError(es[n + 1]) => E(n + 1) = E(n) \cup {n + 1}
  BY DEF ErrorsOf
<1>5. n + 1 \notin E(n)
  BY DEF ErrorsOf
<1>6. Cardinality(E(n) \cup {n + 1}) = Cardinality(E(n)) + 1
  BY <1>1, <1>5, FS_AddElement
<1>7. ASSUME NEW i \in E(n)
      PROVE  Cardinality(E(i)) \in 1..Cardinality(E(n))
  <2>1. i \in 1..n /\ i \in Nat /\ E(i) \subseteq E(n) /\ i \in E(i)
    BY <1>7 DEF ErrorsOf
  <2>2. Cardinality(E(i)) <= Cardinality(E(n))
    BY <1>1, <2>1, FS_Subset
  <2>3. Cardinality(E(i)) # 0
    BY <1>1, <2>1, FS_EmptySet
  <2> HIDE DEF E
  <2> QED BY <1>1, <2>1, <2>2, <2>3
<1> QED BY <1>1, <1>2, <1>3, <1>4, <1>6, <1>7

\* An error more, and the incident with one occurrence more tells it.
LEMMA TalliesError ==
  ASSUME NEW inc \in Incidents, NEW es, NEW n \in Nat, Tallies(inc, es, n),
         IsError(es[n + 1]), es[n + 1].line \in 0..MaxLines
  PROVE  Tallies(Occurrence(inc, es[n + 1].line), es, n + 1)
<1> DEFINE l == es[n + 1].line
           c == inc.count
           s == inc.samples
           E(k) == ErrorsOf(es, k)
           K(k) == Cardinality(E(k))
           t == IF c < 3 THEN Append(s, l) ELSE [s EXCEPT ![3] = l]
<1>1. /\ c \in Nat /\ s \in Seq(0..MaxLines) /\ l \in 0..MaxLines
      /\ Occurrence(inc, l).count = c + 1
      /\ Occurrence(inc, l).samples = t
  BY DEF Incidents, Occurrence
<1>2. /\ K(n) \in Nat /\ K(n + 1) = K(n) + 1 /\ E(n + 1) = E(n) \cup {n + 1}
      /\ \A i \in E(n) : K(i) \in 1..K(n)
  BY ErrorsOfAre
<1>3. /\ c = K(n)
      /\ Len(s) = IF c < 3 THEN c ELSE 3
      /\ \A i \in E(n) : /\ K(i) < 3 => s[K(i)] = es[i].line
                         /\ K(i) >= 3 /\ K(i) = c => s[3] = es[i].line
  BY DEF Tallies
<1> SUFFICES /\ c + 1 = K(n + 1)
             /\ Len(t) = IF K(n + 1) < 3 THEN K(n + 1) ELSE 3
             /\ \A i \in E(n + 1) : /\ K(i) < 3 => t[K(i)] = es[i].line
                                    /\ K(i) >= 3 /\ K(i) = K(n + 1) => t[3] = es[i].line
  <2> HIDE DEF c, t
  <2> QED BY <1>1 DEF Tallies
<1> HIDE DEF l, c, s, K, E, t
<1>4. CASE c < 3
  <2>1. t = Append(s, l) /\ Len(s) = c
    BY <1>3, <1>4 DEF t
  <2>2. /\ Len(t) = c + 1 /\ t[c + 1] = l
        /\ \A k \in 1..c : t[k] = s[k]
    BY <1>1, <2>1
  <2>3. ASSUME NEW i \in E(n)
        PROVE  /\ K(i) < 3 => t[K(i)] = es[i].line
               /\ K(i) >= 3 /\ K(i) = K(n + 1) => t[3] = es[i].line
    BY <1>1, <1>2, <1>3, <1>4, <2>2, <2>3
  <2>4. /\ K(n + 1) < 3 => t[K(n + 1)] = es[n + 1].line
        /\ K(n + 1) >= 3 => t[3] = es[n + 1].line
    BY <1>1, <1>2, <1>3, <1>4, <2>2 DEF l
  <2>5. Len(t) = IF K(n + 1) < 3 THEN K(n + 1) ELSE 3
    BY <1>1, <1>2, <1>3, <1>4, <2>2
  <2> QED BY <1>2, <1>3, <2>3, <2>4, <2>5
<1>5. CASE ~(c < 3)
  <2>1. t = [s EXCEPT ![3] = l] /\ Len(s) = 3
    BY <1>3, <1>5 DEF t
  <2>2. Len(t) = 3 /\ t[3] = l /\ t[1] = s[1] /\ t[2] = s[2]
    BY <1>1, <2>1
  <2>3. ASSUME NEW i \in E(n)
        PROVE  /\ K(i) < 3 => t[K(i)] = es[i].line
               /\ K(i) >= 3 /\ K(i) = K(n + 1) => t[3] = es[i].line
    <3>1. K(i) \in 1..c /\ K(n + 1) = c + 1
      BY <1>2, <1>3, <2>3
    <3>2. K(i) < 3 => K(i) = 1 \/ K(i) = 2
      BY <1>1, <3>1
    <3>3. K(i) # K(n + 1)
      BY <1>1, <3>1
    <3> QED BY <1>3, <2>2, <2>3, <3>2, <3>3
  <2>4. K(n + 1) = c + 1 /\ ~(K(n + 1) < 3)
    BY <1>1, <1>2, <1>3, <1>5
  <2>5. /\ K(n + 1) < 3 => t[K(n + 1)] = es[n + 1].line
        /\ K(n + 1) >= 3 => t[3] = es[n + 1].line
    BY <2>2, <2>4 DEF l
  <2> QED BY <1>2, <2>2, <2>3, <2>4, <2>5
<1> QED BY <1>4, <1>5

\* Events that begin alike have the same errors there.
LEMMA TalliesPrefix ==
  ASSUME NEW inc, NEW es, NEW fs, NEW n \in Nat, \A i \in 1..n : fs[i] = es[i],
         Tallies(inc, es, n)
  PROVE  Tallies(inc, fs, n)
<1>1. \A k \in 0..n : ErrorsOf(fs, k) = ErrorsOf(es, k)
  BY DEF ErrorsOf
<1>2. \A i \in ErrorsOf(es, n) : i \in 0..n /\ fs[i] = es[i]
  BY DEF ErrorsOf
<1>3. n \in 0..n
  OBVIOUS
<1> QED BY <1>1, <1>2, <1>3 DEF Tallies

\* A commit records in the incident the errors it adds to the events.
LEMMA CommitTallies ==
  ASSUME FileTypes, IncidentTalliesErrors, NEW o \in Observers, Appends(o)
  PROVE  IncidentTalliesErrors'
<1> DEFINE f == batch[o].found
           r == Recording(f)
<1>1. /\ Len(events) \in Nat
      /\ f \in Seq(Founds) /\ Len(f) \in Nat /\ DOMAIN f = 1..Len(f)
      /\ Len(events') = Len(events) + Len(f)
      /\ \A i \in 1..Len(events) : events'[i] = events[i]
      /\ \A i \in 1..Len(f) : /\ events'[Len(events) + i].type = f[i].type
                              /\ events'[Len(events) + i].line = f[i].line
  BY NewEventsAre DEF Appends, Batches
<1>2. PICK N, m, es : /\ N \in Nat /\ N = Len(events)
                      /\ m \in Nat /\ m = Len(f)
                      /\ es = events'
  BY <1>1
<1>3. /\ r[0] = incident
      /\ \A n \in 1..m : r[n] = IF IsError(f[n]) THEN Occurrence(r[n - 1], f[n].line) ELSE r[n - 1]
      /\ \A n \in 0..m : r[n] \in Incidents
      /\ incident' = r[m]
  <2>1. incident \in Incidents
    BY DEF FileTypes
  <2> QED BY <1>1, <1>2, <2>1, RecordingIs, RecordingTypes DEF Appends
<1>4. Tallies(incident, events, N)
  BY <1>2 DEF IncidentTalliesErrors, ErrorsUpTo, Tallies, ErrorsOf
<1>5. Tallies(incident, es, N)
  BY <1>1, <1>2, <1>4, TalliesPrefix
<1> DEFINE Good == { n \in Nat : n <= m => Tallies(r[n], es, N + n) }
<1> HIDE DEF r
<1>6. 0 \in Good
  BY <1>2, <1>3, <1>5
<1>7. ASSUME NEW n \in Nat, n \in Good
      PROVE  n + 1 \in Good
  <2> SUFFICES ASSUME n + 1 <= m PROVE Tallies(r[n + 1], es, N + (n + 1))
    OBVIOUS
  <2>1. n + 1 \in 1..m /\ n \in 0..m /\ n + 1 - 1 = n /\ N + (n + 1) = N + n + 1 /\ N + n \in Nat
    BY <1>2
  <2>2. Tallies(r[n], es, N + n)
    BY <1>7, <2>1
  <2>3. es[N + n + 1].type = f[n + 1].type /\ es[N + n + 1].line = f[n + 1].line
    BY <1>1, <1>2, <2>1
  <2>4. f[n + 1].line \in 0..MaxLines
    <3>1. f[n + 1] \in Founds
      BY <1>1, <1>2, <2>1
    <3> QED BY <3>1 DEF Founds
  <2>5. IsError(es[N + n + 1]) <=> IsError(f[n + 1])
    BY <2>3 DEF IsError
  <2>6. CASE IsError(f[n + 1])
    <3>1. r[n + 1] = Occurrence(r[n], es[N + n + 1].line)
      BY <1>3, <2>1, <2>3, <2>6
    <3>2. r[n] \in Incidents
      BY <1>3, <2>1
    <3> QED BY <2>1, <2>2, <2>3, <2>4, <2>5, <2>6, <3>1, <3>2, TalliesError
  <2>7. CASE ~IsError(f[n + 1])
    <3>1. r[n + 1] = r[n]
      BY <1>3, <2>1, <2>7
    <3>2. ErrorsOf(es, N + n + 1) = ErrorsOf(es, N + n)
      BY <2>1, <2>5, <2>7, ErrorsOfAre
    <3>3. Tallies(r[n + 1], es, N + n + 1)
      BY <2>2, <3>1, <3>2 DEF Tallies
    <3>4. N + (n + 1) = N + n + 1
      BY <2>1
    <3> QED BY <3>3, <3>4
  <2> QED BY <2>6, <2>7
<1>8. \A n \in Nat : n \in Good
  <2> HIDE DEF Good
  <2> QED BY <1>6, <1>7, Induction
<1>9. Tallies(r[m], es, N + m)
  BY <1>2, <1>8
<1>10. Tallies(incident, events, Len(events))'
  BY <1>1, <1>2, <1>3, <1>9
<1> QED BY <1>10 DEF IncidentTalliesErrors, ErrorsUpTo, Tallies, ErrorsOf

\* The count and the samples of the incident agree with the recorded errors in
\* every state, whatever observers overlap: _record_incident_on runs in the
\* transaction that inserts the events.
THEOREM IncidentTellsErrors == Spec => []IncidentTalliesErrors
<1>1. Init => IncidentTalliesErrors
  <2> SUFFICES ASSUME Init PROVE IncidentTalliesErrors
    OBVIOUS
  <2>1. Len(events) = 0 /\ incident.count = 0 /\ Len(incident.samples) = 0
    BY DEF Init, NoIncident
  <2>2. ErrorsUpTo(0) = {}
    BY DEF ErrorsUpTo
  <2> QED BY <2>1, <2>2, FS_EmptySet DEF IncidentTalliesErrors
<1>2. FileTypes /\ IncidentTalliesErrors /\ [Next]_vars => IncidentTalliesErrors'
  <2> SUFFICES ASSUME FileTypes, IncidentTalliesErrors, [Next]_vars
               PROVE  IncidentTalliesErrors'
    OBVIOUS
  <2>1. ASSUME UNCHANGED Stored PROVE IncidentTalliesErrors'
    BY <2>1 DEF Stored, IncidentTalliesErrors, ErrorsUpTo
  <2>2. ASSUME NEW o \in Observers, Appends(o) PROVE IncidentTalliesErrors'
    BY <2>2, CommitTallies
  <2> QED BY <2>1, <2>2, StepsAre DEF FileSteps, Begins, Misses, StatsIt, Reads, Drops
<1> QED BY <1>1, <1>2, InitTypes, StepTypes, PTL DEF Spec

-----------------------------------------------------------------------------
(* The order of the lines.                                                 *)

\* The lines of the file are in order, and a line ends once.
FileInOrder ==
  \A p, q \in DOMAIN path.data :
    p < q => /\ path.data[p].line <= path.data[q].line
             /\ path.data[p].end => path.data[p].line < path.data[q].line

\* Recorded as a whole.
Kept(l) == \E i \in DOMAIN events : IsLine(events[i]) /\ events[i].line = l

\* All the file has come after the line l.
Newer(l) == \A p \in DOMAIN path.data : l < path.data[p].line

\* What the file has behind the cursor has come after the line l.
Behind(l, c) ==
  \/ Newer(l)
  \/ /\ c.inode = path.inode
     /\ c.offset \in DOMAIN path.data /\ path.data[c.offset].end
     /\ \A p \in (c.offset + 1)..Len(path.data) : l < path.data[p].line

\* No event was committed since the observer has read the cursor.
Current(o) ==
  pc[o] \in {"stat", "read", "append"} /\ seen[o].cursor.sequence = Len(events)

BatchInOrder(b) ==
  /\ \A i, j \in DOMAIN b.found :
       i < j /\ IsLine(b.found[i]) /\ IsLine(b.found[j]) => b.found[i].line < b.found[j].line
  /\ \A i \in DOMAIN b.found : IsLine(b.found[i]) => Behind(b.found[i].line, b.cursor)
  /\ \A l \in 1..MaxLines : Kept(l) =>
       /\ Behind(l, b.cursor)
       /\ \A i \in DOMAIN b.found : IsLine(b.found[i]) => l < b.found[i].line

\* What a current observer reads and is about to commit comes after what is
\* recorded; a file that begins anew is all new.
InOrder(o) ==
  /\ \A l \in 1..MaxLines : Kept(l) => Behind(l, seen[o].cursor)
  /\ pc[o] = "read" /\ Notice(seen[o].cursor, seen[o]) # "none" =>
       \A l \in 1..MaxLines : Kept(l) => Newer(l)
  /\ pc[o] = "append" => BatchInOrder(batch[o])

OrderInv ==
  /\ FileInOrder
  /\ \A l \in 1..MaxLines : Kept(l) => l <= written
  /\ \A o \in Observers :
       /\ pc[o] = "read" /\ seen[o].generation = generation /\ path.inode # Missing =>
            seen[o].inode = path.inode
       /\ \A i \in DOMAIN batch[o].found :
            IsLine(batch[o].found[i]) => batch[o].found[i].line <= written
  /\ LinesOnceInOrder
  /\ ~replaced /\ ~overlapped =>
       /\ \A l \in 1..MaxLines : Kept(l) => Behind(l, cursor)
       /\ \A o \in Observers : Current(o) => InOrder(o)

\* The writes there are.
LEMMA DataIs ==
  FileTypes =>
    /\ Len(path.data) \in Nat /\ DOMAIN path.data = 1..Len(path.data)
    /\ \A p \in 1..Len(path.data) : path.data[p].line \in 1..MaxLines /\ path.data[p].line <= written
    /\ written \in Nat /\ MaxLines \in Nat
<1> SUFFICES ASSUME FileTypes
             PROVE  /\ Len(path.data) \in Nat /\ DOMAIN path.data = 1..Len(path.data)
                    /\ \A p \in 1..Len(path.data) :
                         path.data[p].line \in 1..MaxLines /\ path.data[p].line <= written
                    /\ written \in Nat /\ MaxLines \in Nat
  OBVIOUS
<1>1. path.data \in Seq(Writes) /\ written \in Nat /\ MaxLines \in Nat
  BY ConstantTypes DEF FileTypes
<1>2. ASSUME NEW p \in 1..Len(path.data)
      PROVE  path.data[p].line \in 1..MaxLines /\ path.data[p].line <= written
  <2>1. p \in DOMAIN path.data /\ path.data[p] \in Writes
    BY <1>1
  <2> QED BY <2>1 DEF FileTypes, Writes
<1> QED BY <1>1, <1>2

\* What the program writes keeps the file in order.
LEMMA FileStaysInOrder ==
  ASSUME FileTypes, FileInOrder, Grows \/ Empties
  PROVE  FileInOrder' /\ written <= written'
<1> DEFINE n == Len(path.data)
<1>1. /\ n \in Nat /\ DOMAIN path.data = 1..n /\ written \in Nat
      /\ \A p \in 1..n : path.data[p].line \in Nat /\ path.data[p].line <= written
  BY DataIs
<1>2. CASE Empties
  <2>1. DOMAIN path'.data = {} /\ written' = written
    BY <1>2 DEF Empties
  <2> QED BY <1>1, <2>1 DEF FileInOrder
<1>3. CASE Grows
  <2>1. /\ Len(path'.data) = n + 1
        /\ \A p \in 1..n : path'.data[p] = path.data[p]
        /\ \/ written' = written + 1 /\ path'.data[n + 1].line = written'
           \/ /\ written' = written /\ n > 0 /\ ~path.data[n].end
              /\ path'.data[n + 1].line = path.data[n].line
    BY <1>3 DEF Grows
  <2>2. DOMAIN path'.data = 1..(n + 1)
    BY <1>3 DEF Grows
  <2>3. \A p \in 1..n, q \in 1..n :
          p < q => /\ path.data[p].line <= path.data[q].line
                   /\ path.data[p].end => path.data[p].line < path.data[q].line
    BY <1>1 DEF FileInOrder
  <2> HIDE DEF n
  <2>4. ASSUME NEW p \in 1..n
        PROVE  /\ path.data[p].line <= path'.data[n + 1].line
               /\ path.data[p].end => path.data[p].line < path'.data[n + 1].line
    <3>1. CASE written' = written + 1 /\ path'.data[n + 1].line = written'
      BY <1>1, <3>1
    <3>2. CASE n > 0 /\ ~path.data[n].end /\ path'.data[n + 1].line = path.data[n].line
      <4>1. CASE p = n
        BY <1>1, <3>2, <4>1
      <4>2. CASE p # n
        <5>1. n \in 1..n /\ p < n
          BY <1>1, <4>2
        <5> QED BY <2>3, <3>2, <5>1
      <4> QED BY <4>1, <4>2
    <3> QED BY <2>1, <3>1, <3>2
  <2>5. ASSUME NEW p \in 1..(n + 1), NEW q \in 1..(n + 1), p < q
        PROVE  /\ path'.data[p].line <= path'.data[q].line
               /\ path'.data[p].end => path'.data[p].line < path'.data[q].line
    <3>1. p \in 1..n /\ path'.data[p] = path.data[p]
      BY <1>1, <2>1, <2>5
    <3>2. CASE q = n + 1
      BY <2>4, <3>1, <3>2
    <3>3. CASE q # n + 1
      <4>1. q \in 1..n
        BY <1>1, <3>3
      <4>2. path'.data[q] = path.data[q]
        BY <2>1, <4>1
      <4> QED BY <2>3, <2>5, <3>1, <4>1, <4>2
    <3> QED BY <3>2, <3>3
  <2>6. written <= written'
    BY <1>1, <2>1
  <2> QED BY <2>2, <2>5, <2>6 DEF FileInOrder
<1> QED BY <1>2, <1>3

\* A line that the rest of the file comes after stays one.
LEMMA BehindStays ==
  ASSUME FileTypes, Grows \/ Empties, NEW l \in Nat, l <= written
  PROVE  /\ Newer(l) => Newer(l)'
         /\ \A c \in Rows : Behind(l, c) => Behind(l, c)'
<1> DEFINE n == Len(path.data)
<1>1. /\ n \in Nat /\ DOMAIN path.data = 1..n /\ written \in Nat
      /\ \A p \in 1..n : path.data[p].line \in Nat /\ path.data[p].line <= written
  BY DataIs
<1>2. CASE Empties
  <2>1. DOMAIN path'.data = {}
    BY <1>2 DEF Empties
  <2> QED BY <2>1 DEF Newer, Behind
<1>3. CASE Grows
  <2>1. /\ Len(path'.data) = n + 1
        /\ path'.inode = path.inode
        /\ \A p \in 1..n : path'.data[p] = path.data[p]
        /\ \/ path'.data[n + 1].line = written + 1
           \/ n > 0 /\ ~path.data[n].end /\ path'.data[n + 1].line = path.data[n].line
    BY <1>3 DEF Grows
  <2>2. DOMAIN path'.data = 1..(n + 1)
    BY <1>3 DEF Grows
  <2> HIDE DEF n
  <2>3. ASSUME Newer(l) PROVE Newer(l)'
    <3>1. \A p \in 1..n : l < path.data[p].line
      BY <1>1, <2>3 DEF Newer
    <3>2. l < path'.data[n + 1].line
      BY <1>1, <2>1, <3>1
    <3>3. \A p \in 1..(n + 1) : l < path'.data[p].line
      BY <1>1, <2>1, <3>1, <3>2
    <3> QED BY <2>2, <3>3 DEF Newer
  <2>4. ASSUME NEW c \in Rows, Behind(l, c) PROVE Behind(l, c)'
    <3>1. CASE Newer(l)
      BY <2>3, <3>1 DEF Behind
    <3>2. CASE /\ c.inode = path.inode
               /\ c.offset \in DOMAIN path.data /\ path.data[c.offset].end
               /\ \A p \in (c.offset + 1)..Len(path.data) : l < path.data[p].line
      <4>1. c.offset \in 1..n /\ \A p \in (c.offset + 1)..n : l < path.data[p].line
        BY <1>1, <3>2 DEF n
      <4>2. l < path'.data[n + 1].line
        <5>1. CASE path'.data[n + 1].line = written + 1
          BY <1>1, <5>1
        <5>2. CASE n > 0 /\ ~path.data[n].end /\ path'.data[n + 1].line = path.data[n].line
          <6>1. n \in (c.offset + 1)..n
            BY <1>1, <3>2, <4>1, <5>2
          <6> QED BY <4>1, <5>2, <6>1
        <5> QED BY <2>1, <5>1, <5>2
      <4>3. \A p \in (c.offset + 1)..(n + 1) : l < path'.data[p].line
        BY <1>1, <2>1, <4>1, <4>2
      <4>4. c.offset \in DOMAIN path'.data
        BY <1>1, <2>2, <4>1
      <4> QED BY <2>1, <3>2, <4>1, <4>3, <4>4 DEF Behind
    <3> QED BY <2>4, <3>1, <3>2 DEF Behind
  <2> QED BY <2>3, <2>4
<1> QED BY <1>2, <1>3

\* While neither the file nor the recorded lines change, no order does.
LEMMA SameOrder ==
  ASSUME UNCHANGED path, \A l : Kept(l)' <=> Kept(l), Len(events') = Len(events)
  PROVE  /\ \A l : Newer(l)' <=> Newer(l)
         /\ \A l, c : Behind(l, c)' <=> Behind(l, c)
         /\ \A b : BatchInOrder(b) => BatchInOrder(b)'
         /\ \A o \in Observers :
              /\ pc'[o] = pc[o] /\ seen'[o] = seen[o] /\ batch'[o] = batch[o]
              /\ Current(o) => InOrder(o)
              /\ Current(o)'
              => InOrder(o)'
<1>1. \A l : Newer(l)' <=> Newer(l)
  BY DEF Newer
<1>2. \A l, c : Behind(l, c)' <=> Behind(l, c)
  BY <1>1 DEF Behind
<1>3. \A b : BatchInOrder(b) => BatchInOrder(b)'
  BY <1>2 DEF BatchInOrder
<1>4. ASSUME NEW o \in Observers, pc'[o] = pc[o], seen'[o] = seen[o], batch'[o] = batch[o],
             Current(o) => InOrder(o), Current(o)'
      PROVE  InOrder(o)'
  <2>1. PICK s, b : s = seen[o] /\ b = batch[o]
    OBVIOUS
  <2>2. InOrder(o)
    BY <1>4 DEF Current
  <2>3. /\ \A l \in 1..MaxLines : Kept(l) => Behind(l, s.cursor)
        /\ pc[o] = "read" /\ Notice(s.cursor, s) # "none" =>
             \A l \in 1..MaxLines : Kept(l) => Newer(l)
        /\ pc[o] = "append" => BatchInOrder(b)
    BY <2>1, <2>2 DEF InOrder
  <2>4. /\ \A l \in 1..MaxLines : Kept(l)' => Behind(l, s.cursor)'
        /\ pc'[o] = "read" /\ Notice(s.cursor, s) # "none" =>
             \A l \in 1..MaxLines : Kept(l)' => Newer(l)'
        /\ pc'[o] = "append" => BatchInOrder(b)'
    BY <1>1, <1>2, <1>3, <1>4, <2>3
  <2> QED BY <1>4, <2>1, <2>4 DEF InOrder
<1> QED BY <1>1, <1>2, <1>3, <1>4

\* At first there is no line.
LEMMA InitOrder == Init => OrderInv
<1> SUFFICES ASSUME Init PROVE OrderInv
  OBVIOUS
<1>1. DOMAIN path.data = {} /\ DOMAIN events = {}
  <2>1. path.data = << >> /\ events = << >>
    BY DEF Init
  <2> QED BY <2>1
<1>2. FileInOrder /\ LinesOnceInOrder /\ \A l : ~Kept(l)
  BY <1>1 DEF FileInOrder, LinesOnceInOrder, Kept
<1>3. \A o \in Observers : pc[o] = "off" /\ DOMAIN batch[o].found = {}
  <2>1. DOMAIN NoBatch.found = {}
    BY DEF NoBatch
  <2> QED BY <2>1 DEF Init
<1>4. \A o \in Observers : ~Current(o) /\ pc[o] # "read"
  BY <1>3 DEF Current
<1> QED BY <1>2, <1>3, <1>4 DEF OrderInv

\* Whoever writes or rotates the file keeps the order.
LEMMA FileStepOrder ==
  ASSUME FileTypes, OrderInv, FileSteps, Grows \/ Empties
  PROVE  OrderInv'
<1>1. /\ \A l : Kept(l)' <=> Kept(l)
      /\ LinesOnceInOrder'
      /\ UNCHANGED <<cursor, pc, seen, batch, replaced, overlapped>>
      /\ Len(events') = Len(events)
  BY DEF FileSteps, Stored, Kept, OrderInv, LinesOnceInOrder
<1>2. FileInOrder' /\ written <= written' /\ written \in Nat /\ written' \in Nat
  <2>1. written \in Nat /\ FileInOrder
    BY DEF FileTypes, OrderInv
  <2>2. written' \in Nat
    BY <2>1 DEF Grows, Empties
  <2> QED BY <2>1, <2>2, FileStaysInOrder
<1>3. \A l \in 1..MaxLines : Kept(l) => l \in Nat /\ l <= written
  BY ConstantTypes DEF OrderInv
<1>4. \A l \in 1..MaxLines : Kept(l)' => l <= written'
  BY <1>1, <1>2, <1>3
<1>5. \A l \in 1..MaxLines :
        Kept(l) => /\ Newer(l) => Newer(l)'
                   /\ \A c \in Rows : Behind(l, c) => Behind(l, c)'
  BY <1>3, BehindStays
<1>6. ASSUME NEW o \in Observers
      PROVE  /\ pc'[o] = "read" /\ seen'[o].generation = generation' /\ path'.inode # Missing =>
                  seen'[o].inode = path'.inode
             /\ \A i \in DOMAIN batch'[o].found :
                  IsLine(batch'[o].found[i]) => batch'[o].found[i].line <= written'
  <2>1. /\ seen[o].generation \in Nat /\ seen[o].generation <= generation /\ generation \in Nat
        /\ batch[o].found \in Seq(Founds)
    BY DEF FileTypes, Stats, Batches
  <2>2. \A i \in DOMAIN batch[o].found : batch[o].found[i].line \in Nat
    <3>1. \A i \in DOMAIN batch[o].found : batch[o].found[i] \in Founds
      BY <2>1
    <3> QED BY <3>1, ConstantTypes DEF Founds
  <2>3. pc'[o] = "read" /\ seen'[o].generation = generation' /\ path'.inode # Missing =>
          seen'[o].inode = path'.inode
    <3>1. CASE Grows
      BY <1>1, <3>1 DEF Grows, OrderInv
    <3>2. CASE Empties
      BY <1>1, <2>1, <3>2 DEF Empties
    <3> QED BY <3>1, <3>2
  <2>4. \A i \in DOMAIN batch[o].found :
          IsLine(batch[o].found[i]) => batch[o].found[i].line <= written
    BY DEF OrderInv
  <2> QED BY <1>1, <1>2, <2>2, <2>3, <2>4
<1>7. ASSUME ~replaced, ~overlapped
      PROVE  /\ \A l \in 1..MaxLines : Kept(l)' => Behind(l, cursor)'
             /\ \A o \in Observers : Current(o)' => InOrder(o)'
  <2>1. \A l \in 1..MaxLines : Kept(l)' => Behind(l, cursor)'
    <3>1. PICK c : c = cursor
      OBVIOUS
    <3>2. c \in Rows /\ \A l \in 1..MaxLines : Kept(l) => Behind(l, c)
      BY <1>7, <3>1 DEF FileTypes, OrderInv
    <3>3. \A l \in 1..MaxLines : Kept(l)' => Behind(l, c)'
      BY <1>1, <1>5, <3>2
    <3> QED BY <1>1, <3>1, <3>3
  <2>2. ASSUME NEW o \in Observers, Current(o)'
        PROVE  InOrder(o)'
    <3>1. PICK s, b : s = seen[o] /\ b = batch[o]
      OBVIOUS
    <3>2. /\ s \in Stats /\ s.cursor \in Rows
          /\ b \in Batches /\ b.cursor \in Rows /\ b.found \in Seq(Founds)
      BY <3>1 DEF FileTypes, Stats, Batches
    <3>3. InOrder(o)
      BY <1>1, <1>7, <2>2 DEF Current, OrderInv
    <3>4. \A l \in 1..MaxLines : Kept(l)' => Behind(l, s.cursor)'
      BY <1>1, <1>5, <3>1, <3>2, <3>3 DEF InOrder
    <3>5. pc[o] = "read" /\ Notice(s.cursor, s) # "none" =>
            \A l \in 1..MaxLines : Kept(l)' => Newer(l)'
      BY <1>1, <1>5, <3>1, <3>3 DEF InOrder
    <3>6. ASSUME pc[o] = "append" PROVE BatchInOrder(b)'
      <4>1. BatchInOrder(b)
        BY <3>1, <3>3, <3>6 DEF InOrder
      <4>2. ASSUME NEW i \in DOMAIN b.found, IsLine(b.found[i])
            PROVE  Behind(b.found[i].line, b.cursor)'
        <5>1. b.found[i] \in Founds
          BY <3>2, <4>2
        <5>2. b.found[i].line \in Nat /\ b.found[i].line <= written
          BY <3>1, <4>2, <5>1, ConstantTypes DEF Founds, OrderInv
        <5>3. Behind(b.found[i].line, b.cursor)
          BY <4>1, <4>2 DEF BatchInOrder
        <5> QED BY <3>2, <5>2, <5>3, BehindStays
      <4>3. \A l \in 1..MaxLines : Kept(l)' =>
              /\ Behind(l, b.cursor)'
              /\ \A i \in DOMAIN b.found : IsLine(b.found[i]) => l < b.found[i].line
        BY <1>1, <1>5, <3>2, <4>1 DEF BatchInOrder
      <4> QED BY <4>1, <4>2, <4>3 DEF BatchInOrder
    <3> QED BY <1>1, <3>1, <3>4, <3>5, <3>6 DEF InOrder
  <2> QED BY <2>1, <2>2
<1> QED BY <1>1, <1>2, <1>4, <1>6, <1>7 DEF OrderInv

\* What an event tells is that of a line of the file, or of no line.
LEMMA LinesRead ==
  ASSUME FileTypes, NEW o \in Observers, pc[o] = "read"
  PROVE  \A i \in DOMAIN ReadBatch(seen[o]).found : IsLine(ReadBatch(seen[o]).found[i]) =>
           \E p \in (StartOffset(seen[o]) + 1)..NextOffset(path.data, StartOffset(seen[o])) :
             /\ p \in 1..Len(path.data) /\ path.data[p].end
             /\ IsLineAt(StartOffset(seen[o]), ReadBatch(seen[o]).found[i], p)
             /\ ReadBatch(seen[o]).found[i].line = path.data[p].line
<1> DEFINE s == seen[o]
           f == ReadBatch(s).found
<1>1. s \in Stats /\ s.inode \in Inodes /\ path.data \in Seq(Writes) /\ generation \in Nat
  BY DEF FileTypes
<1>2. \A i \in DOMAIN f :
        \/ f[i] = [type |-> Notice(s.cursor, s), line |-> Fragment]
        \/ \E p : IsLineAt(StartOffset(s), f[i], p)
  BY <1>1, ReadBatchIs
<1> HIDE DEF s, f
<1>3. ASSUME NEW i \in DOMAIN f, IsLine(f[i])
      PROVE  \E p \in (StartOffset(s) + 1)..NextOffset(path.data, StartOffset(s)) :
               /\ p \in 1..Len(path.data) /\ path.data[p].end
               /\ IsLineAt(StartOffset(s), f[i], p)
               /\ f[i].line = path.data[p].line
  <2>1. f[i] # [type |-> Notice(s.cursor, s), line |-> Fragment]
    BY <1>3 DEF IsLine
  <2>2. PICK p : IsLineAt(StartOffset(s), f[i], p)
    BY <1>2, <1>3, <2>1
  <2>3. f[i].line = path.data[p].line
    BY <1>3, <2>2 DEF IsLineAt, LineEvent, IsLine
  <2> QED BY <2>2, <2>3 DEF IsLineAt
<1> QED BY <1>3 DEF s, f

\* What a current observer reads comes after what is recorded, in order.
LEMMA ReadInOrder ==
  ASSUME FileTypes, OrderInv, NEW o \in Observers, pc[o] = "read", path.inode # Missing,
         ~replaced, ~overlapped, seen[o].generation = generation, Current(o)
  PROVE  BatchInOrder(ReadBatch(seen[o]))
<1> DEFINE s == seen[o]
           b == ReadBatch(s)
           start == StartOffset(s)
           offset == NextOffset(path.data, start)
           n == Len(path.data)
           From(i, p) == IsLineAt(start, b.found[i], p)
<1>1. /\ s \in Stats /\ s.inode \in Inodes /\ path.data \in Seq(Writes) /\ generation \in Nat
      /\ s.cursor \in Rows
  BY DEF FileTypes, Stats
<1>2. /\ start \in Nat
      /\ offset \in Nat /\ start <= offset
      /\ offset # start => offset \in 1..n /\ path.data[offset].end
  BY <1>1, ReadBatchIs, NextOffsetIs
<1>3. \A i, j \in DOMAIN b.found :
        i < j /\ b.found[i].type = "log.line" => \E p, q : p < q /\ From(i, p) /\ From(j, q)
  BY <1>1, ReadBatchIs
<1>4. \A i \in DOMAIN b.found : IsLine(b.found[i]) =>
        \E p \in (start + 1)..offset :
          p \in 1..n /\ path.data[p].end /\ b.found[i].line = path.data[p].line
  BY LinesRead
<1>5. /\ n \in Nat /\ DOMAIN path.data = 1..n
      /\ \A p \in 1..n : path.data[p].line \in Nat
      /\ \A p, q \in 1..n : p < q => /\ path.data[p].line <= path.data[q].line
                                     /\ path.data[p].end => path.data[p].line < path.data[q].line
  BY DataIs DEF OrderInv, FileInOrder
<1>6. b.cursor.inode = s.inode /\ b.cursor.offset = offset /\ s.inode = path.inode
  BY DEF ReadBatch, OrderInv
<1>7. /\ \A i, p : From(i, p) => p \in 1..n /\ path.data[p].end
      /\ \A i, p : From(i, p) /\ IsLine(b.found[i]) => b.found[i].line = path.data[p].line
  BY DEF IsLineAt, LineEvent, IsLine
<1>8. start = IF Notice(s.cursor, s) = "none" THEN s.cursor.offset ELSE 0
  BY DEF StartOffset
<1>9. /\ \A l \in 1..MaxLines : Kept(l) => Behind(l, s.cursor)
      /\ Notice(s.cursor, s) # "none" => \A l \in 1..MaxLines : Kept(l) => Newer(l)
  BY DEF OrderInv, InOrder
<1> HIDE DEF s, b, start, offset, n, From
<1>10. ASSUME NEW i \in DOMAIN b.found, NEW j \in DOMAIN b.found, i < j,
              IsLine(b.found[i]), IsLine(b.found[j])
       PROVE  b.found[i].line < b.found[j].line
  <2>1. b.found[i].type = "log.line"
    BY <1>10 DEF IsLine
  <2>2. PICK p, q : p < q /\ From(i, p) /\ From(j, q)
    BY <1>3, <1>10, <2>1
  <2>3. /\ p \in 1..n /\ path.data[p].end /\ b.found[i].line = path.data[p].line
        /\ q \in 1..n /\ b.found[j].line = path.data[q].line
    BY <1>7, <1>10, <2>2
  <2> QED BY <1>5, <2>2, <2>3
<1>11. ASSUME NEW i \in DOMAIN b.found, IsLine(b.found[i])
       PROVE  Behind(b.found[i].line, b.cursor)
  <2>1. PICK p \in (start + 1)..offset :
          p \in 1..n /\ path.data[p].end /\ b.found[i].line = path.data[p].line
    BY <1>4, <1>11
  <2>2. offset # start /\ offset \in 1..n /\ path.data[offset].end
    BY <1>2, <2>1
  <2>3. path.data[p].line <= path.data[offset].line
    BY <1>2, <1>5, <2>1, <2>2
  <2>4. \A q \in (offset + 1)..n : path.data[p].line < path.data[q].line
    <3> SUFFICES ASSUME NEW q \in (offset + 1)..n PROVE path.data[p].line < path.data[q].line
      OBVIOUS
    <3>1. q \in 1..n /\ offset < q
      BY <1>2, <1>5
    <3>2. path.data[offset].line < path.data[q].line
      BY <1>5, <2>2, <3>1
    <3> QED BY <1>5, <2>1, <2>2, <2>3, <3>1, <3>2
  <2> QED BY <1>5, <1>6, <2>1, <2>2, <2>4 DEF Behind, n
<1>12. ASSUME NEW l \in 1..MaxLines, Kept(l)
       PROVE  /\ Behind(l, b.cursor)
              /\ \A i \in DOMAIN b.found : IsLine(b.found[i]) => l < b.found[i].line
  <2>1. CASE Newer(l)
    BY <1>4, <1>5, <2>1 DEF Behind, Newer
  <2>2. CASE ~Newer(l)
    <3>1. Notice(s.cursor, s) = "none" /\ start = s.cursor.offset
      BY <1>8, <1>9, <1>12, <2>2
    <3>2. /\ start \in 1..n /\ path.data[start].end
          /\ \A p \in (start + 1)..n : l < path.data[p].line
      BY <1>5, <1>9, <1>12, <2>2, <3>1 DEF Behind, n
    <3>3. offset \in 1..n /\ path.data[offset].end
      BY <1>2, <3>2
    <3>4. \A p \in (offset + 1)..n : l < path.data[p].line
      BY <1>2, <1>5, <3>2
    <3>5. Behind(l, b.cursor)
      BY <1>5, <1>6, <3>3, <3>4 DEF Behind, n
    <3>6. ASSUME NEW i \in DOMAIN b.found, IsLine(b.found[i])
          PROVE  l < b.found[i].line
      <4>1. PICK p \in (start + 1)..offset : p \in 1..n /\ b.found[i].line = path.data[p].line
        BY <1>4, <3>6
      <4>2. p \in (start + 1)..n
        BY <1>2, <1>5, <4>1
      <4> QED BY <3>2, <4>1, <4>2
    <3> QED BY <3>5, <3>6
  <2> QED BY <2>1, <2>2
<1> QED BY <1>10, <1>11, <1>12 DEF BatchInOrder, b, s

\* What a commit keeps is what was kept and what it has found.
LEMMA CommitKeeps ==
  ASSUME FileTypes, NEW o \in Observers, Appends(o)
  PROVE  /\ \A l : Kept(l)' <=>
                   \/ Kept(l)
                   \/ \E i \in DOMAIN batch[o].found :
                        IsLine(batch[o].found[i]) /\ batch[o].found[i].line = l
         /\ Len(batch[o].found) = 0 => \A l : Kept(l)' <=> Kept(l)
<1> DEFINE f == batch[o].found
           n == Len(events)
<1>1. /\ n \in Nat /\ DOMAIN events = 1..n
      /\ Len(f) \in Nat /\ DOMAIN f = 1..Len(f)
      /\ DOMAIN events' = 1..(n + Len(f))
      /\ \A i \in 1..n : events'[i] = events[i]
      /\ \A i \in 1..Len(f) : events'[n + i].type = f[i].type /\ events'[n + i].line = f[i].line
  BY NewEventsAre DEF Appends
<1> HIDE DEF f, n
<1>2. \A i \in 1..n : i \in DOMAIN events' /\ (IsLine(events'[i]) <=> IsLine(events[i]))
  BY <1>1
<1>3. \A i \in 1..Len(f) : n + i \in DOMAIN events' /\ (IsLine(events'[n + i]) <=> IsLine(f[i]))
  BY <1>1 DEF IsLine
<1>4. ASSUME NEW l, Kept(l) \/ \E i \in DOMAIN f : IsLine(f[i]) /\ f[i].line = l
      PROVE  Kept(l)'
  BY <1>1, <1>2, <1>3, <1>4 DEF Kept
<1>5. ASSUME NEW l, Kept(l)'
      PROVE  Kept(l) \/ \E i \in DOMAIN f : IsLine(f[i]) /\ f[i].line = l
  <2>1. PICK k \in 1..(n + Len(f)) : IsLine(events'[k]) /\ events'[k].line = l
    BY <1>1, <1>5 DEF Kept
  <2>2. CASE k \in 1..n
    BY <1>1, <1>2, <2>1, <2>2 DEF Kept
  <2>3. CASE k \notin 1..n
    <3>1. PICK i \in 1..Len(f) : k = n + i
      <4>1. k - n \in 1..Len(f) /\ k = n + (k - n)
        BY <1>1, <2>3
      <4> QED BY <4>1
    <3>2. IsLine(f[i]) /\ f[i].line = l
      BY <1>1, <1>3, <2>1, <3>1
    <3> QED BY <1>1, <3>2
  <2> QED BY <2>2, <2>3
<1>6. Len(f) = 0 => DOMAIN f = {}
  BY <1>1
<1> QED BY <1>4, <1>5, <1>6 DEF f

\* A commit on the cursor that was read keeps the lines in order.
LEMMA CommitInOrder ==
  ASSUME FileTypes, NumberInv, OrderInv, NEW o \in Observers, Appends(o),
         ~replaced, ~overlapped'
  PROVE  /\ LinesOnceInOrder'
         /\ \A l \in 1..MaxLines : Kept(l)' => Behind(l, cursor)'
         /\ \A q \in Observers : Current(q)' => InOrder(q)'
<1> DEFINE b == batch[o]
           f == b.found
           n == Len(events)
<1>1. /\ n \in Nat /\ DOMAIN events = 1..n
      /\ f \in Seq(Founds) /\ Len(f) \in Nat /\ DOMAIN f = 1..Len(f)
      /\ Len(events') = n + Len(f)
      /\ DOMAIN events' = 1..(n + Len(f))
      /\ \A i \in 1..n : events'[i] = events[i]
      /\ \A i \in 1..Len(f) : events'[n + i].type = f[i].type /\ events'[n + i].line = f[i].line
  BY NewEventsAre DEF Appends, Batches
<1>2. ~overlapped /\ cursor = seen[o].cursor /\ cursor' = b.cursor /\ UNCHANGED path
  BY DEF Appends, Alone
<1>3. /\ Current(o) /\ InOrder(o) /\ BatchInOrder(b)
      /\ \A i, j \in 1..n :
           i < j /\ IsLine(events[i]) /\ IsLine(events[j]) => events[i].line < events[j].line
  <2>1. cursor.sequence = n
    BY <1>2 DEF NumberInv, CursorTellsTheEvents, SequenceHasNoGaps
  <2>2. Current(o)
    BY <1>2, <2>1 DEF Current, Appends
  <2>3. InOrder(o)
    BY <1>2, <2>2 DEF OrderInv
  <2>4. BatchInOrder(b)
    BY <2>3 DEF InOrder, Appends
  <2>5. \A i, j \in 1..n :
          i < j /\ IsLine(events[i]) /\ IsLine(events[j]) => events[i].line < events[j].line
    BY <1>1, <1>2 DEF OrderInv, LinesOnceInOrder
  <2> QED BY <2>2, <2>3, <2>4, <2>5
<1>4. \A l : Kept(l)' <=> Kept(l) \/ \E i \in DOMAIN f : IsLine(f[i]) /\ f[i].line = l
  BY CommitKeeps
<1>5. \A i \in 1..Len(f) : /\ IsLine(events'[n + i]) <=> IsLine(f[i])
                           /\ IsLine(f[i]) => f[i].line \in 1..MaxLines
  <2>1. \A i \in 1..Len(f) : f[i] \in Founds
    BY <1>1
  <2>2. \A i \in 1..Len(f) : IsLine(f[i]) => f[i].line \in 1..MaxLines
    BY <2>1, ConstantTypes DEF IsLine, Founds, Fragment
  <2>3. \A i \in 1..Len(f) : IsLine(events'[n + i]) <=> IsLine(f[i])
    BY <1>1 DEF IsLine
  <2> QED BY <2>2, <2>3
<1>6. \A i \in 1..n : IsLine(events[i]) => Kept(events[i].line) /\ events[i].line \in 1..MaxLines
  <2>1. \A i \in 1..n : events[i] \in Events
    BY <1>1 DEF FileTypes
  <2> QED BY <1>1, <2>1, ConstantTypes DEF IsLine, Kept, Events, Fragment
<1>7. /\ \A i, j \in 1..Len(f) : i < j /\ IsLine(f[i]) /\ IsLine(f[j]) => f[i].line < f[j].line
      /\ \A i \in 1..Len(f) : IsLine(f[i]) => Behind(f[i].line, b.cursor)
      /\ \A l \in 1..MaxLines : Kept(l) =>
           /\ Behind(l, b.cursor)
           /\ \A i \in 1..Len(f) : IsLine(f[i]) => l < f[i].line
  BY <1>1, <1>3 DEF BatchInOrder
<1> HIDE DEF b, f, n
<1>8. \A i \in 1..(n + Len(f)) : i \in 1..n \/ \E k \in 1..Len(f) : i = n + k
  <2> SUFFICES ASSUME NEW i \in 1..(n + Len(f)), i \notin 1..n
               PROVE  \E k \in 1..Len(f) : i = n + k
    OBVIOUS
  <2>1. i - n \in 1..Len(f) /\ i = n + (i - n)
    BY <1>1
  <2> QED BY <2>1
<1>9. ASSUME NEW i \in 1..(n + Len(f)), NEW j \in 1..(n + Len(f)), i < j,
             IsLine(events'[i]), IsLine(events'[j])
      PROVE  events'[i].line < events'[j].line
  <2>1. CASE i \in 1..n /\ j \in 1..n
    BY <1>1, <1>3, <1>9, <2>1
  <2>2. ASSUME i \in 1..n, NEW k \in 1..Len(f), j = n + k
        PROVE  events'[i].line < events'[j].line
    <3>1. IsLine(f[k]) /\ events'[j].line = f[k].line
      BY <1>1, <1>5, <1>9, <2>2
    <3>2. events'[i] = events[i] /\ Kept(events[i].line) /\ events[i].line \in 1..MaxLines
      BY <1>1, <1>6, <1>9, <2>2
    <3> QED BY <1>7, <3>1, <3>2
  <2>3. ASSUME NEW h \in 1..Len(f), i = n + h, NEW k \in 1..Len(f), j = n + k
        PROVE  events'[i].line < events'[j].line
    <3>1. IsLine(f[h]) /\ events'[i].line = f[h].line /\ IsLine(f[k]) /\ events'[j].line = f[k].line
      BY <1>1, <1>5, <1>9, <2>3
    <3>2. h < k
      BY <1>1, <1>9, <2>3
    <3> QED BY <1>7, <3>1, <3>2
  <2>4. i \notin 1..n => j \notin 1..n
    BY <1>1, <1>9
  <2> QED BY <1>8, <2>1, <2>2, <2>3, <2>4
<1>10. LinesOnceInOrder'
  BY <1>1, <1>9 DEF LinesOnceInOrder
<1>11. \A l \in 1..MaxLines : Kept(l)' => Behind(l, cursor)'
  <2> SUFFICES ASSUME NEW l \in 1..MaxLines, Kept(l)' PROVE Behind(l, cursor)'
    OBVIOUS
  <2>1. Behind(l, b.cursor)
    BY <1>1, <1>4, <1>7
  <2> QED BY <1>2, <2>1 DEF Behind, Newer
<1>12. ASSUME NEW q \in Observers, Current(q)'
       PROVE  InOrder(q)'
  <2>1. pc'[o] \notin {"stat", "read", "append"}
    BY DEF Appends
  <2>2. q # o /\ pc'[q] = pc[q] /\ seen'[q] = seen[q] /\ batch'[q] = batch[q]
    BY <1>12, <2>1 DEF Appends, Alone, Current
  <2>3. /\ seen[q].cursor.sequence = n + Len(f)
        /\ seen[q].cursor.sequence <= n
    BY <1>1, <1>2, <1>12, <2>2 DEF Current, NumberInv, n
  <2>4. Len(f) = 0 /\ Len(events') = Len(events)
    <3>1. n + Len(f) <= n
      BY <2>3
    <3>2. Len(f) = 0
      BY <1>1, <3>1
    <3> QED BY <1>1, <3>2 DEF n
  <2>5. \A l : Kept(l)' <=> Kept(l)
    BY <2>4, CommitKeeps DEF f, b
  <2>6. Current(q) => InOrder(q)
    BY <1>2 DEF OrderInv
  <2> QED BY <1>2, <1>12, <2>2, <2>4, <2>5, <2>6, SameOrder
<1> QED BY <1>10, <1>11, <1>12

\* A commit keeps the order.
LEMMA CommitOrder ==
  ASSUME FileTypes, NumberInv, OrderInv, NEW o \in Observers, Appends(o)
  PROVE  OrderInv'
<1>1. UNCHANGED <<path, written, generation, replaced>>
      /\ \A q \in Observers \ {o} : pc'[q] = pc[q] /\ seen'[q] = seen[q] /\ batch'[q] = batch[q]
  BY DEF Appends, Alone
<1>2. FileInOrder'
  BY <1>1 DEF OrderInv, FileInOrder
<1>3. \A l \in 1..MaxLines : Kept(l)' => l <= written'
  BY <1>1, CommitKeeps DEF OrderInv
<1>4. ASSUME NEW q \in Observers
      PROVE  /\ pc'[q] = "read" /\ seen'[q].generation = generation' /\ path'.inode # Missing =>
                  seen'[q].inode = path'.inode
             /\ \A i \in DOMAIN batch'[q].found :
                  IsLine(batch'[q].found[i]) => batch'[q].found[i].line <= written'
  <2>1. CASE q = o
    <3>1. pc'[q] # "read" /\ batch'[q].found = << >>
      BY <2>1 DEF Appends, NoBatch
    <3> QED BY <3>1
  <2>2. CASE q # o
    BY <1>1, <2>2 DEF OrderInv
  <2> QED BY <2>1, <2>2
<1>5. overlapped' \/ replaced' => LinesOnceInOrder'
  BY DEF LinesOnceInOrder
<1>6. CASE ~overlapped' /\ ~replaced'
  BY <1>1, <1>2, <1>3, <1>4, <1>6, CommitInOrder DEF OrderInv
<1>7. CASE overlapped' \/ replaced'
  BY <1>2, <1>3, <1>4, <1>5, <1>7 DEF OrderInv
<1> QED BY <1>6, <1>7

\* An observer that does not commit keeps the order, if what it goes on with is
\* in order.
LEMMA AloneOrder ==
  ASSUME FileTypes, OrderInv, NEW o \in Observers, Alone(o), UNCHANGED <<Stored, overlapped>>,
         replaced => replaced',
         pc'[o] = "read" => seen'[o].inode = path.inode,
         \A i \in DOMAIN batch'[o].found :
           IsLine(batch'[o].found[i]) => batch'[o].found[i].line <= written,
         ~replaced' /\ ~overlapped' /\ Current(o)' => InOrder(o)'
  PROVE  OrderInv'
<1>1. /\ UNCHANGED <<path, written, generation, events, cursor, overlapped>>
      /\ ~replaced' => ~replaced
      /\ \A q \in Observers \ {o} : pc'[q] = pc[q] /\ seen'[q] = seen[q] /\ batch'[q] = batch[q]
  BY DEF Alone, Stored
<1>2. /\ \A l : Kept(l)' <=> Kept(l)
      /\ Len(events') = Len(events)
  BY <1>1 DEF Kept
<1>3. FileInOrder' /\ LinesOnceInOrder'
  BY <1>1 DEF OrderInv, FileInOrder, LinesOnceInOrder
<1>4. \A l \in 1..MaxLines : Kept(l)' => l <= written'
  BY <1>1, <1>2 DEF OrderInv
<1>5. ASSUME NEW q \in Observers
      PROVE  /\ pc'[q] = "read" /\ seen'[q].generation = generation' /\ path'.inode # Missing =>
                  seen'[q].inode = path'.inode
             /\ \A i \in DOMAIN batch'[q].found :
                  IsLine(batch'[q].found[i]) => batch'[q].found[i].line <= written'
  <2>1. CASE q = o
    BY <1>1, <2>1
  <2>2. CASE q # o
    BY <1>1, <2>2 DEF OrderInv
  <2> QED BY <2>1, <2>2
<1>6. ASSUME ~replaced', ~overlapped'
      PROVE  /\ \A l \in 1..MaxLines : Kept(l)' => Behind(l, cursor)'
             /\ \A q \in Observers : Current(q)' => InOrder(q)'
  <2>1. ~replaced /\ ~overlapped
    BY <1>1, <1>6
  <2>2. \A l \in 1..MaxLines : Kept(l)' => Behind(l, cursor)'
    <3>1. PICK c : c = cursor
      OBVIOUS
    <3>2. \A l \in 1..MaxLines : Kept(l) => Behind(l, c)
      BY <2>1, <3>1 DEF OrderInv
    <3>3. \A l \in 1..MaxLines : Kept(l)' => Behind(l, c)'
      BY <1>1, <1>2, <3>2, SameOrder
    <3> QED BY <1>1, <3>1, <3>3
  <2>3. ASSUME NEW q \in Observers, Current(q)'
        PROVE  InOrder(q)'
    <3>1. CASE q = o
      BY <1>6, <2>3, <3>1
    <3>2. CASE q # o
      <4>1. Current(q) => InOrder(q)
        BY <2>1 DEF OrderInv
      <4> QED BY <1>1, <1>2, <2>3, <3>2, <4>1, SameOrder
    <3> QED BY <3>1, <3>2
  <2> QED BY <2>2, <2>3
<1> QED BY <1>3, <1>4, <1>5, <1>6 DEF OrderInv

\* Each step keeps the order.
LEMMA StepOrder == FileTypes /\ NumberInv /\ OrderInv /\ [Next]_vars => OrderInv'
<1> SUFFICES ASSUME FileTypes, NumberInv, OrderInv, [Next]_vars PROVE OrderInv'
  OBVIOUS
<1>1. CASE FileSteps
  <2>1. CASE Grows \/ Empties
    BY <1>1, <2>1, FileStepOrder
  <2>2. CASE UNCHANGED <<path, written, generation>>
    BY <1>1, <2>2 DEF FileSteps, Stored, OrderInv, FileInOrder, LinesOnceInOrder, Kept, Newer,
                      Behind, Current, InOrder, BatchInOrder
  <2> QED BY <2>1, <2>2, FileStepsAre
<1>2. ASSUME UNCHANGED <<path, events>>
      PROVE  /\ \A l : Kept(l)' <=> Kept(l)
             /\ \A l : Newer(l)' <=> Newer(l)
             /\ \A l, c : Behind(l, c)' <=> Behind(l, c)
             /\ \A b : BatchInOrder(b) => BatchInOrder(b)'
  <2>1. /\ \A l : Kept(l)' <=> Kept(l)
        /\ Len(events') = Len(events)
    BY <1>2 DEF Kept
  <2> QED BY <1>2, <2>1, SameOrder
<1>3. \A o \in Observers : \A i \in DOMAIN batch[o].found :
        IsLine(batch[o].found[i]) => batch[o].found[i].line <= written
  BY DEF OrderInv
<1>4. \A o \in Observers :
        ~replaced /\ ~overlapped /\ Current(o) =>
          /\ \A l \in 1..MaxLines : Kept(l) => Behind(l, seen[o].cursor)
          /\ pc[o] = "append" => BatchInOrder(batch[o])
  BY DEF OrderInv, InOrder
<1>5. ASSUME NEW o \in Observers, Begins(o)
      PROVE  OrderInv'
  <2>1. Alone(o) /\ UNCHANGED <<Stored, replaced, overlapped>> /\ UNCHANGED <<path, events>>
        /\ pc'[o] = "stat" /\ batch'[o] = batch[o] /\ seen'[o].cursor = cursor
    BY <1>5 DEF Begins, Alone, Stored
  <2>2. ASSUME ~replaced, ~overlapped PROVE InOrder(o)'
    <3>1. PICK c : c = cursor
      OBVIOUS
    <3>2. \A l \in 1..MaxLines : Kept(l) => Behind(l, c)
      BY <2>2, <3>1 DEF OrderInv
    <3>3. \A l \in 1..MaxLines : Kept(l)' => Behind(l, c)'
      BY <1>2, <2>1, <3>2
    <3> QED BY <2>1, <3>1, <3>3 DEF InOrder
  <2> QED BY <1>3, <2>1, <2>2, AloneOrder
<1>6. ASSUME NEW o \in Observers, Misses(o)
      PROVE  OrderInv'
  <2>1. Alone(o) /\ UNCHANGED <<Stored, replaced, overlapped>> /\ UNCHANGED <<path, events>>
        /\ path.inode = Missing /\ pc[o] = "stat" /\ pc'[o] = "append"
        /\ seen'[o] = seen[o] /\ batch'[o] = MissingBatch(seen[o].cursor)
    BY <1>6 DEF Misses, Alone, Stored
  <2>2. PICK b, c : b = batch'[o] /\ c = seen[o].cursor
    OBVIOUS
  <2>3. \A i \in DOMAIN b.found : ~IsLine(b.found[i])
    <3>1. c \in Rows
      BY <2>2 DEF FileTypes, Stats
    <3>2. b.found =
            IF c.inode = Missing THEN << >> ELSE <<[type |-> "source.missing", line |-> Fragment]>>
      BY <2>1, <2>2, <3>1, MissingBatchIs
    <3> QED BY <3>2 DEF IsLine
  <2>4. ASSUME ~replaced, ~overlapped, Current(o)' PROVE InOrder(o)'
    <3>1. DOMAIN path'.data = {}
      <4>1. path'.data = << >>
        BY <2>1 DEF FileTypes
      <4> QED BY <4>1
    <3>2. \A l : Behind(l, c)' /\ Behind(l, b.cursor)'
      BY <3>1 DEF Behind, Newer
    <3>3. BatchInOrder(b)'
      BY <2>3, <3>2 DEF BatchInOrder
    <3> QED BY <2>1, <2>2, <3>2, <3>3 DEF InOrder
  <2>5. \A i \in DOMAIN batch'[o].found :
          IsLine(batch'[o].found[i]) => batch'[o].found[i].line <= written
    BY <2>2, <2>3
  <2> QED BY <2>1, <2>4, <2>5, AloneOrder
<1>7. ASSUME NEW o \in Observers, StatsIt(o)
      PROVE  OrderInv'
  <2>1. Alone(o) /\ UNCHANGED <<Stored, replaced, overlapped>> /\ UNCHANGED <<path, events>>
        /\ path.inode # Missing /\ pc[o] = "stat" /\ pc'[o] = "read" /\ batch'[o] = batch[o]
        /\ seen'[o].cursor = seen[o].cursor /\ seen'[o].inode = path.inode
        /\ seen'[o].size = Len(path.data)
    BY <1>7 DEF StatsIt, Alone, Stored
  <2>2. PICK s : s = seen'[o]
    OBVIOUS
  <2>3. ASSUME ~replaced, ~overlapped, Current(o)' PROVE InOrder(o)'
    <3>1. Current(o)
      BY <2>1, <2>3 DEF Current
    <3>2. \A l \in 1..MaxLines : Kept(l) => Behind(l, s.cursor)
      BY <1>4, <2>1, <2>2, <2>3, <3>1
    <3>3. ASSUME Notice(s.cursor, s) # "none", NEW l \in 1..MaxLines, Kept(l)
          PROVE  Newer(l)
      <4>1. ~(/\ s.cursor.inode = path.inode
              /\ s.cursor.offset \in 1..Len(path.data))
        <5> SUFFICES ASSUME s.cursor.inode = path.inode, s.cursor.offset \in 1..Len(path.data)
                     PROVE  FALSE
          OBVIOUS
        <5>1. s.inode = path.inode /\ s.inode # Missing /\ s.size = Len(path.data)
          BY <2>1, <2>2
        <5>2. ~(s.size < s.cursor.offset)
          BY <5>1, DataIs
        <5> QED BY <3>3, <5>1, <5>2, NoticeIs
      <4>2. Behind(l, s.cursor)
        BY <3>2, <3>3
      <4> QED BY <4>1, <4>2, DataIs DEF Behind
    <3>4. /\ \A l \in 1..MaxLines : Kept(l)' => Behind(l, s.cursor)'
          /\ Notice(s.cursor, s) # "none" => \A l \in 1..MaxLines : Kept(l)' => Newer(l)'
      BY <1>2, <2>1, <3>2, <3>3
    <3> QED BY <2>1, <2>2, <3>4 DEF InOrder
  <2> QED BY <1>3, <2>1, <2>3, AloneOrder
<1>8. ASSUME NEW o \in Observers, Reads(o)
      PROVE  OrderInv'
  <2>1. Alone(o) /\ UNCHANGED <<Stored, overlapped>> /\ UNCHANGED <<path, events>>
        /\ path.inode # Missing /\ pc[o] = "read" /\ pc'[o] = "append"
        /\ seen'[o] = seen[o] /\ batch'[o] = ReadBatch(seen[o])
        /\ replaced' = (replaced \/ seen[o].generation # generation)
    BY <1>8 DEF Reads, Alone, Stored
  <2>2. PICK b, c : b = batch'[o] /\ c = seen[o].cursor
    OBVIOUS
  <2>3. \A i \in DOMAIN batch'[o].found :
          IsLine(batch'[o].found[i]) => batch'[o].found[i].line <= written
    <3>1. \A i \in DOMAIN ReadBatch(seen[o]).found : IsLine(ReadBatch(seen[o]).found[i]) =>
            \E p \in 1..Len(path.data) : ReadBatch(seen[o]).found[i].line = path.data[p].line
      BY <2>1, LinesRead
    <3> QED BY <2>1, <3>1, DataIs
  <2>4. ASSUME ~replaced', ~overlapped', Current(o)' PROVE InOrder(o)'
    <3>1. Current(o) /\ ~replaced /\ ~overlapped /\ seen[o].generation = generation
      BY <2>1, <2>4 DEF Current
    <3>2. BatchInOrder(b)
      BY <2>1, <2>2, <3>1, ReadInOrder
    <3>3. \A l \in 1..MaxLines : Kept(l) => Behind(l, c)
      BY <1>4, <2>2, <3>1
    <3>4. BatchInOrder(b)' /\ \A l \in 1..MaxLines : Kept(l)' => Behind(l, c)'
      BY <1>2, <2>1, <3>2, <3>3
    <3> QED BY <2>1, <2>2, <3>4 DEF InOrder
  <2> QED BY <2>1, <2>3, <2>4, AloneOrder
<1>9. ASSUME NEW o \in Observers, Drops(o)
      PROVE  OrderInv'
  <2>1. Alone(o) /\ UNCHANGED <<Stored, replaced, overlapped>>
        /\ pc'[o] \in {"off", "idle"} /\ batch'[o].found = << >>
    BY <1>9 DEF Drops, NoBatch
  <2>2. ~Current(o)'
    BY <2>1 DEF Current
  <2>3. DOMAIN batch'[o].found = {}
    BY <2>1
  <2> QED BY <2>1, <2>2, <2>3, AloneOrder
<1>10. ASSUME NEW o \in Observers, Appends(o)
       PROVE  OrderInv'
  BY <1>10, CommitOrder
<1> QED BY <1>1, <1>5, <1>6, <1>7, <1>8, <1>9, <1>10, StepsAre

\* Each line is recorded at most once and in the order it was written, through
\* crashes, rotations and truncations: the cursor of append_observation is always
\* behind the lines it has recorded, unless two observations overlapped or the
\* file was replaced between the stat and the open of read_available.
THEOREM LinesKeepTheirOrder == Spec => []LinesOnceInOrder
<1>1. OrderInv => LinesOnceInOrder
  BY DEF OrderInv
<1> QED BY <1>1, InitTypes, StepTypes, InitNumbers, StepNumbers, InitOrder, StepOrder, PTL DEF Spec

=============================================================================
