------------------------ MODULE SystemObserverProofs ------------------------
(***************************************************************************)
(* Theorems about SystemObserver, for any identities, states, snapshots,   *)
(* intervals, limits and log lengths.  The invariant has a part about the  *)
(* row and the events, and one about the log and its cursor.               *)
(***************************************************************************)
EXTENDS SystemObserver, FiniteSetTheorems, WellFoundedInduction, TLAPS

LogLines == [at : Times, hash : Lines]
Cursors  == [at : 0..MaxTime, hashes : SUBSET Lines]

Rows == [known : BOOLEAN, available : BOOLEAN, error : Errors \cup {"none"},
         unit : Units \cup {"none"}, state : States \cup {"none"}, health : Healths,
         oom : BOOLEAN, high : SUBSET Resources, beat : 0..Heartbeat, cursor : Cursors]
Tellings == [state : {"never", "up"} \cup Errors, unit : Units \cup {"none"},
             phase : States \cup {"unknown"}, sure : BOOLEAN,
             health : Healths \cup {"unknown"}, oom : BOOLEAN, high : SUBSET Resources]

MachineInv == kind \in Kinds /\ unit \in Units /\ log \in Seq(LogLines)

\* The row and its events: a source that is not there has no snapshot, one that
\* is there had its last event when it last began to be silent, and the events of a
\* process say nothing of health or OOM kills.
RowInv ==
  /\ row \in Rows /\ told \in Tellings /\ quiet \in 0..Heartbeat
  /\ row.cursor # NoCursor => row.available /\ kind = "docker_logs"
  /\ ~row.known => ~row.available /\ row.error = "none"
  /\ ~row.available => row.high = {} /\ ~row.oom /\ row.state = "none"
  /\ row.available => row.beat = quiet
  /\ kind = "process" => told.health = "unknown" /\ ~row.oom
  /\ EventsTellTheRow

\* What the cursor says of the recorded lines: none is newer, those of its own
\* timestamp are among its hashes while they fit in, and of the lines before it only
\* late ones are missing.
Follows(c, recorded) ==
  /\ \A h \in recorded : \E p \in DOMAIN log : log[p].hash = h /\ log[p].at <= c.at
  /\ \A h \in c.hashes :
       h \in recorded /\ \E p \in DOMAIN log : log[p].hash = h /\ log[p].at = c.at
  /\ c.at > 0 => \E p \in DOMAIN log : log[p].at = c.at
  /\ ~Crowded =>
       \A p \in DOMAIN log :
         log[p].hash \in recorded /\ log[p].at = c.at => log[p].hash \in c.hashes
  /\ \A p, q \in DOMAIN log :
       q < p /\ log[q].hash \in recorded /\ log[p].at < c.at /\ ~LateAt(p)
         => log[p].hash \in recorded

LinesInv ==
  /\ kept \subseteq Lines
  /\ kind # "docker_logs" => kept = {}
  /\ \A p, q \in DOMAIN log : log[p].hash = log[q].hash => p = q
  /\ Same => Follows(row.cursor, kept)

SystemInv == MachineInv /\ RowInv /\ LinesInv

-----------------------------------------------------------------------------
(* Induction, and what the assumption says of the constants.               *)

\* A set with 0 and the successors of its members has every natural number:
\* induction over the set of the numbers that have a property.
LEMMA Induction ==
  ASSUME NEW N, 0 \in N, \A n \in Nat : n \in N => n + 1 \in N
  PROVE  \A n \in Nat : n \in N
<1> DEFINE Less == OpToRel(<, Nat)
           F == Nat \ N
<1>1. \A x, y \in Nat : x < y => <<x, y>> \in Less
  BY DEF OpToRel
<1>2. IsWellFoundedOn(Less, Nat)
  BY NatLessThanWellFounded
<1> SUFFICES ASSUME F # {} PROVE FALSE
  OBVIOUS
<1> HIDE DEF Less
<1>3. F \subseteq Nat
  OBVIOUS
<1>4. PICK m \in F : \A y \in F : <<y, m>> \notin Less
  <2> HIDE DEF F
  <2> QED BY <1>2, <1>3, WFMin
<1>5. m \in Nat /\ m - 1 \in Nat /\ m - 1 < m
  BY <1>4
<1>6. m - 1 \in N
  BY <1>1, <1>4, <1>5
<1>7. m - 1 + 1 = m
  BY <1>5
<1> QED BY <1>4, <1>5, <1>6, <1>7

\* The constants, one by one.
LEMMA ConstantTypes ==
  /\ "exited" \in States /\ "unknown" \notin States /\ "none" \notin States
  /\ "none" \in Healths /\ "unknown" \notin Healths
  /\ \A error \in Errors : error \notin {"never", "up", "none"}
  /\ "none" \notin Units
  /\ \A k \in Kinds : Snapshots[k] \subseteq SnapshotType
  /\ \A s \in Snapshots["process"] : DOMAIN s.load = {"cpu", "rss"} /\ ~s.oom
  /\ Heartbeat \in Nat /\ Heartbeat > 0 /\ Limit \in Nat /\ Limit > 0
  /\ Window \in Nat /\ Window > 0
  /\ OnAttach \in Nat /\ MaxTime \in Nat /\ MaxLines \in Nat
  BY SystemAssumption

-----------------------------------------------------------------------------
(* Reading a log.                                                          *)

\* What Reading does at each position.
NextRead(read, cursor, p) ==
  IF p = 0 THEN [at |-> cursor.at, hashes |-> cursor.hashes, lines |-> << >>]
  ELSE IF Answered(cursor, p) THEN Take(read[p - 1], log[p])
  ELSE read[p - 1]

\* Reading goes through the log one line at a time.
LEMMA ReadingIs ==
  ASSUME NEW cursor, Len(log) \in Nat
  PROVE  /\ Reading(cursor)[0] =
              [at |-> cursor.at, hashes |-> cursor.hashes, lines |-> << >>]
         /\ \A p \in 1..Len(log) :
              Reading(cursor)[p] =
                IF Answered(cursor, p) THEN Take(Reading(cursor)[p - 1], log[p])
                ELSE Reading(cursor)[p - 1]
<1> DEFINE Is(g, m) == g = [p \in 0..m |-> NextRead(g, cursor, p)]
           N == { m \in Nat : \E g : Is(g, m) }
<1>1. 0 \in N
  <2> DEFINE g == [p \in 0..0 |-> [at |-> cursor.at, hashes |-> cursor.hashes, lines |-> << >>]]
  <2>1. g = [p \in 0..0 |-> NextRead(g, cursor, p)]
    BY DEF NextRead
  <2> QED BY <2>1
<1>2. ASSUME NEW m \in Nat, m \in N
      PROVE  m + 1 \in N
  <2>1. PICK g : Is(g, m)
    BY <1>2
  <2> DEFINE h == [p \in 0..(m + 1) |-> IF p = m + 1 THEN NextRead(g, cursor, m + 1) ELSE g[p]]
  <2>2. ASSUME NEW p \in 0..(m + 1)
        PROVE  h[p] = NextRead(h, cursor, p)
    <3>1. \A k \in 0..m : h[k] = g[k]
      OBVIOUS
    <3>2. CASE p = 0
      BY <2>1, <3>1, <3>2 DEF NextRead
    <3>3. CASE p # 0
      <4>1. p - 1 \in 0..m /\ h[p - 1] = g[p - 1]
        BY <2>2, <3>1, <3>3
      <4>2. NextRead(h, cursor, p) = NextRead(g, cursor, p)
        BY <3>3, <4>1 DEF NextRead
      <4>3. CASE p = m + 1
        BY <4>2, <4>3
      <4>4. CASE p # m + 1
        <5>1. p \in 0..m
          BY <2>2, <4>4
        <5>2. g[p] = NextRead(g, cursor, p)
          BY <2>1, <5>1
        <5> QED BY <3>1, <4>2, <5>1, <5>2
      <4> QED BY <4>3, <4>4
    <3> QED BY <3>2, <3>3
  <2>3. h = [p \in 0..(m + 1) |-> h[p]]
    OBVIOUS
  <2> HIDE DEF h
  <2>4. h = [p \in 0..(m + 1) |-> NextRead(h, cursor, p)]
    BY <2>2, <2>3
  <2> QED BY <2>4
<1>3. \A m \in Nat : m \in N
  <2> HIDE DEF N
  <2> QED BY <1>1, <1>2, Induction
<1>4. \E g : Is(g, Len(log))
  BY <1>3
<1> DEFINE r == Reading(cursor)
<1>5. r = CHOOSE g : Is(g, Len(log))
  BY DEF Reading, NextRead
<1> HIDE DEF r
<1>6. r = [p \in 0..Len(log) |-> NextRead(r, cursor, p)]
  BY <1>4, <1>5
<1>7. \A p \in 0..Len(log) : r[p] = NextRead(r, cursor, p)
  BY <1>6
<1>8. r[0] = [at |-> cursor.at, hashes |-> cursor.hashes, lines |-> << >>]
  BY <1>7 DEF NextRead
<1>9. ASSUME NEW p \in 1..Len(log)
      PROVE  r[p] = IF Answered(cursor, p) THEN Take(r[p - 1], log[p]) ELSE r[p - 1]
  BY <1>7, <1>9 DEF NextRead
<1> QED BY <1>8, <1>9 DEF r

\* The lines of a batch.
Taken(batch) == { batch.lines[i] : i \in DOMAIN batch.lines }

Batches == [at : 0..MaxTime, hashes : SUBSET Lines, lines : Seq(Lines)]

\* Take passes a line over or takes it, and it takes what is newer than all before
\* or not known yet, while there is room.
LEMMA TakeIs ==
  ASSUME NEW b \in Batches, NEW l \in LogLines
  PROVE  LET n == Take(b, l)
         IN  /\ n \in Batches
             /\ \/ /\ n = b
                   /\ \/ Len(b.lines) >= Limit
                      \/ l.at < b.at
                      \/ l.at = b.at /\ l.hash \in b.hashes
                \/ /\ Len(b.lines) < Limit /\ l.at >= b.at
                   /\ l.at = b.at => l.hash \notin b.hashes
                   /\ n.at = l.at
                   /\ n.hashes = IF l.at > b.at THEN {l.hash} ELSE b.hashes \cup {l.hash}
                   /\ Len(n.lines) = Len(b.lines) + 1
                   /\ Taken(n) = Taken(b) \cup {l.hash}
<1>1. /\ b.at \in Nat /\ b.at \in 0..MaxTime /\ b.hashes \in SUBSET Lines /\ b.lines \in Seq(Lines)
      /\ Len(b.lines) \in Nat
  BY ConstantTypes DEF Batches
<1>2. l.at \in Nat /\ l.at \in 0..MaxTime /\ l.hash \in Lines
  BY ConstantTypes DEF LogLines, Times
<1> DEFINE passed == \/ Len(b.lines) >= Limit
                     \/ l.at < b.at
                     \/ l.at = b.at /\ l.hash \in b.hashes
           hs == IF l.at > b.at THEN {l.hash} ELSE b.hashes \cup {l.hash}
           ls == Append(b.lines, l.hash)
           n == Take(b, l)
<1>3. n = IF passed THEN b ELSE [at |-> l.at, hashes |-> hs, lines |-> ls]
  BY DEF Take
<1>4. hs \in SUBSET Lines
  BY <1>1, <1>2
<1>5. ls \in Seq(Lines) /\ Len(ls) = Len(b.lines) + 1
      /\ \A i \in 1..Len(b.lines) : ls[i] = b.lines[i]
      /\ ls[Len(b.lines) + 1] = l.hash
      /\ DOMAIN ls = 1..(Len(b.lines) + 1) /\ DOMAIN b.lines = 1..Len(b.lines)
  BY <1>1, <1>2
<1>6. { ls[i] : i \in DOMAIN ls } = { b.lines[i] : i \in DOMAIN b.lines } \cup {l.hash}
  <2> DEFINE bs == b.lines
             k == Len(b.lines)
  <2>1. /\ k \in Nat /\ DOMAIN ls = 1..(k + 1) /\ DOMAIN bs = 1..k /\ ls[k + 1] = l.hash
        /\ \A i \in 1..k : ls[i] = bs[i]
    BY <1>1, <1>5
  <2> HIDE DEF ls, bs, k
  <2>2. ASSUME NEW i \in 1..(k + 1)
        PROVE  ls[i] \in { bs[j] : j \in 1..k } \cup {l.hash}
    <3>1. i \in 1..k \/ i = k + 1
      BY <2>1, <2>2
    <3> QED BY <2>1, <3>1
  <2>3. ASSUME NEW i \in 1..k
        PROVE  bs[i] \in { ls[j] : j \in 1..(k + 1) }
    <3>1. i \in 1..(k + 1)
      BY <2>1, <2>3
    <3> QED BY <2>1, <3>1
  <2>4. l.hash \in { ls[j] : j \in 1..(k + 1) }
    <3>1. k + 1 \in 1..(k + 1)
      BY <2>1
    <3> QED BY <2>1, <3>1
  <2>5. { ls[i] : i \in 1..(k + 1) } = { bs[i] : i \in 1..k } \cup {l.hash}
    BY <2>2, <2>3, <2>4
  <2> QED BY <2>1, <2>5 DEF bs
<1>7. CASE passed
  BY <1>3, <1>7
<1>8. CASE ~passed
  <2> HIDE DEF hs, ls
  <2>1. n = [at |-> l.at, hashes |-> hs, lines |-> ls]
    BY <1>3, <1>8
  <2>2. n \in Batches
    BY <1>2, <1>4, <1>5, <2>1 DEF Batches
  <2>3. n.at = l.at /\ n.hashes = hs /\ n.lines = ls
    BY <2>1
  <2>4. Taken(n) = Taken(b) \cup {l.hash}
    BY <1>6, <2>3 DEF Taken
  <2>5. Len(b.lines) < Limit /\ l.at >= b.at /\ (l.at = b.at => l.hash \notin b.hashes)
    BY <1>1, <1>2, <1>8, ConstantTypes
  <2> HIDE DEF n
  <2> QED BY <1>5, <2>2, <2>3, <2>4, <2>5 DEF n, hs
<1> QED BY <1>7, <1>8

\* After p positions: where the batch stands, what it has taken, what it knows of
\* its last timestamp, and that it has left out late lines only.
ReadSoFar(c, recorded, p, b) ==
  /\ b \in Batches /\ c.at <= b.at
  /\ b.at > c.at => \E r \in 1..p : log[r].at = b.at
  /\ \A h \in Taken(b) :
       \E r \in 1..p : log[r].hash = h /\ Answered(c, r) /\ log[r].at <= b.at
  /\ ~Crowded => Taken(b) \cap recorded = {}
  /\ \A h \in b.hashes :
       /\ h \in Taken(b) \cup c.hashes
       /\ \E r \in DOMAIN log : log[r].hash = h /\ log[r].at = b.at
  /\ \A r \in DOMAIN log :
       log[r].hash \in Taken(b) /\ log[r].at = b.at => log[r].hash \in b.hashes
  /\ b.at = c.at => c.hashes \subseteq b.hashes
  /\ Len(b.lines) < Limit =>
       \A r \in 1..p : Answered(c, r) /\ ~LateAt(r) => log[r].hash \in Taken(b) \cup recorded
  /\ \A r \in 1..p :
       Answered(c, r) /\ ~LateAt(r) /\ log[r].at < b.at => log[r].hash \in Taken(b) \cup recorded

\* What the invariant says of a line.
LEMMA LogIs ==
  ASSUME MachineInv
  PROVE  /\ Len(log) \in Nat /\ DOMAIN log = 1..Len(log)
         /\ \A p \in 1..Len(log) :
              log[p] \in LogLines /\ log[p].at \in Nat /\ log[p].at > 0
              /\ log[p].at <= MaxTime /\ log[p].hash \in Lines
<1>1. log \in Seq(LogLines)
  BY DEF MachineInv
<1>2. Len(log) \in Nat /\ DOMAIN log = 1..Len(log) /\ \A p \in 1..Len(log) : log[p] \in LogLines
  BY <1>1
<1>3. \A l \in LogLines : l.at \in 1..MaxTime /\ l.hash \in Lines
  BY DEF LogLines, Times
<1> QED BY <1>2, <1>3, ConstantTypes

\* Nothing is answered that is older than the cursor.
LEMMA AnsweredIs ==
  ASSUME MachineInv, NEW c \in Cursors, NEW p \in 1..Len(log), Answered(c, p)
  PROVE  log[p].at >= c.at
  BY LogIs DEF Answered

\* A line after which the batch stands at a newer one is late.
LEMMA BehindIsLate ==
  ASSUME MachineInv, NEW c \in Cursors, NEW K, NEW p \in 0..Len(log), NEW b,
         ReadSoFar(c, K, p, b), NEW r \in (p + 1)..Len(log), Answered(c, r), log[r].at < b.at
  PROVE  LateAt(r)
<1>1. Len(log) \in Nat /\ p \in Nat /\ r \in 1..Len(log) /\ c.at \in Nat /\ b.at \in Nat
  BY LogIs, ConstantTypes DEF Cursors, ReadSoFar, Batches
<1>2. log[r].at >= c.at /\ log[r].at \in Nat
  BY <1>1, AnsweredIs, LogIs
<1>3. PICK q \in 1..p : log[q].at = b.at
  BY <1>1, <1>2 DEF ReadSoFar
<1>4. q \in 1..(r - 1)
  BY <1>1
<1> QED BY <1>3, <1>4 DEF LateAt

\* Before the first line.
LEMMA ReadingStarts ==
  ASSUME MachineInv, NEW c \in Cursors, NEW K \in SUBSET Lines, Follows(c, K)
  PROVE  ReadSoFar(c, K, 0, [at |-> c.at, hashes |-> c.hashes, lines |-> << >>])
<1> DEFINE b == [at |-> c.at, hashes |-> c.hashes, lines |-> << >>]
<1>1. b.at = c.at /\ b.hashes = c.hashes /\ b.lines = << >>
  OBVIOUS
<1>2. b \in Batches
  BY DEF Cursors, Batches
<1>3. Taken(b) = {}
  BY <1>1 DEF Taken
<1>4. c.at \in Nat
  BY ConstantTypes DEF Cursors
<1>5. \A h \in c.hashes : \E r \in DOMAIN log : log[r].hash = h /\ log[r].at = c.at
  BY DEF Follows
<1> HIDE DEF b
<1>6. 1..0 = {}
  OBVIOUS
<1>7. ReadSoFar(c, K, 0, b)
  BY <1>1, <1>2, <1>3, <1>4, <1>5, <1>6 DEF ReadSoFar
<1> QED BY <1>7 DEF b

\* One line more.
LEMMA ReadingGoesOn ==
  ASSUME MachineInv, \A p, q \in DOMAIN log : log[p].hash = log[q].hash => p = q,
         NEW c \in Cursors, NEW K \in SUBSET Lines, Follows(c, K),
         NEW p \in Nat, p < Len(log), NEW b, ReadSoFar(c, K, p, b), NEW n,
         n = IF Answered(c, p + 1) THEN Take(b, log[p + 1]) ELSE b
  PROVE  ReadSoFar(c, K, p + 1, n)
<1>1. /\ Len(log) \in Nat /\ DOMAIN log = 1..Len(log) /\ p + 1 \in 1..Len(log)
      /\ \A r \in 1..(p + 1) : r \in 1..p \/ r = p + 1
      /\ \A r \in 1..p : r \in 1..(p + 1) /\ r \in 1..Len(log)
      /\ p \in 0..Len(log) /\ p + 1 \in (p + 1)..Len(log)
  BY LogIs
<1>2. PICK l : l = log[p + 1]
  OBVIOUS
<1>3. l \in LogLines /\ l.at \in Nat /\ l.hash \in Lines
  BY <1>1, <1>2, LogIs
<1>4. b \in Batches /\ b.at \in Nat /\ c.at \in Nat
  BY ConstantTypes DEF Batches, Cursors, ReadSoFar
<1>5. /\ c.at <= b.at
      /\ b.at > c.at => \E r \in 1..p : log[r].at = b.at
      /\ \A h \in Taken(b) :
           \E r \in 1..p : log[r].hash = h /\ Answered(c, r) /\ log[r].at <= b.at
      /\ ~Crowded => Taken(b) \cap K = {}
      /\ \A h \in b.hashes :
           /\ h \in Taken(b) \cup c.hashes
           /\ \E r \in DOMAIN log : log[r].hash = h /\ log[r].at = b.at
      /\ \A r \in DOMAIN log :
           log[r].hash \in Taken(b) /\ log[r].at = b.at => log[r].hash \in b.hashes
      /\ b.at = c.at => c.hashes \subseteq b.hashes
      /\ Len(b.lines) < Limit =>
           \A r \in 1..p : Answered(c, r) /\ ~LateAt(r) => log[r].hash \in Taken(b) \cup K
      /\ \A r \in 1..p :
           Answered(c, r) /\ ~LateAt(r) /\ log[r].at < b.at => log[r].hash \in Taken(b) \cup K
  BY DEF ReadSoFar
<1>6. Answered(c, p + 1) /\ l.at < b.at => LateAt(p + 1)
  BY <1>1, <1>2, BehindIsLate
<1>7. c.hashes \subseteq K
  BY DEF Follows
<1>8. Len(b.lines) \in Nat
  BY <1>4 DEF Batches
<1>9. CASE /\ n = b
           /\ \/ ~Answered(c, p + 1)
              \/ Len(b.lines) >= Limit
              \/ l.at < b.at
              \/ l.at = b.at /\ l.hash \in b.hashes
  <2>1. ASSUME NEW r \in 1..(p + 1), Answered(c, r), ~LateAt(r), Len(b.lines) < Limit
        PROVE  log[r].hash \in Taken(b) \cup K
    <3>1. CASE r \in 1..p
      BY <1>5, <2>1, <3>1
    <3>2. CASE r = p + 1
      <4>1. l.hash \in b.hashes
        BY <1>6, <1>8, <1>9, <2>1, <3>2, ConstantTypes
      <4> QED BY <1>2, <1>5, <1>7, <3>2, <4>1
    <3> QED BY <1>1, <2>1, <3>1, <3>2
  <2>2. ASSUME NEW r \in 1..(p + 1), Answered(c, r), ~LateAt(r), log[r].at < b.at
        PROVE  log[r].hash \in Taken(b) \cup K
    <3>1. r \in 1..p
      BY <1>1, <1>2, <1>6, <2>2
    <3> QED BY <1>5, <2>2, <3>1
  <2>3. b.at > c.at => \E r \in 1..(p + 1) : log[r].at = b.at
    BY <1>1, <1>5
  <2>4. \A h \in Taken(b) :
          \E r \in 1..(p + 1) : log[r].hash = h /\ Answered(c, r) /\ log[r].at <= b.at
    BY <1>1, <1>5
  <2>5. ReadSoFar(c, K, p + 1, b)
    BY <1>4, <1>5, <2>1, <2>2, <2>3, <2>4 DEF ReadSoFar
  <2> QED BY <1>9, <2>5
<1>10. CASE /\ Answered(c, p + 1) /\ Len(b.lines) < Limit /\ l.at >= b.at
            /\ l.at = b.at => l.hash \notin b.hashes
            /\ n \in Batches /\ n.at = l.at
            /\ n.hashes = IF l.at > b.at THEN {l.hash} ELSE b.hashes \cup {l.hash}
            /\ Len(n.lines) = Len(b.lines) + 1
            /\ Taken(n) = Taken(b) \cup {l.hash}
  <2>1. c.at <= n.at
    BY <1>3, <1>4, <1>5, <1>10
  <2>2. \E r \in 1..(p + 1) : log[r].at = n.at
    BY <1>1, <1>2, <1>10
  <2>3. ASSUME NEW h \in Taken(n)
        PROVE  \E r \in 1..(p + 1) : log[r].hash = h /\ Answered(c, r) /\ log[r].at <= n.at
    <3>1. CASE h \in Taken(b)
      <4>1. PICK r \in 1..p : log[r].hash = h /\ Answered(c, r) /\ log[r].at <= b.at
        BY <1>5, <3>1
      <4>2. log[r].at \in Nat /\ r \in 1..(p + 1)
        BY <1>1, LogIs
      <4>3. log[r].at <= n.at
        BY <1>3, <1>4, <1>10, <4>1, <4>2
      <4> QED BY <4>1, <4>2, <4>3
    <3>2. CASE h = l.hash
      BY <1>1, <1>2, <1>3, <1>10, <3>2
    <3> QED BY <1>10, <2>3, <3>1, <3>2
  <2>4. ASSUME ~Crowded, l.hash \in K
        PROVE  FALSE
    <3>1. PICK r \in DOMAIN log : log[r].hash = l.hash /\ log[r].at <= c.at
      BY <2>4 DEF Follows
    <3>2. r = p + 1
      BY <1>1, <1>2, <3>1
    <3>3. l.at = b.at /\ b.at = c.at
      BY <1>2, <1>3, <1>4, <1>5, <1>10, <3>1, <3>2
    <3>4. l.hash \in c.hashes
      BY <1>1, <1>2, <2>4, <3>3 DEF Follows
    <3> QED BY <1>5, <1>10, <3>3, <3>4
  <2>5. ~Crowded => Taken(n) \cap K = {}
    BY <1>5, <1>10, <2>4
  <2>6. ASSUME NEW h \in n.hashes
        PROVE  /\ h \in Taken(n) \cup c.hashes
               /\ \E r \in DOMAIN log : log[r].hash = h /\ log[r].at = n.at
    <3>1. CASE h = l.hash
      BY <1>1, <1>2, <1>10, <3>1
    <3>2. CASE h # l.hash
      <4>1. h \in b.hashes /\ l.at = b.at
        BY <1>3, <1>4, <1>10, <2>6, <3>2
      <4> QED BY <1>5, <1>10, <4>1
    <3> QED BY <3>1, <3>2
  <2>7. ASSUME NEW r \in DOMAIN log, log[r].hash \in Taken(n), log[r].at = n.at
        PROVE  log[r].hash \in n.hashes
    <3>1. CASE log[r].hash = l.hash
      BY <1>10, <3>1
    <3>2. CASE log[r].hash # l.hash
      <4>1. log[r].hash \in Taken(b)
        BY <1>10, <2>7, <3>2
      <4>2. PICK q \in 1..p : log[q].hash = log[r].hash /\ log[q].at <= b.at
        BY <1>5, <4>1
      <4>3. q = r
        BY <1>1, <4>2
      <4>4. l.at = b.at /\ log[r].at = b.at
        BY <1>3, <1>4, <1>10, <2>7, <4>2, <4>3
      <4>5. log[r].hash \in b.hashes /\ n.hashes = b.hashes \cup {l.hash}
        BY <1>3, <1>5, <1>10, <2>7, <4>1, <4>4
      <4> QED BY <4>5
    <3> QED BY <3>1, <3>2
  <2>8. n.at = c.at => c.hashes \subseteq n.hashes
    BY <1>3, <1>4, <1>5, <1>10
  <2>9. ASSUME NEW r \in 1..(p + 1), Answered(c, r), ~LateAt(r)
        PROVE  log[r].hash \in Taken(n) \cup K
    <3>1. CASE r \in 1..p
      BY <1>5, <1>10, <2>9, <3>1
    <3>2. CASE r = p + 1
      BY <1>2, <1>10, <3>2
    <3> QED BY <1>1, <2>9, <3>1, <3>2
  <2> QED BY <1>10, <2>1, <2>2, <2>3, <2>5, <2>6, <2>7, <2>8, <2>9 DEF ReadSoFar
<1>11. CASE Answered(c, p + 1)
  <2>1. n = Take(b, l)
    BY <1>2, <1>11
  <2> DEFINE t == Take(b, l)
  <2>2. /\ t \in Batches
        /\ \/ /\ t = b
              /\ \/ Len(b.lines) >= Limit
                 \/ l.at < b.at
                 \/ l.at = b.at /\ l.hash \in b.hashes
           \/ /\ Len(b.lines) < Limit /\ l.at >= b.at
              /\ l.at = b.at => l.hash \notin b.hashes
              /\ t.at = l.at
              /\ t.hashes = IF l.at > b.at THEN {l.hash} ELSE b.hashes \cup {l.hash}
              /\ Len(t.lines) = Len(b.lines) + 1
              /\ Taken(t) = Taken(b) \cup {l.hash}
    BY <1>3, <1>4, TakeIs
  <2> HIDE DEF t
  <2>3. n = t
    BY <2>1 DEF t
  <2> QED BY <1>9, <1>10, <1>11, <2>2, <2>3
<1>12. CASE ~Answered(c, p + 1)
  BY <1>9, <1>12
<1> QED BY <1>11, <1>12

\* The whole log.
LEMMA ReadingKeeps ==
  ASSUME MachineInv, \A p, q \in DOMAIN log : log[p].hash = log[q].hash => p = q,
         NEW c \in Cursors, NEW K \in SUBSET Lines, Follows(c, K)
  PROVE  ReadSoFar(c, K, Len(log), Batch(c))
<1> DEFINE read == Reading(c)
           N == { p \in Nat : p <= Len(log) => ReadSoFar(c, K, p, read[p]) }
<1>1. Len(log) \in Nat
  BY LogIs
<1>2. /\ read[0] = [at |-> c.at, hashes |-> c.hashes, lines |-> << >>]
      /\ \A p \in 1..Len(log) :
           read[p] = IF Answered(c, p) THEN Take(read[p - 1], log[p]) ELSE read[p - 1]
  BY <1>1, ReadingIs
<1> HIDE DEF read
<1>3. 0 \in N
  BY <1>2, ReadingStarts
<1>4. ASSUME NEW p \in Nat, p \in N PROVE p + 1 \in N
  <2> SUFFICES ASSUME p + 1 <= Len(log) PROVE ReadSoFar(c, K, p + 1, read[p + 1])
    OBVIOUS
  <2>1. p < Len(log) /\ p + 1 \in 1..Len(log) /\ (p + 1) - 1 = p
    BY <1>1
  <2>2. ReadSoFar(c, K, p, read[p])
    BY <1>1, <1>4, <2>1
  <2>3. read[p + 1] = IF Answered(c, p + 1) THEN Take(read[p], log[p + 1]) ELSE read[p]
    BY <1>2, <2>1
  <2> QED BY <2>1, <2>2, <2>3, ReadingGoesOn
<1>5. \A p \in Nat : p \in N
  <2> HIDE DEF N
  <2> QED BY <1>3, <1>4, Induction
<1>6. ReadSoFar(c, K, Len(log), read[Len(log)])
  BY <1>1, <1>5
<1> QED BY <1>6 DEF Batch, read

\* A cursor that has room for all hashes keeps them.
LEMMA AllHashesKept ==
  ASSUME NEW hs, IsFiniteSet(hs), Cardinality(hs) <= Window, hs \subseteq Nat
  PROVE  LastHashes(hs) = hs
<1>1. ASSUME NEW h \in hs PROVE Cardinality({ g \in hs : g > h }) < Window
  <2> DEFINE G == { g \in hs : g > h }
  <2>1. G \subseteq hs /\ h \notin G
    OBVIOUS
  <2> HIDE DEF G
  <2>2. IsFiniteSet(G) /\ Cardinality(G) <= Cardinality(hs) /\ G # hs
        /\ (Cardinality(hs) = Cardinality(G) => hs = G)
    BY <2>1, FS_Subset
  <2>3. Cardinality(G) \in Nat /\ Cardinality(hs) \in Nat
    BY <2>2, FS_CardinalityType
  <2>4. Cardinality(G) < Window
    BY <2>2, <2>3, ConstantTypes
  <2> QED BY <2>4 DEF G
<1> QED BY <1>1 DEF LastHashes

\* The hashes of one timestamp fit into a cursor while no timestamp is crowded.
LEMMA HashesFit ==
  ASSUME MachineInv, ~Crowded, NEW t \in Times, NEW hs,
         \A h \in hs : \E r \in DOMAIN log : log[r].hash = h /\ log[r].at = t
  PROVE  IsFiniteSet(hs) /\ Cardinality(hs) <= Window
<1> DEFINE P == { p \in DOMAIN log : log[p].at = t }
           I == { log[p].hash : p \in P }
<1>1. IsFiniteSet(P)
  <2>1. IsFiniteSet(1..Len(log))
    BY LogIs, FS_Interval
  <2> QED BY <2>1, LogIs, FS_Subset
<1>2. Cardinality(P) <= Window
  <2>1. ~(Cardinality(P) > Window)
    BY DEF Crowded
  <2>2. Cardinality(P) \in Nat
    BY <1>1, FS_CardinalityType
  <2> QED BY <2>1, <2>2, ConstantTypes
<1>3. IsFiniteSet(I) /\ Cardinality(I) <= Cardinality(P)
  <2> DEFINE f == [p \in P |-> log[p].hash]
  <2>1. f \in Surjection(P, I)
    BY DEF Surjection
  <2> HIDE DEF f, P
  <2>2. IsFiniteSet(I) /\ Cardinality(I) <= Cardinality(P)
    BY <1>1, <2>1, FS_Surjection
  <2> QED BY <2>2
<1>4. hs \subseteq I
  OBVIOUS
<1>5. IsFiniteSet(hs) /\ Cardinality(hs) <= Cardinality(I)
  <2> HIDE DEF I
  <2> QED BY <1>3, <1>4, FS_Subset
<1>6. Cardinality(hs) \in Nat /\ Cardinality(I) \in Nat /\ Cardinality(P) \in Nat
  BY <1>1, <1>3, <1>5, FS_CardinalityType
<1> HIDE DEF I, P
<1> QED BY <1>2, <1>3, <1>5, <1>6, ConstantTypes

\* The batch has lines that were not recorded, and its cursor says of all recorded
\* lines what the one before said.
LEMMA BatchFollows ==
  ASSUME MachineInv, \A p, q \in DOMAIN log : log[p].hash = log[q].hash => p = q,
         NEW c \in Cursors, NEW K \in SUBSET Lines, Follows(c, K)
  PROVE  LET b == Batch(c)
             d == [at |-> b.at, hashes |-> LastHashes(b.hashes)]
         IN  /\ d \in Cursors /\ Taken(b) \in SUBSET Lines
             /\ ~Crowded => Taken(b) \cap K = {}
             /\ Follows(d, K \cup Taken(b))
<1> DEFINE b == Batch(c)
           N == Len(log)
           L == LastHashes(b.hashes)
           d == [at |-> b.at, hashes |-> L]
           T == Taken(b)
           R == K \cup T
<1>1. ReadSoFar(c, K, N, b)
  BY ReadingKeeps
<1>2. N \in Nat /\ DOMAIN log = 1..N
      /\ \A p \in 1..N : log[p].at \in Nat /\ log[p].at > 0 /\ log[p].at <= MaxTime
                         /\ log[p].hash \in Lines
  BY LogIs
<1> HIDE DEF b, N
<1>3. /\ b \in Batches /\ b.at \in 0..MaxTime /\ b.at \in Nat /\ c.at \in Nat /\ c.at <= b.at
      /\ b.hashes \in SUBSET Lines
  BY <1>1, ConstantTypes DEF ReadSoFar, Batches, Cursors
<1>4. L \subseteq b.hashes
  BY DEF LastHashes
<1>5. d.at = b.at /\ d.hashes = L
  OBVIOUS
<1>6. d \in Cursors
  BY <1>3, <1>4 DEF Cursors
<1>7. /\ b.at > c.at => \E r \in 1..N : log[r].at = b.at
      /\ \A h \in T : \E r \in 1..N : log[r].hash = h /\ Answered(c, r) /\ log[r].at <= b.at
      /\ ~Crowded => T \cap K = {}
      /\ \A h \in b.hashes :
           /\ h \in T \cup c.hashes
           /\ \E r \in DOMAIN log : log[r].hash = h /\ log[r].at = b.at
      /\ \A r \in DOMAIN log : log[r].hash \in T /\ log[r].at = b.at => log[r].hash \in b.hashes
      /\ b.at = c.at => c.hashes \subseteq b.hashes
      /\ \A r \in 1..N : Answered(c, r) /\ ~LateAt(r) /\ log[r].at < b.at => log[r].hash \in R
  BY <1>1 DEF ReadSoFar
<1>8. /\ \A h \in K : \E p \in DOMAIN log : log[p].hash = h /\ log[p].at <= c.at
      /\ \A h \in c.hashes : h \in K /\ \E p \in DOMAIN log : log[p].hash = h /\ log[p].at = c.at
      /\ c.at > 0 => \E p \in DOMAIN log : log[p].at = c.at
      /\ ~Crowded =>
           \A p \in DOMAIN log :
             log[p].hash \in K /\ log[p].at = c.at => log[p].hash \in c.hashes
      /\ \A p, q \in DOMAIN log :
           q < p /\ log[q].hash \in K /\ log[p].at < c.at /\ ~LateAt(p) => log[p].hash \in K
  BY DEF Follows
<1>9. T \in SUBSET Lines
  <2>1. \A h \in T : h \in Lines
    BY <1>2, <1>7
  <2> QED BY <2>1
<1> HIDE DEF d, L, T
<1>10. ASSUME NEW h \in R
       PROVE  \E p \in DOMAIN log : log[p].hash = h /\ log[p].at <= d.at
  <2>1. CASE h \in T
    BY <1>2, <1>5, <1>7, <2>1
  <2>2. CASE h \in K
    <3>1. PICK p \in DOMAIN log : log[p].hash = h /\ log[p].at <= c.at
      BY <1>8, <2>2
    <3>2. log[p].at <= b.at
      BY <1>2, <1>3, <3>1
    <3> QED BY <1>5, <3>1, <3>2
  <2> QED BY <1>10, <2>1, <2>2
<1>11. ASSUME NEW h \in d.hashes
       PROVE  h \in R /\ \E p \in DOMAIN log : log[p].hash = h /\ log[p].at = d.at
  BY <1>4, <1>5, <1>7, <1>8, <1>11
<1>12. d.at > 0 => \E p \in DOMAIN log : log[p].at = d.at
  <2>1. CASE b.at > c.at
    BY <1>2, <1>5, <1>7, <2>1
  <2>2. CASE b.at = c.at
    BY <1>5, <1>8, <2>2
  <2> QED BY <1>3, <2>1, <2>2
<1>13. ASSUME ~Crowded, NEW p \in DOMAIN log, log[p].hash \in R, log[p].at = d.at
       PROVE  log[p].hash \in d.hashes
  <2>1. log[p].hash \in b.hashes
    <3>1. CASE log[p].hash \in T
      BY <1>5, <1>7, <1>13, <3>1
    <3>2. CASE log[p].hash \in K
      <4>1. PICK q \in DOMAIN log : log[q].hash = log[p].hash /\ log[q].at <= c.at
        BY <1>8, <3>2
      <4>2. q = p
        BY <4>1
      <4>3. b.at = c.at
        BY <1>2, <1>3, <1>5, <1>13, <4>1, <4>2
      <4> QED BY <1>5, <1>7, <1>8, <1>13, <3>2, <4>3
    <3> QED BY <1>13, <3>1, <3>2
  <2>2. b.at \in Times
    BY <1>2, <1>3, <1>5, <1>13 DEF Times
  <2>3. IsFiniteSet(b.hashes) /\ Cardinality(b.hashes) <= Window
    BY <1>7, <1>13, <2>2, HashesFit
  <2>4. b.hashes \subseteq Nat
    BY <1>3, ConstantTypes DEF Lines
  <2>5. L = b.hashes
    BY <2>3, <2>4, AllHashesKept DEF L
  <2> QED BY <1>5, <2>1, <2>5
<1>14. ASSUME NEW p \in DOMAIN log, NEW q \in DOMAIN log,
              q < p, log[q].hash \in R, log[p].at < d.at, ~LateAt(p)
       PROVE  log[p].hash \in R
  <2>1. CASE Answered(c, p)
    BY <1>2, <1>5, <1>7, <1>14, <2>1
  <2>2. CASE ~Answered(c, p) /\ c.at > 0
    <3>1. log[p].at < c.at
      BY <1>2, <1>3, <2>2 DEF Answered
    <3>2. CASE log[q].hash \in K
      BY <1>8, <1>14, <3>1, <3>2
    <3>3. CASE log[q].hash \in T
      <4>1. PICK r \in 1..N : log[r].hash = log[q].hash /\ Answered(c, r)
        BY <1>7, <3>3
      <4>2. r = q
        BY <1>2, <4>1
      <4>3. log[q].at >= c.at
        BY <2>2, <4>1, <4>2 DEF Answered
      <4>4. q \in 1..(p - 1) /\ log[q].at > log[p].at
        BY <1>2, <1>3, <1>14, <3>1, <4>3
      <4> QED BY <1>14, <4>4 DEF LateAt
    <3> QED BY <1>14, <3>2, <3>3
  <2>3. CASE ~Answered(c, p) /\ c.at = 0
    <3>1. log[q].hash \notin K
      <4>1. ASSUME log[q].hash \in K PROVE FALSE
        <5>1. PICK r \in DOMAIN log : log[r].hash = log[q].hash /\ log[r].at <= c.at
          BY <1>8, <4>1
        <5> QED BY <1>2, <2>3, <5>1
      <4> QED BY <4>1
    <3>2. PICK r \in 1..N : log[r].hash = log[q].hash /\ Answered(c, r)
      BY <1>7, <1>14, <3>1
    <3>3. r = q
      BY <1>2, <3>2
    <3>4. q > N - OnAttach /\ ~(p > N - OnAttach)
      BY <2>3, <3>2, <3>3 DEF Answered, N
    <3> QED BY <1>2, <1>14, <3>4, ConstantTypes
  <2> QED BY <1>3, <2>1, <2>2, <2>3
<1>15. Follows(d, R)
  BY <1>10, <1>11, <1>12, <1>13, <1>14 DEF Follows
<1> QED BY <1>6, <1>7, <1>9, <1>15 DEF b, d, L, T

-----------------------------------------------------------------------------
(* What the events of a snapshot say.                                      *)

\* A field has the value the events give it, or the one known before.
LEMMA TellingIs ==
  ASSUME NEW events, NEW field, NEW known
  PROVE  /\ (\A e \in events : field \notin DOMAIN e) => Telling(events, field, known) = known
         /\ \A v : /\ \E e \in events : field \in DOMAIN e
                   /\ \A e \in events : field \in DOMAIN e => e[field] = v
                   => Telling(events, field, known) = v
  BY DEF Telling

\* A snapshot by fields.
LEMMA SnapshotIs ==
  ASSUME NEW s \in SnapshotType
  PROVE  /\ s.state \in States /\ s.health \in Healths /\ s.oom \in BOOLEAN
         /\ High(s) \in SUBSET Resources
<1>1. PICK rs \in SUBSET Resources :
        s \in [state : States, health : Healths, oom : BOOLEAN, load : [rs -> Levels]]
  BY DEF SnapshotType
<1>2. s.state \in States /\ s.health \in Healths /\ s.oom \in BOOLEAN /\ s.load \in [rs -> Levels]
  BY <1>1
<1>3. DOMAIN s.load = rs
  BY <1>2
<1> QED BY <1>2, <1>3 DEF High

\* Types of the events that do not come from a comparison of states.
Measures == {"threshold", "recovered", "heartbeat"}

\* What is said is what the snapshot has, and what changed is said.
Reports(E, s) ==
  /\ \A e \in E :
       /\ "presence" \in DOMAIN e => e["presence"] = "up"
       /\ "unit" \in DOMAIN e => e["unit"] = unit
       /\ "phase" \in DOMAIN e => e["phase"] = s.state
       /\ "health" \in DOMAIN e => e["health"] = s.health /\ kind # "process"
       /\ e.type = "restarted" => row.available /\ e.unit = unit
  /\ Has(E, "available") <=> ~row.available
  /\ (\E e \in E : "presence" \in DOMAIN e) <=> ~row.available
  /\ ~Same => \E e \in E : "unit" \in DOMAIN e
  /\ row.available /\ ~Same => Has(E, "restarted")
  /\ Same /\ row.state # s.state => \E e \in E : "phase" \in DOMAIN e
  /\ kind # "process" =>
       /\ Same /\ row.health # s.health => \E e \in E : "health" \in DOMAIN e
       /\ s.state = "exited" /\ row.state # "exited" => \E e \in E : "phase" \in DOMAIN e
       /\ s.oom /\ ~row.oom => Has(E, "oom_killed")

\* A process says where it is, and its status unless it was restarted.
LEMMA ProcessReports ==
  ASSUME kind = "process", NEW s \in SnapshotType
  PROVE  /\ Reports(ProcessEvents(s), s)
         /\ \A e \in ProcessEvents(s) : e.type \notin Measures
<1> DEFINE E == ProcessEvents(s)
           ea == [type |-> "available", presence |-> "up", unit |-> unit, phase |-> s.state]
           er == [type |-> "restarted", unit |-> unit]
           es == [type |-> "state.changed", phase |-> s.state]
<1>1. /\ DOMAIN ea = {"type", "presence", "unit", "phase"} /\ ea["presence"] = "up"
      /\ ea["unit"] = unit /\ ea["phase"] = s.state /\ ea.type = "available"
      /\ DOMAIN er = {"type", "unit"} /\ er["unit"] = unit /\ er.type = "restarted"
      /\ DOMAIN es = {"type", "phase"} /\ es["phase"] = s.state /\ es.type = "state.changed"
  OBVIOUS
<1>2. E = { e \in {ea, er, es} :
              \/ e.type = "available" /\ ~row.available
              \/ e.type = "restarted" /\ row.available /\ ~Same
              \/ e.type = "state.changed" /\ Same /\ row.state # s.state }
  BY DEF ProcessEvents
<1> HIDE DEF E, ea, er, es
<1>3. /\ ea \in E <=> ~row.available
      /\ er \in E <=> row.available /\ ~Same
      /\ es \in E <=> Same /\ row.state # s.state
      /\ \A e \in E : e = ea \/ e = er \/ e = es
  BY <1>1, <1>2
<1>4. Same => row.available
  BY DEF Same
<1>5. \A e \in E :
        /\ "presence" \in DOMAIN e => e["presence"] = "up"
        /\ "unit" \in DOMAIN e => e["unit"] = unit
        /\ "phase" \in DOMAIN e => e["phase"] = s.state
        /\ "health" \notin DOMAIN e
        /\ e.type = "restarted" => row.available /\ e.unit = unit
        /\ e.type \notin Measures
  BY <1>1, <1>3 DEF Measures
<1>6. Has(E, "available") <=> ~row.available
  BY <1>1, <1>3 DEF Has
<1>7. (\E e \in E : "presence" \in DOMAIN e) <=> ~row.available
  BY <1>1, <1>3
<1>8. ~Same => \E e \in E : "unit" \in DOMAIN e
  BY <1>1, <1>3, <1>4
<1>9. row.available /\ ~Same => Has(E, "restarted")
  BY <1>1, <1>3 DEF Has
<1>10. Same /\ row.state # s.state => \E e \in E : "phase" \in DOMAIN e
  BY <1>1, <1>3
<1>11. Reports(E, s)
  BY <1>5, <1>6, <1>7, <1>8, <1>9, <1>10 DEF Reports
<1> QED BY <1>5, <1>11 DEF E

\* A container says what changed; a failure to read its log says nothing of it.
LEMMA DockerReports ==
  ASSUME kind # "process", NEW s \in SnapshotType, NEW grown \in BOOLEAN,
         NEW X \in SUBSET {[type |-> "logs.unavailable"]}
  PROVE  /\ Reports(DockerEvents(s, grown) \cup X, s)
         /\ \A e \in DockerEvents(s, grown) \cup X : e.type \notin Measures
<1> DEFINE E == DockerEvents(s, grown) \cup X
           ea == [type |-> "available", presence |-> "up", unit |-> unit]
           er == [type |-> "restarted", unit |-> unit]
           es == [type |-> "state.changed", phase |-> s.state]
           eh == [type |-> "health.changed", health |-> s.health]
           ex == [type |-> "exited", phase |-> "exited"]
           eo == [type |-> "oom_killed"]
           el == [type |-> "logs.unavailable"]
<1>1. /\ DOMAIN ea = {"type", "presence", "unit"} /\ ea["presence"] = "up"
      /\ ea["unit"] = unit /\ ea.type = "available"
      /\ DOMAIN er = {"type", "unit"} /\ er["unit"] = unit /\ er.type = "restarted"
      /\ DOMAIN es = {"type", "phase"} /\ es["phase"] = s.state /\ es.type = "state.changed"
      /\ DOMAIN eh = {"type", "health"} /\ eh["health"] = s.health /\ eh.type = "health.changed"
      /\ DOMAIN ex = {"type", "phase"} /\ ex["phase"] = "exited" /\ ex.type = "exited"
      /\ DOMAIN eo = {"type"} /\ eo.type = "oom_killed"
      /\ DOMAIN el = {"type"} /\ el.type = "logs.unavailable"
  OBVIOUS
<1>2. E = { e \in {ea, er, es, eh, ex, eo} :
              \/ e.type = "available" /\ ~row.available
              \/ e.type = "restarted" /\ row.available /\ (~Same \/ grown)
              \/ e.type = "state.changed" /\ Same /\ row.state # s.state
              \/ e.type = "health.changed" /\ Same /\ row.health # s.health
              \/ e.type = "exited" /\ s.state = "exited" /\ row.state # "exited"
              \/ e.type = "oom_killed" /\ s.oom /\ ~row.oom } \cup X
  BY DEF DockerEvents
<1>3. \A e \in X : e = el
  OBVIOUS
<1> HIDE DEF E, ea, er, es, eh, ex, eo, el
<1>4. /\ ~row.available => ea \in E
      /\ row.available /\ ~Same => er \in E
      /\ Same /\ row.state # s.state => es \in E
      /\ Same /\ row.health # s.health => eh \in E
      /\ s.state = "exited" /\ row.state # "exited" => ex \in E
      /\ s.oom /\ ~row.oom => eo \in E
  BY <1>1, <1>2
<1>5. ASSUME NEW e \in E
      PROVE  \/ e = ea /\ ~row.available
             \/ e = er /\ row.available
             \/ e = es \/ e = eh \/ e = eo \/ e = el
             \/ e = ex /\ s.state = "exited"
  <2>1. CASE e \in X
    BY <1>3, <2>1
  <2>2. CASE e = ea
    BY <1>1, <1>2, <1>3, <1>5, <2>2
  <2>3. CASE e = er
    BY <1>1, <1>2, <1>3, <1>5, <2>3
  <2>4. CASE e = ex
    BY <1>1, <1>2, <1>3, <1>5, <2>4
  <2> QED BY <1>2, <1>5, <2>1, <2>2, <2>3, <2>4
<1>6. Same => row.available
  BY DEF Same
<1>7. ASSUME NEW e \in E
      PROVE  /\ "presence" \in DOMAIN e => e["presence"] = "up"
             /\ "unit" \in DOMAIN e => e["unit"] = unit
             /\ "phase" \in DOMAIN e => e["phase"] = s.state
             /\ "health" \in DOMAIN e => e["health"] = s.health
             /\ e.type = "restarted" => row.available /\ e.unit = unit
             /\ e.type \notin Measures
  BY <1>1, <1>5, <1>7 DEF Measures
<1>8. Has(E, "available") <=> ~row.available
  BY <1>1, <1>4, <1>5 DEF Has
<1>9. (\E e \in E : "presence" \in DOMAIN e) <=> ~row.available
  BY <1>1, <1>4, <1>5
<1>10. ~Same => \E e \in E : "unit" \in DOMAIN e
  BY <1>1, <1>4, <1>6
<1>11. row.available /\ ~Same => Has(E, "restarted")
  BY <1>1, <1>4 DEF Has
<1>12. Same /\ row.state # s.state => \E e \in E : "phase" \in DOMAIN e
  BY <1>1, <1>4
<1>13. /\ Same /\ row.health # s.health => \E e \in E : "health" \in DOMAIN e
       /\ s.state = "exited" /\ row.state # "exited" => \E e \in E : "phase" \in DOMAIN e
       /\ s.oom /\ ~row.oom => Has(E, "oom_killed")
  BY <1>1, <1>4 DEF Has
<1>14. Reports(E, s)
  BY <1>7, <1>8, <1>9, <1>10, <1>11, <1>12, <1>13 DEF Reports
<1> QED BY <1>7, <1>14 DEF E

\* What the events say of the thresholds.
ReportsLoad(E, s) ==
  /\ Has(E, "threshold") <=> High(s) \ row.high # {}
  /\ Has(E, "recovered") <=> row.high \ High(s) # {}
  /\ \A e \in E : /\ e.type = "threshold" => e.of = High(s) \ row.high
                  /\ e.type = "recovered" => e.of = row.high \ High(s)

\* The events a poll stores: those of the state, of the thresholds, and a
\* heartbeat when there are no others and the last is old.
PollEvents(s, changes, lines) ==
  LET found == changes \cup LoadEvents(High(s)) IN found \cup Heartbeats(s, found, lines)

\* The events of a poll, whatever the source.
LEMMA PollReports ==
  ASSUME NEW s \in SnapshotType, NEW changes, NEW lines,
         Reports(changes, s), \A e \in changes : e.type \notin Measures
  PROVE  LET E == PollEvents(s, changes, lines)
         IN  /\ Reports(E, s) /\ ReportsLoad(E, s)
             /\ Has(E, "heartbeat") => row.available /\ row.beat >= Heartbeat
             /\ E = {} /\ lines = {} => row.available /\ ~(row.beat >= Heartbeat)
<1> DEFINE E == PollEvents(s, changes, lines)
           up == High(s) \ row.high
           down == row.high \ High(s)
           et == [type |-> "threshold", of |-> up]
           er == [type |-> "recovered", of |-> down]
           hb == IF kind = "process" THEN [type |-> "heartbeat"]
                 ELSE [type |-> "heartbeat", phase |-> s.state, health |-> s.health]
           loads == LoadEvents(High(s))
           found == changes \cup loads
           beats == Heartbeats(s, found, lines)
<1>1. /\ DOMAIN et = {"type", "of"} /\ et.type = "threshold" /\ et.of = up
      /\ DOMAIN er = {"type", "of"} /\ er.type = "recovered" /\ er.of = down
  OBVIOUS
<1>2. /\ hb.type = "heartbeat" /\ DOMAIN hb \subseteq {"type", "phase", "health"}
      /\ "phase" \in DOMAIN hb => hb["phase"] = s.state
      /\ "health" \in DOMAIN hb => hb["health"] = s.health /\ kind # "process"
  <2>1. CASE kind = "process"
    BY <2>1
  <2>2. CASE kind # "process"
    BY <2>2
  <2> QED BY <2>1, <2>2
<1>3. loads = { e \in {et, er} : e.of # {} }
  BY DEF LoadEvents
<1>4. beats = { e \in {hb} : found = {} /\ lines = {} /\ row.beat >= Heartbeat }
  BY DEF Heartbeats
<1>5. E = changes \cup loads \cup beats /\ found = changes \cup loads
  BY DEF PollEvents
<1> HIDE DEF E, up, down, et, er, hb, loads, found, beats
<1>6. /\ et \in loads <=> up # {}
      /\ er \in loads <=> down # {}
      /\ \A e \in loads : e = et \/ e = er
  BY <1>1, <1>3
<1>7. /\ \A e \in beats : e = hb /\ found = {} /\ lines = {} /\ row.beat >= Heartbeat
      /\ found = {} /\ lines = {} /\ row.beat >= Heartbeat => hb \in beats
  BY <1>4
<1>8. ASSUME NEW e \in E
      PROVE  \/ e \in changes
             \/ e = et /\ up # {}
             \/ e = er /\ down # {}
             \/ e = hb /\ found = {} /\ lines = {} /\ row.beat >= Heartbeat
  BY <1>5, <1>6, <1>7, <1>8
<1>9. /\ \A e \in changes :
           /\ "presence" \in DOMAIN e => e["presence"] = "up"
           /\ "unit" \in DOMAIN e => e["unit"] = unit
           /\ "phase" \in DOMAIN e => e["phase"] = s.state
           /\ "health" \in DOMAIN e => e["health"] = s.health /\ kind # "process"
           /\ e.type = "restarted" => row.available /\ e.unit = unit
      /\ Has(changes, "available") <=> ~row.available
      /\ (\E e \in changes : "presence" \in DOMAIN e) <=> ~row.available
      /\ ~Same => \E e \in changes : "unit" \in DOMAIN e
      /\ row.available /\ ~Same => Has(changes, "restarted")
      /\ Same /\ row.state # s.state => \E e \in changes : "phase" \in DOMAIN e
      /\ kind # "process" =>
           /\ Same /\ row.health # s.health => \E e \in changes : "health" \in DOMAIN e
           /\ s.state = "exited" /\ row.state # "exited" => \E e \in changes : "phase" \in DOMAIN e
           /\ s.oom /\ ~row.oom => Has(changes, "oom_killed")
  BY DEF Reports
<1>10. ASSUME NEW e \in E
       PROVE  /\ "presence" \in DOMAIN e => e["presence"] = "up" /\ e \in changes
              /\ "unit" \in DOMAIN e => e["unit"] = unit
              /\ "phase" \in DOMAIN e => e["phase"] = s.state
              /\ "health" \in DOMAIN e => e["health"] = s.health /\ kind # "process"
              /\ e.type = "restarted" => row.available /\ e.unit = unit
              /\ e.type = "available" => e \in changes
  BY <1>1, <1>2, <1>8, <1>9, <1>10
<1>11. changes \subseteq E
  BY <1>5
<1>12. \A type : Has(changes, type) => Has(E, type)
  BY <1>11 DEF Has
<1>13. Has(E, "available") <=> ~row.available
  <2>1. Has(E, "available") => Has(changes, "available")
    BY <1>10 DEF Has
  <2> QED BY <1>9, <1>12, <2>1
<1>14. (\E e \in E : "presence" \in DOMAIN e) <=> ~row.available
  BY <1>9, <1>10, <1>11
<1>15. /\ ~Same => \E e \in E : "unit" \in DOMAIN e
       /\ Same /\ row.state # s.state => \E e \in E : "phase" \in DOMAIN e
       /\ kind # "process" /\ Same /\ row.health # s.health => \E e \in E : "health" \in DOMAIN e
       /\ kind # "process" /\ s.state = "exited" /\ row.state # "exited" =>
            \E e \in E : "phase" \in DOMAIN e
  BY <1>9, <1>11
<1>16. /\ row.available /\ ~Same => Has(E, "restarted")
       /\ kind # "process" /\ s.oom /\ ~row.oom => Has(E, "oom_killed")
  BY <1>9, <1>12
<1>17. Reports(E, s)
  BY <1>10, <1>13, <1>14, <1>15, <1>16 DEF Reports
<1>18. \A e \in changes : e.type # "threshold" /\ e.type # "recovered" /\ e.type # "heartbeat"
  BY DEF Measures
<1>19. \A e \in E : /\ e.type = "threshold" => e.of = up /\ up # {}
                    /\ e.type = "recovered" => e.of = down /\ down # {}
                    /\ e.type = "heartbeat" => found = {} /\ row.beat >= Heartbeat
  BY <1>1, <1>2, <1>8, <1>18
<1>20. (up # {} => Has(E, "threshold")) /\ (down # {} => Has(E, "recovered"))
  BY <1>1, <1>5, <1>6 DEF Has
<1>21. ReportsLoad(E, s)
  BY <1>19, <1>20 DEF ReportsLoad, Has, up, down
<1>22. found = {} => row.available
  BY <1>5, <1>9 DEF Has
<1>23. Has(E, "heartbeat") => row.available /\ row.beat >= Heartbeat
  BY <1>19, <1>22 DEF Has
<1>24. E = {} /\ lines = {} => row.available /\ ~(row.beat >= Heartbeat)
  BY <1>5, <1>7, <1>22
<1> QED BY <1>17, <1>21, <1>23, <1>24 DEF E

-----------------------------------------------------------------------------
(* The row and the events, step by step.                                   *)

\* The events of a snapshot tell the reader what the row then says.
LEMMA PollIsTold ==
  ASSUME MachineInv, RowInv, NEW s \in SnapshotType, kind = "process" => ~s.oom, NEW E,
         Reports(E, s), ReportsLoad(E, s)
  PROVE  LET t == Tell(E)
         IN  /\ t \in Tellings
             /\ t.state = "up" /\ t.unit = unit /\ t.high = High(s)
             /\ t.sure => t.phase = s.state
             /\ t.health \in {"unknown", s.health}
             /\ kind # "process" /\ s.state = "exited" => t.phase = "exited"
             /\ s.oom => t.oom
             /\ kind = "process" => t.health = "unknown"
<1>1. /\ s.state \in States /\ s.health \in Healths /\ s.oom \in BOOLEAN
      /\ High(s) \in SUBSET Resources
  BY SnapshotIs
<1>2. /\ row.high \in SUBSET Resources /\ row.available \in BOOLEAN /\ row.oom \in BOOLEAN
      /\ row.unit \in Units \cup {"none"}
  BY DEF RowInv, Rows
<1>3. /\ told.unit \in Units \cup {"none"} /\ told.phase \in States \cup {"unknown"}
      /\ told.sure \in BOOLEAN /\ told.health \in Healths \cup {"unknown"}
      /\ told.oom \in BOOLEAN
  BY DEF RowInv, Tellings
<1>4. /\ \A e \in E :
           /\ "presence" \in DOMAIN e => e["presence"] = "up"
           /\ "unit" \in DOMAIN e => e["unit"] = unit
           /\ "phase" \in DOMAIN e => e["phase"] = s.state
           /\ "health" \in DOMAIN e => e["health"] = s.health /\ kind # "process"
           /\ e.type = "restarted" => row.available /\ e.unit = unit
      /\ Has(E, "available") <=> ~row.available
      /\ (\E e \in E : "presence" \in DOMAIN e) <=> ~row.available
      /\ ~Same => \E e \in E : "unit" \in DOMAIN e
      /\ row.available /\ ~Same => Has(E, "restarted")
      /\ Same /\ row.state # s.state => \E e \in E : "phase" \in DOMAIN e
      /\ kind # "process" =>
           /\ Same /\ row.health # s.health => \E e \in E : "health" \in DOMAIN e
           /\ s.state = "exited" /\ row.state # "exited" => \E e \in E : "phase" \in DOMAIN e
           /\ s.oom /\ ~row.oom => Has(E, "oom_killed")
  BY DEF Reports
<1>5. /\ row.available =>
           /\ told.state = "up" /\ told.unit = row.unit /\ told.high = row.high
           /\ told.sure => told.phase = row.state
           /\ told.health \in {"unknown", row.health}
           /\ kind # "process" /\ row.state = "exited" => told.phase = "exited"
           /\ row.oom => told.oom
      /\ ~row.available => row.high = {} /\ ~row.oom /\ row.state = "none"
      /\ kind = "process" => told.health = "unknown"
  BY DEF RowInv, EventsTellTheRow
<1>6. Same <=> row.available /\ row.unit = unit
  BY DEF Same
<1>7. ~Moved(E) => Same
  <2>1. ASSUME ~Moved(E), ~Same PROVE FALSE
    <3>1. row.available
      BY <1>4, <2>1 DEF Moved
    <3>2. PICK e \in E : e.type = "restarted"
      BY <1>4, <2>1, <3>1 DEF Has
    <3>3. e.unit # told.unit
      BY <1>4, <1>5, <1>6, <2>1, <3>1, <3>2
    <3> QED BY <2>1, <3>2, <3>3 DEF Moved
  <2> QED BY <2>1
<1> DEFINE t == Tell(E)
           state == Telling(E, "presence", told.state)
           un == Telling(E, "unit", told.unit)
           phase == Telling(E, "phase", told.phase)
           base == IF Moved(E) THEN "unknown" ELSE told.health
           health == Telling(E, "health", base)
           sure == (\E e \in E : "phase" \in DOMAIN e) \/ (told.sure /\ ~Moved(E))
           oom == Has(E, "oom_killed") \/ (told.oom /\ ~Has(E, "available"))
           up == IF Has(E, "threshold") THEN (CHOOSE e \in E : e.type = "threshold").of ELSE {}
           down == IF Has(E, "recovered") THEN (CHOOSE e \in E : e.type = "recovered").of ELSE {}
           high == ((IF Has(E, "available") THEN {} ELSE told.high) \cup up) \ down
<1>8. t = [state |-> state, unit |-> un, phase |-> phase, sure |-> sure, health |-> health,
           oom |-> oom, high |-> high]
  BY DEF Tell
<1>9. state = "up"
  <2>1. CASE row.available
    BY <1>4, <1>5, <2>1, TellingIs
  <2>2. CASE ~row.available
    BY <1>4, <2>2, TellingIs
  <2> QED BY <2>1, <2>2
<1>10. un = unit
  <2>1. CASE \E e \in E : "unit" \in DOMAIN e
    BY <1>4, <2>1, TellingIs
  <2>2. CASE ~\E e \in E : "unit" \in DOMAIN e
    <3>1. un = told.unit
      BY <2>2, TellingIs
    <3> QED BY <1>4, <1>5, <1>6, <2>2, <3>1
  <2> QED BY <2>1, <2>2
<1>11. /\ (\E e \in E : "phase" \in DOMAIN e) => phase = s.state
       /\ ~(\E e \in E : "phase" \in DOMAIN e) => phase = told.phase
  BY <1>4, TellingIs
<1>12. /\ (\E e \in E : "health" \in DOMAIN e) => health = s.health /\ kind # "process"
       /\ ~(\E e \in E : "health" \in DOMAIN e) => health = base
  <2>1. CASE \E e \in E : "health" \in DOMAIN e
    <3>1. health = s.health
      BY <1>4, <2>1, TellingIs
    <3> QED BY <1>4, <2>1, <3>1
  <2>2. CASE ~\E e \in E : "health" \in DOMAIN e
    <3>1. health = base
      BY <2>2, TellingIs
    <3> QED BY <2>2, <3>1
  <2> QED BY <2>1, <2>2
<1>13. base = IF Moved(E) THEN "unknown" ELSE told.health
  OBVIOUS
<1>14. /\ Has(E, "threshold") <=> High(s) \ row.high # {}
       /\ Has(E, "recovered") <=> row.high \ High(s) # {}
       /\ \A e \in E : /\ e.type = "threshold" => e.of = High(s) \ row.high
                       /\ e.type = "recovered" => e.of = row.high \ High(s)
  BY DEF ReportsLoad
<1>15. up = High(s) \ row.high
  <2>1. Has(E, "threshold") => (CHOOSE e \in E : e.type = "threshold").of = High(s) \ row.high
    BY <1>14 DEF Has
  <2> QED BY <1>14, <2>1
<1>16. down = row.high \ High(s)
  <2>1. Has(E, "recovered") => (CHOOSE e \in E : e.type = "recovered").of = row.high \ High(s)
    BY <1>14 DEF Has
  <2> QED BY <1>14, <2>1
<1> HIDE DEF state, un, phase, base, health, up, down
<1>17. high = High(s)
  <2>1. (IF Has(E, "available") THEN {} ELSE told.high) = row.high
    BY <1>4, <1>5
  <2>2. high = (row.high \cup (High(s) \ row.high)) \ (row.high \ High(s))
    BY <1>15, <1>16, <2>1
  <2>3. \A x : x \in high <=> x \in High(s)
    BY <2>2
  <2> HIDE DEF high
  <2> QED BY <2>3
<1>18. sure => phase = s.state
  BY <1>4, <1>5, <1>7, <1>6, <1>11
<1>19. health \in {"unknown", s.health}
  BY <1>4, <1>5, <1>6, <1>7, <1>12, <1>13
<1>20. kind = "process" => health = "unknown"
  BY <1>5, <1>12, <1>13
<1>21. kind # "process" /\ s.state = "exited" => phase = "exited"
  BY <1>4, <1>5, <1>11, ConstantTypes
<1>22. s.oom => oom
  BY <1>2, <1>4, <1>5
<1>23. sure \in BOOLEAN /\ oom \in BOOLEAN
  OBVIOUS
<1>24. phase \in States \cup {"unknown"} /\ health \in Healths \cup {"unknown"}
  BY <1>1, <1>3, <1>11, <1>19
<1> HIDE DEF sure, oom, high, t
<1>25. t = [state |-> "up", unit |-> unit, phase |-> phase, sure |-> sure, health |-> health,
            oom |-> oom, high |-> High(s)]
  BY <1>8, <1>9, <1>10, <1>17
<1> DEFINE hi == High(s)
<1>26. hi \in SUBSET Resources
  BY <1>1
<1>27. t.state = "up" /\ t.unit = unit /\ t.phase = phase /\ t.sure = sure
       /\ t.health = health /\ t.oom = oom /\ t.high = High(s)
  BY <1>25
<1>28. t = [state |-> "up", unit |-> unit, phase |-> phase, sure |-> sure, health |-> health,
            oom |-> oom, high |-> hi]
  BY <1>25
<1>29. t \in Tellings
  <2>1. unit \in Units
    BY DEF MachineInv
  <2> HIDE DEF hi
  <2> QED BY <2>1, <1>23, <1>24, <1>26, <1>28 DEF Tellings
<1> QED BY <1>18, <1>19, <1>20, <1>21, <1>22, <1>27, <1>29 DEF t

\* A poll that finds the source keeps the row's part, and what it stores ends a
\* silence before it has lasted too long.
LEMMA AvailableStep ==
  ASSUME MachineInv, RowInv, NEW s \in SnapshotType, kind = "process" => ~s.oom,
         NEW changes, Reports(changes, s), \A e \in changes : e.type \notin Measures,
         NEW lines, NEW cursor \in Cursors, cursor # NoCursor => kind = "docker_logs",
         Available(s, changes, lines, cursor), UNCHANGED <<kind, unit>>
  PROVE  /\ RowInv'
         /\ row'.available /\ row'.unit = unit /\ row'.cursor = cursor
         /\ news'.lines = lines
         /\ Has(news'.events, "heartbeat") => quiet = Heartbeat
         /\ quiet' < Heartbeat
<1> DEFINE E == PollEvents(s, changes, lines)
           beat == IF E # {} \/ lines # {} THEN 0 ELSE row.beat
           hi == High(s)
           t == Tell(E)
<1>1. /\ row' = [known |-> TRUE, available |-> TRUE, error |-> "none", unit |-> unit,
                 state |-> s.state, health |-> s.health, oom |-> s.oom, high |-> hi,
                 beat |-> beat, cursor |-> cursor]
      /\ told' = t
      /\ quiet' = IF E # {} \/ lines # {} THEN 0 ELSE quiet
      /\ news' = [polled |-> TRUE, events |-> E, lines |-> lines]
  BY DEF Available, Store, Beat, PollEvents
<1>2. /\ Reports(E, s) /\ ReportsLoad(E, s)
      /\ Has(E, "heartbeat") => row.available /\ row.beat >= Heartbeat
      /\ E = {} /\ lines = {} => row.available /\ ~(row.beat >= Heartbeat)
  BY PollReports
<1> HIDE DEF E
<1>3. /\ t \in Tellings
      /\ t.state = "up" /\ t.unit = unit /\ t.high = hi
      /\ t.sure => t.phase = s.state
      /\ t.health \in {"unknown", s.health}
      /\ kind # "process" /\ s.state = "exited" => t.phase = "exited"
      /\ s.oom => t.oom
      /\ kind = "process" => t.health = "unknown"
  BY <1>2, PollIsTold
<1>4. /\ s.state \in States /\ s.health \in Healths /\ s.oom \in BOOLEAN
      /\ hi \in SUBSET Resources
  BY SnapshotIs
<1>5. /\ row.beat \in 0..Heartbeat /\ quiet \in 0..Heartbeat
      /\ row.available => row.beat = quiet
  BY DEF RowInv, Rows
<1> HIDE DEF t, hi
<1>6. /\ beat \in 0..Heartbeat /\ quiet' = beat /\ beat < Heartbeat
  BY <1>1, <1>2, <1>5, ConstantTypes
<1>7. Has(E, "heartbeat") => quiet = Heartbeat
  BY <1>2, <1>5, ConstantTypes
<1> HIDE DEF beat
<1>8. unit \in Units
  BY DEF MachineInv
<1>9. row' \in Rows
  BY <1>1, <1>4, <1>6, <1>8 DEF Rows
<1>10. /\ row'.known = TRUE /\ row'.available = TRUE /\ row'.error = "none" /\ row'.unit = unit
       /\ row'.state = s.state /\ row'.health = s.health /\ row'.oom = s.oom
       /\ row'.high = hi /\ row'.beat = beat /\ row'.cursor = cursor
  BY <1>1
<1>11. told' = t /\ kind' = kind
  BY <1>1
<1>12. EventsTellTheRow'
  BY <1>3, <1>10, <1>11 DEF EventsTellTheRow
<1>13. told' \in Tellings
  BY <1>3, <1>11
<1>14. RowInv'
  BY <1>3, <1>6, <1>9, <1>10, <1>11, <1>12, <1>13 DEF RowInv
<1>15. news'.lines = lines /\ news'.events = E
  BY <1>1
<1> QED BY <1>6, <1>7, <1>10, <1>14, <1>15

\* A poll that does not find the source keeps the row's part.
LEMMA UnavailableStep ==
  ASSUME RowInv, Unavailable
  PROVE  /\ RowInv' /\ ~row'.available
         /\ news'.lines = {} /\ ~Has(news'.events, "heartbeat")
<1>1. PICK error \in Errors : Store(Gone(error), Failure(error), {})
  BY DEF Unavailable
<1> DEFINE e == [type |-> "unavailable", presence |-> error]
           E == Failure(error)
           t == Tell(E)
           state == Telling(E, "presence", told.state)
<1>2. /\ row' = [known |-> TRUE, available |-> FALSE, error |-> error, unit |-> "none",
                 state |-> "none", health |-> "none", oom |-> FALSE, high |-> {},
                 beat |-> row.beat, cursor |-> NoCursor]
      /\ told' = t
      /\ quiet' = IF E # {} THEN 0 ELSE quiet
      /\ news' = [polled |-> TRUE, events |-> E, lines |-> {}]
  BY <1>1 DEF Store, Gone, NoRow
<1>3. DOMAIN e = {"type", "presence"} /\ e["presence"] = error /\ e.type = "unavailable"
  OBVIOUS
<1>4. E = IF row.available \/ row.error # error THEN {e} ELSE {}
  BY DEF Failure
<1> HIDE DEF E, e
<1>5. /\ \A x \in E : x = e
      /\ ~Moved(E) /\ \A type : Has(E, type) => type = "unavailable"
  BY <1>3, <1>4 DEF Moved, Has
<1>6. /\ Telling(E, "unit", told.unit) = told.unit
      /\ Telling(E, "phase", told.phase) = told.phase
      /\ Telling(E, "health", told.health) = told.health
      /\ ~\E x \in E : "phase" \in DOMAIN x
  BY <1>3, <1>5, TellingIs
<1>7. /\ told \in Tellings /\ told.sure \in BOOLEAN /\ told.oom \in BOOLEAN
      /\ told.high \in SUBSET Resources
  BY DEF RowInv, Tellings
<1>8. state = error
  <2>1. CASE row.available \/ row.error # error
    BY <1>3, <1>4, <2>1, TellingIs
  <2>2. CASE ~row.available /\ row.error = error
    <3>1. state = told.state
      BY <1>4, <2>2, TellingIs
    <3>2. row.known
      BY <2>2, ConstantTypes DEF RowInv
    <3> QED BY <2>2, <3>1, <3>2 DEF RowInv, EventsTellTheRow
  <2> QED BY <2>1, <2>2
<1> HIDE DEF state
<1>9. t = [told EXCEPT !.state = error]
  <2>1. ~Has(E, "available") /\ ~Has(E, "oom_killed") /\ ~Has(E, "threshold")
        /\ ~Has(E, "recovered")
    BY <1>5
  <2>2. t = [state |-> state, unit |-> told.unit, phase |-> told.phase, sure |-> told.sure,
             health |-> told.health, oom |-> told.oom, high |-> told.high]
    <3>1. t = [ state  |-> state,
                unit   |-> Telling(E, "unit", told.unit),
                phase  |-> Telling(E, "phase", told.phase),
                sure   |-> (\E x \in E : "phase" \in DOMAIN x) \/ (told.sure /\ ~Moved(E)),
                health |-> Telling(E, "health", IF Moved(E) THEN "unknown" ELSE told.health),
                oom    |-> Has(E, "oom_killed") \/ (told.oom /\ ~Has(E, "available")),
                high   |-> ((IF Has(E, "available") THEN {} ELSE told.high)
                              \cup (IF Has(E, "threshold")
                                    THEN (CHOOSE x \in E : x.type = "threshold").of ELSE {}))
                             \ (IF Has(E, "recovered")
                                THEN (CHOOSE x \in E : x.type = "recovered").of ELSE {}) ]
      BY DEF Tell, state
    <3>2. (IF Moved(E) THEN "unknown" ELSE told.health) = told.health
      BY <1>5
    <3>3. ((\E x \in E : "phase" \in DOMAIN x) \/ (told.sure /\ ~Moved(E))) = told.sure
      BY <1>5, <1>6, <1>7
    <3>4. (Has(E, "oom_killed") \/ (told.oom /\ ~Has(E, "available"))) = told.oom
      BY <1>7, <2>1
    <3>5. ((IF Has(E, "available") THEN {} ELSE told.high)
            \cup (IF Has(E, "threshold")
                  THEN (CHOOSE x \in E : x.type = "threshold").of ELSE {}))
           \ (IF Has(E, "recovered")
              THEN (CHOOSE x \in E : x.type = "recovered").of ELSE {}) = told.high
      BY <2>1
    <3> QED BY <1>6, <3>1, <3>2, <3>3, <3>4, <3>5
  <2>3. told = [state |-> told.state, unit |-> told.unit, phase |-> told.phase,
                sure |-> told.sure, health |-> told.health, oom |-> told.oom,
                high |-> told.high]
    BY <1>7 DEF Tellings
  <2> QED BY <1>8, <2>2, <2>3
<1> HIDE DEF t
<1>10. /\ row.beat \in 0..Heartbeat /\ quiet \in 0..Heartbeat /\ Heartbeat \in Nat
       /\ kind = "process" => told.health = "unknown"
  BY ConstantTypes DEF RowInv, Rows
<1>11. NoCursor \in Cursors
  BY ConstantTypes DEF NoCursor, Cursors
<1>12. row' \in Rows
  BY <1>2, <1>10, <1>11, ConstantTypes DEF Rows
<1>13. told' \in Tellings /\ told'.state = error /\ told'.health = told.health
  BY <1>2, <1>7, <1>9 DEF Tellings
<1>14. /\ row'.known = TRUE /\ row'.available = FALSE /\ row'.error = error /\ row'.high = {}
       /\ row'.oom = FALSE /\ row'.state = "none" /\ row'.cursor = NoCursor
  BY <1>2
<1>15. EventsTellTheRow'
  BY <1>13, <1>14, ConstantTypes DEF EventsTellTheRow
<1>16. quiet' \in 0..Heartbeat /\ kind' = kind
  BY <1>2, <1>10 DEF Unavailable, engine
<1>17. RowInv'
  BY <1>10, <1>12, <1>13, <1>14, <1>15, <1>16 DEF RowInv
<1>18. news'.events = E /\ news'.lines = {}
  BY <1>2
<1>19. ~Has(E, "heartbeat")
  BY <1>5
<1> QED BY <1>14, <1>17, <1>18, <1>19

\* Time keeps the row's part.
LEMMA TickStep ==
  ASSUME RowInv, Tick
  PROVE  RowInv' /\ row'.available = row.available /\ row'.unit = row.unit
         /\ row'.cursor = row.cursor
<1>1. /\ row \in Rows /\ row.beat \in 0..Heartbeat /\ quiet \in 0..Heartbeat /\ Heartbeat \in Nat
      /\ row.available => row.beat = quiet
      /\ row.available => row.known
  BY ConstantTypes DEF RowInv, Rows
<1> DEFINE beat == IF row.known THEN Smaller(row.beat + 1, Heartbeat) ELSE row.beat
<1>2. row' = [row EXCEPT !.beat = beat]
  BY <1>1 DEF Tick, Rows
<1>3. /\ beat \in 0..Heartbeat /\ quiet' \in 0..Heartbeat
      /\ row.available => beat = quiet'
  BY <1>1 DEF Tick, Smaller
<1>4. told' = told /\ kind' = kind
  BY DEF Tick, engine
<1> HIDE DEF beat
<1>5. /\ row' \in Rows /\ row'.beat = beat /\ row'.known = row.known
      /\ row'.available = row.available /\ row'.error = row.error /\ row'.unit = row.unit
      /\ row'.state = row.state /\ row'.health = row.health /\ row'.oom = row.oom
      /\ row'.high = row.high /\ row'.cursor = row.cursor
  BY <1>1, <1>2, <1>3 DEF Rows
<1>6. EventsTellTheRow'
  BY <1>4, <1>5 DEF RowInv, EventsTellTheRow
<1>7. RowInv'
  BY <1>3, <1>4, <1>5, <1>6 DEF RowInv
<1> QED BY <1>5, <1>7

-----------------------------------------------------------------------------
(* The log and its cursor, step by step.                                   *)

\* Without a cursor nothing is recorded yet.
LEMMA NothingFollows ==
  ASSUME MachineInv
  PROVE  NoCursor \in Cursors /\ Follows(NoCursor, {})
<1>1. NoCursor.at = 0 /\ NoCursor.hashes = {}
  BY DEF NoCursor
<1>2. NoCursor \in Cursors
  BY ConstantTypes DEF NoCursor, Cursors
<1>3. DOMAIN log = 1..Len(log) /\ \A p \in 1..Len(log) : log[p].at \in Nat /\ log[p].at > 0
  BY LogIs
<1>4. Follows(NoCursor, {})
  BY <1>1, <1>3 DEF Follows
<1> QED BY <1>2, <1>4

\* What the invariant says of the cursor goes for the one that is read from.
LEMMA PreviousFollows ==
  ASSUME MachineInv, RowInv, LinesInv
  PROVE  /\ PreviousCursor \in Cursors
         /\ (IF Same THEN kept ELSE {}) \in SUBSET Lines
         /\ Follows(PreviousCursor, IF Same THEN kept ELSE {})
<1>1. CASE Same
  <2>1. row.cursor \in Cursors
    BY DEF RowInv, Rows
  <2> QED BY <1>1, <2>1 DEF LinesInv, PreviousCursor
<1>2. CASE ~Same
  BY <1>2, NothingFollows DEF PreviousCursor
<1> QED BY <1>1, <1>2

\* While the log stays, so does what a cursor says of it.
LEMMA FollowsStays ==
  ASSUME NEW c, NEW K, Follows(c, K), log' = log
  PROVE  Follows(c, K)'
  BY DEF Follows, Crowded, LateAt

\* A step that leaves the log alone keeps the log's part if its cursor does.
LEMMA LinesStay ==
  ASSUME LinesInv, UNCHANGED <<kind, log>>, NEW c, NEW K \in SUBSET Lines,
         row'.available => row'.cursor = c, kept' = K, kind # "docker_logs" => K = {},
         Same' => Follows(c, K)
  PROVE  LinesInv'
<1>1. Same' => Follows(c, K)'
  BY FollowsStays
<1>2. Same' => row'.cursor = c
  BY DEF Same
<1>3. Same' => Follows(row.cursor, kept)'
  BY <1>1, <1>2 DEF Follows
<1>4. (\A p, q \in DOMAIN log : log[p].hash = log[q].hash => p = q)'
  BY DEF LinesInv
<1> QED BY <1>3, <1>4 DEF LinesInv

\* A line more: it is not recorded, and where it is older than the cursor it is late.
LEMMA LineWrittenStep ==
  ASSUME MachineInv, RowInv, LinesInv, LineWritten
  PROVE  MachineInv' /\ LinesInv'
<1>1. PICK at \in Times, hash \in Lines \ { log[i].hash : i \in DOMAIN log } :
        log' = Append(log, [at |-> at, hash |-> hash])
  BY DEF LineWritten
<1> DEFINE l == [at |-> at, hash |-> hash]
           n == Len(log)
<1>2. /\ log \in Seq(LogLines) /\ n \in Nat /\ DOMAIN log = 1..n
      /\ \A p \in 1..n : log[p].at \in Nat
  BY LogIs DEF MachineInv
<1>3. l \in LogLines /\ l.at = at /\ l.hash = hash
  BY DEF LogLines
<1> HIDE DEF l
<1>4. log' = Append(log, l)
  BY <1>1 DEF l
<1>5. /\ log' \in Seq(LogLines) /\ DOMAIN log' = 1..(n + 1) /\ log'[n + 1] = l
      /\ \A p \in 1..n : log'[p] = log[p]
  BY <1>2, <1>3, <1>4
<1>6. /\ UNCHANGED <<kind, unit, row, kept>> /\ kind = "docker_logs"
  BY DEF LineWritten
<1>7. MachineInv'
  BY <1>5, <1>6 DEF MachineInv
<1>8. \A p \in 1..n : hash # log[p].hash
  BY <1>1, <1>2
<1> HIDE DEF n
<1>9. \A p \in 1..(n + 1) : p \in 1..n \/ p = n + 1
  BY <1>2
<1>10. \A p \in 1..n : p \in 1..(n + 1)
  BY <1>2
<1>11. ASSUME NEW p \in DOMAIN log', NEW q \in DOMAIN log', log'[p].hash = log'[q].hash
       PROVE  p = q
  <2>1. CASE p \in 1..n /\ q \in 1..n
    BY <1>2, <1>5, <1>11, <2>1 DEF LinesInv
  <2>2. CASE p = n + 1 /\ q \in 1..n
    BY <1>3, <1>5, <1>8, <1>11, <2>2
  <2>3. CASE p \in 1..n /\ q = n + 1
    BY <1>3, <1>5, <1>8, <1>11, <2>3
  <2> QED BY <1>5, <1>9, <2>1, <2>2, <2>3
<1>12. PICK c, K : c = row.cursor /\ K = kept
  OBVIOUS
<1>13. ASSUME Same PROVE Follows(c, K)'
  <2>1. /\ \A h \in K : \E p \in DOMAIN log : log[p].hash = h /\ log[p].at <= c.at
        /\ \A h \in c.hashes : h \in K /\ \E p \in DOMAIN log : log[p].hash = h /\ log[p].at = c.at
        /\ c.at > 0 => \E p \in DOMAIN log : log[p].at = c.at
        /\ ~Crowded =>
             \A p \in DOMAIN log :
               log[p].hash \in K /\ log[p].at = c.at => log[p].hash \in c.hashes
        /\ \A p, q \in DOMAIN log :
             q < p /\ log[q].hash \in K /\ log[p].at < c.at /\ ~LateAt(p) => log[p].hash \in K
    BY <1>12, <1>13 DEF LinesInv, Follows
  <2>2. hash \notin K
    BY <1>2, <1>8, <2>1
  <2>3. \A h \in K : \E p \in DOMAIN log' : log'[p].hash = h /\ log'[p].at <= c.at
    BY <1>2, <1>5, <1>10, <2>1
  <2>4. ASSUME NEW h \in c.hashes
        PROVE  h \in K /\ \E p \in DOMAIN log' : log'[p].hash = h /\ log'[p].at = c.at
    <3>1. h \in K
      BY <2>1
    <3>2. PICK p \in 1..n : log[p].hash = h /\ log[p].at = c.at
      BY <1>2, <2>1
    <3>3. p \in DOMAIN log' /\ log'[p] = log[p]
      BY <1>2, <1>5, <1>10
    <3> QED BY <3>1, <3>2, <3>3
  <2>5. c.at > 0 => \E p \in DOMAIN log' : log'[p].at = c.at
    BY <1>2, <1>5, <1>10, <2>1
  <2>6. Crowded => Crowded'
    <3>1. SUFFICES ASSUME NEW t \in Times, Cardinality({ p \in DOMAIN log : log[p].at = t }) > Window
                   PROVE  Cardinality({ p \in DOMAIN log' : log'[p].at = t }) > Window
      BY DEF Crowded
    <3> DEFINE P == { p \in DOMAIN log : log[p].at = t }
               Q == { p \in DOMAIN log' : log'[p].at = t }
    <3>2. P \subseteq Q
      BY <1>2, <1>5, <1>10
    <3>3. IsFiniteSet(Q)
      <4>1. IsFiniteSet(1..(n + 1)) /\ Q \subseteq 1..(n + 1)
        BY <1>2, <1>5, FS_Interval
      <4> HIDE DEF Q
      <4> QED BY <4>1, FS_Subset
    <3> HIDE DEF P, Q
    <3>4. IsFiniteSet(P) /\ Cardinality(P) <= Cardinality(Q)
      BY <3>2, <3>3, FS_Subset
    <3>5. Cardinality(P) \in Nat /\ Cardinality(Q) \in Nat
      BY <3>3, <3>4, FS_CardinalityType
    <3>6. Cardinality(P) > Window
      BY <3>1 DEF P
    <3>7. Cardinality(Q) > Window
      BY <3>4, <3>5, <3>6, ConstantTypes
    <3> QED BY <3>7 DEF Q
  <2>7. ASSUME ~Crowded', NEW p \in DOMAIN log', log'[p].hash \in K, log'[p].at = c.at
        PROVE  log'[p].hash \in c.hashes
    <3>1. p \in 1..n
      BY <1>3, <1>5, <1>9, <2>2, <2>7
    <3> QED BY <1>2, <1>5, <2>1, <2>6, <2>7, <3>1
  <2>8. ASSUME NEW p \in 1..n, LateAt(p) PROVE LateAt(p)'
    <3>1. PICK q \in 1..(p - 1) : log[q].at > log[p].at
      BY <2>8 DEF LateAt
    <3>2. q \in 1..n
      BY <1>2, <3>1
    <3>3. log'[q].at > log'[p].at
      BY <1>5, <3>1, <3>2
    <3> QED BY <3>3 DEF LateAt
  <2>9. ASSUME NEW p \in DOMAIN log', NEW q \in DOMAIN log',
               q < p, log'[q].hash \in K, log'[p].at < c.at, ~LateAt(p)'
        PROVE  log'[p].hash \in K
    <3>1. q \in 1..n
      BY <1>3, <1>5, <1>9, <2>2, <2>9
    <3>2. CASE p \in 1..n
      BY <1>2, <1>5, <2>1, <2>8, <2>9, <3>1, <3>2
    <3>3. CASE p = n + 1
      <4>1. c.at > 0
        <5>1. l.at \in Nat /\ l.at > 0
          BY <1>3, ConstantTypes DEF Times
        <5>2. c.at \in Nat
          BY <1>12, ConstantTypes DEF RowInv, Rows, Cursors
        <5> QED BY <1>5, <2>9, <3>3, <5>1, <5>2
      <4>2. PICK r \in 1..n : log[r].at = c.at
        BY <1>2, <2>1, <4>1
      <4>3. r \in 1..(p - 1) /\ log'[r].at > log'[p].at
        BY <1>2, <1>5, <2>9, <3>3, <4>2
      <4>4. LateAt(p)'
        BY <4>3 DEF LateAt
      <4> QED BY <2>9, <4>4
    <3> QED BY <1>5, <1>9, <3>2, <3>3
  <2> QED BY <2>3, <2>4, <2>5, <2>7, <2>9 DEF Follows
<1>14. Same' <=> Same
  BY <1>6 DEF Same
<1>15. Same' => Follows(row.cursor, kept)'
  <2>1. row'.cursor = c /\ kept' = K
    BY <1>6, <1>12
  <2> QED BY <1>13, <1>14, <2>1 DEF Follows
<1>16. (\A p, q \in DOMAIN log : log[p].hash = log[q].hash => p = q)'
  BY <1>11
<1>17. LinesInv'
  BY <1>6, <1>15, <1>16 DEF LinesInv
<1> QED BY <1>7, <1>17

-----------------------------------------------------------------------------
(* Every step.                                                             *)

\* What a step must do: keep the invariant, store a heartbeat when it is due and
\* not before, and record no line of a container in sight again.
StepIsRight ==
  /\ SystemInv'
  /\ Has(news'.events, "heartbeat") => quiet = Heartbeat
  /\ news'.polled /\ row'.available => quiet' < Heartbeat
  /\ Same /\ ~Crowded => news'.lines \cap kept = {}

\* At first there is neither an event nor a line.
LEMMA SystemInit ==
  ASSUME Init
  PROVE  SystemInv
<1>1. /\ kind \in Kinds /\ unit \in Units /\ log = << >> /\ row = NoRow /\ quiet = 0 /\ kept = {}
      /\ told = [state |-> "never", unit |-> "none", phase |-> "unknown", sure |-> FALSE,
                 health |-> "unknown", oom |-> FALSE, high |-> {}]
  BY DEF Init
<1>2. MachineInv
  BY <1>1 DEF MachineInv
<1>3. NoCursor \in Cursors
  BY <1>2, NothingFollows
<1>4. /\ row.known = FALSE /\ row.available = FALSE /\ row.error = "none" /\ row.unit = "none"
      /\ row.state = "none" /\ row.health = "none" /\ row.oom = FALSE /\ row.high = {}
      /\ row.beat = 0 /\ row.cursor = NoCursor
  BY <1>1 DEF NoRow
<1>5. row \in Rows
  BY <1>1, <1>3, ConstantTypes DEF NoRow, Rows
<1>6. told \in Tellings
  BY <1>1 DEF Tellings
<1>7. told.state = "never" /\ told.health = "unknown" /\ quiet \in 0..Heartbeat
  BY <1>1, ConstantTypes
<1>8. EventsTellTheRow
  BY <1>4, <1>7 DEF EventsTellTheRow
<1>9. RowInv
  BY <1>4, <1>5, <1>6, <1>7, <1>8 DEF RowInv
<1>10. LinesInv
  <2>1. DOMAIN log = {}
    BY <1>1
  <2>2. ~Same
    BY <1>4 DEF Same
  <2> QED BY <1>1, <2>1, <2>2 DEF LinesInv
<1> QED BY <1>2, <1>9, <1>10 DEF SystemInv

\* A failing poll forgets the cursor with what was recorded.
LEMMA UnavailableIsRight ==
  ASSUME SystemInv, Unavailable
  PROVE  StepIsRight
<1>1. MachineInv /\ RowInv /\ LinesInv
  BY DEF SystemInv
<1>2. /\ RowInv' /\ ~row'.available
      /\ news'.lines = {} /\ ~Has(news'.events, "heartbeat")
  BY <1>1, UnavailableStep
<1>3. kept' = {} /\ kind' = kind /\ unit' = unit /\ log' = log
  BY DEF Unavailable, engine
<1>4. ~Same'
  BY <1>2 DEF Same
<1>5. LinesInv'
  BY <1>1, <1>2, <1>3, <1>4, LinesStay
<1>6. MachineInv'
  BY <1>1, <1>3 DEF MachineInv
<1> QED BY <1>2, <1>5, <1>6 DEF SystemInv, StepIsRight

\* A poll that reads no lines keeps the cursor that goes with what is kept.
LEMMA PollIsRight ==
  ASSUME SystemInv, NEW s \in SnapshotType, kind = "process" => ~s.oom,
         NEW changes, Reports(changes, s), \A e \in changes : e.type \notin Measures,
         NEW c \in Cursors, c # NoCursor => kind = "docker_logs",
         Available(s, changes, {}, c), UNCHANGED engine,
         NEW K \in SUBSET Lines, kept' = K, kind # "docker_logs" => K = {}, Follows(c, K)
  PROVE  StepIsRight
<1>1. MachineInv /\ RowInv /\ LinesInv
  BY DEF SystemInv
<1>2. kind' = kind /\ unit' = unit /\ log' = log
  BY DEF engine
<1>3. /\ RowInv' /\ row'.cursor = c /\ news'.lines = {}
      /\ Has(news'.events, "heartbeat") => quiet = Heartbeat
      /\ quiet' < Heartbeat
  BY <1>1, <1>2, AvailableStep
<1>4. LinesInv'
  BY <1>1, <1>2, <1>3, LinesStay
<1>5. MachineInv'
  BY <1>1, <1>2 DEF MachineInv
<1> QED BY <1>3, <1>4, <1>5 DEF SystemInv, StepIsRight

\* Only a source with a log has recorded lines.
LEMMA ProcessAvailableIsRight ==
  ASSUME SystemInv, ProcessAvailable
  PROVE  StepIsRight
<1>1. kind = "process" /\ UNCHANGED <<engine, kept>>
  BY DEF ProcessAvailable
<1>2. PICK s \in Snapshots[kind] : Available(s, ProcessEvents(s), {}, NoCursor)
  BY DEF ProcessAvailable
<1>3. s \in SnapshotType /\ ~s.oom
  BY <1>1, <1>2, ConstantTypes DEF Kinds
<1>4. Reports(ProcessEvents(s), s) /\ \A e \in ProcessEvents(s) : e.type \notin Measures
  BY <1>1, <1>3, ProcessReports
<1>5. NoCursor \in Cursors /\ Follows(NoCursor, {})
  BY NothingFollows DEF SystemInv
<1>6. kept' = {}
  BY <1>1 DEF SystemInv, LinesInv
<1> QED BY <1>1, <1>2, <1>3, <1>4, <1>5, <1>6, PollIsRight

\* The same for a container whose log is not read.
LEMMA DockerAvailableIsRight ==
  ASSUME SystemInv, DockerAvailable
  PROVE  StepIsRight
<1>1. kind = "docker" /\ kind # "process" /\ UNCHANGED <<engine, kept>>
  BY DEF DockerAvailable
<1>2. PICK s \in Snapshots[kind], grown \in BOOLEAN :
        Available(s, DockerEvents(s, grown), {}, NoCursor)
  BY DEF DockerAvailable
<1>3. s \in SnapshotType
  BY <1>1, <1>2, ConstantTypes DEF Kinds
<1>4. PICK X \in SUBSET {[type |-> "logs.unavailable"]} : X = {}
  OBVIOUS
<1>5. DockerEvents(s, grown) \cup X = DockerEvents(s, grown)
  BY <1>4
<1>6. /\ Reports(DockerEvents(s, grown), s)
      /\ \A e \in DockerEvents(s, grown) : e.type \notin Measures
  BY <1>1, <1>3, <1>5, DockerReports
<1>7. NoCursor \in Cursors /\ Follows(NoCursor, {})
  BY NothingFollows DEF SystemInv
<1>8. kept' = {}
  BY <1>1 DEF SystemInv, LinesInv
<1> QED BY <1>1, <1>2, <1>3, <1>6, <1>7, <1>8, PollIsRight

\* A log that cannot be read leaves the cursor where it was.
LEMMA LogsFailIsRight ==
  ASSUME SystemInv, LogsFail
  PROVE  StepIsRight
<1>1. /\ kind = "docker_logs" /\ kind # "process" /\ UNCHANGED engine
      /\ kept' = IF Same THEN kept ELSE {}
  BY DEF LogsFail
<1>2. PICK s \in Snapshots[kind], grown \in BOOLEAN :
        Available(s, DockerEvents(s, grown) \cup { [type |-> "logs.unavailable"] }, {},
                  PreviousCursor)
  BY DEF LogsFail
<1>3. s \in SnapshotType
  BY <1>1, <1>2, ConstantTypes DEF Kinds
<1>4. PICK changes : changes = DockerEvents(s, grown) \cup { [type |-> "logs.unavailable"] }
  OBVIOUS
<1>5. Reports(changes, s) /\ \A e \in changes : e.type \notin Measures
  BY <1>1, <1>3, <1>4, DockerReports
<1>6. PICK c, K : c = PreviousCursor /\ K = IF Same THEN kept ELSE {}
  OBVIOUS
<1>7. c \in Cursors /\ K \in SUBSET Lines /\ Follows(c, K)
  BY <1>6, PreviousFollows DEF SystemInv
<1>8. Available(s, changes, {}, c)
  BY <1>2, <1>4, <1>6
<1>9. kept' = K
  BY <1>1, <1>6
<1> QED BY <1>1, <1>3, <1>5, <1>7, <1>8, <1>9, PollIsRight

\* What is read was not recorded, and the cursor follows it.
LEMMA LogsReadIsRight ==
  ASSUME SystemInv, LogsRead
  PROVE  StepIsRight
<1>1. PICK c, K : c = PreviousCursor /\ K = IF Same THEN kept ELSE {}
  OBVIOUS
<1>2. PICK b : b = Batch(c)
  OBVIOUS
<1>3. PICK T, d, R : /\ T = Taken(b) /\ d = [at |-> b.at, hashes |-> LastHashes(b.hashes)]
                     /\ R = K \cup T
  OBVIOUS
<1>4. /\ kind = "docker_logs" /\ kind # "process" /\ UNCHANGED engine
      /\ kept' = R
  BY <1>1, <1>2, <1>3 DEF LogsRead, Taken
<1>5. PICK s \in Snapshots[kind], grown \in BOOLEAN :
        Available(s, DockerEvents(s, grown), T, d)
  BY <1>1, <1>2, <1>3 DEF LogsRead, Taken
<1>6. s \in SnapshotType
  BY <1>4, <1>5, ConstantTypes DEF Kinds
<1>7. PICK X \in SUBSET {[type |-> "logs.unavailable"]} : X = {}
  OBVIOUS
<1>8. DockerEvents(s, grown) \cup X = DockerEvents(s, grown)
  BY <1>7
<1>9. /\ Reports(DockerEvents(s, grown), s)
      /\ \A e \in DockerEvents(s, grown) : e.type \notin Measures
  BY <1>4, <1>6, <1>8, DockerReports
<1>10. MachineInv /\ RowInv /\ LinesInv
  BY DEF SystemInv
<1>11. c \in Cursors /\ K \in SUBSET Lines /\ Follows(c, K)
  BY <1>1, <1>10, PreviousFollows
<1>12. /\ d \in Cursors /\ T \in SUBSET Lines
       /\ ~Crowded => T \cap K = {}
       /\ Follows(d, R)
  BY <1>2, <1>3, <1>10, <1>11, BatchFollows DEF LinesInv
<1>13. kind' = kind /\ unit' = unit /\ log' = log
  BY <1>4 DEF engine
<1>14. /\ RowInv' /\ row'.cursor = d /\ news'.lines = T
       /\ Has(news'.events, "heartbeat") => quiet = Heartbeat
       /\ quiet' < Heartbeat
  BY <1>4, <1>5, <1>6, <1>9, <1>10, <1>12, <1>13, AvailableStep
<1>15. R \in SUBSET Lines
  BY <1>3, <1>11, <1>12
<1>16. LinesInv'
  BY <1>4, <1>10, <1>12, <1>13, <1>14, <1>15, LinesStay
<1>17. MachineInv'
  BY <1>10, <1>13 DEF MachineInv
<1>18. Same => K = kept
  BY <1>1
<1> QED BY <1>12, <1>14, <1>16, <1>17, <1>18 DEF SystemInv, StepIsRight

\* Nothing is known of a container that takes another's place.
LEMMA ReplacedIsRight ==
  ASSUME SystemInv, Replaced
  PROVE  StepIsRight
<1>1. /\ unit' \in Units /\ unit' # row.unit /\ log' = << >> /\ news' = NoNews
      /\ kind' = kind /\ row' = row /\ told' = told /\ quiet' = quiet /\ kept' = kept
  BY DEF Replaced
<1>2. MachineInv'
  BY <1>1 DEF SystemInv, MachineInv
<1>3. RowInv'
  BY <1>1 DEF SystemInv, RowInv, EventsTellTheRow
<1>4. ~Same'
  BY <1>1 DEF Same
<1>5. DOMAIN log' = {}
  BY <1>1
<1>6. LinesInv'
  BY <1>1, <1>4, <1>5 DEF SystemInv, LinesInv
<1>7. news'.polled = FALSE /\ news'.lines = {} /\ ~Has(news'.events, "heartbeat")
  BY <1>1 DEF NoNews, Has
<1> QED BY <1>2, <1>3, <1>6, <1>7 DEF SystemInv, StepIsRight

\* A line more disturbs the log's part only.
LEMMA LineWrittenIsRight ==
  ASSUME SystemInv, LineWritten
  PROVE  StepIsRight
<1>1. MachineInv' /\ LinesInv'
  BY LineWrittenStep DEF SystemInv
<1>2. /\ kind' = kind /\ row' = row /\ told' = told /\ quiet' = quiet /\ news' = NoNews
  BY DEF LineWritten
<1>3. RowInv'
  BY <1>2 DEF SystemInv, RowInv, EventsTellTheRow
<1>4. news'.polled = FALSE /\ news'.lines = {} /\ ~Has(news'.events, "heartbeat")
  BY <1>2 DEF NoNews, Has
<1> QED BY <1>1, <1>3, <1>4 DEF SystemInv, StepIsRight

\* Time disturbs the row's part only.
LEMMA TickIsRight ==
  ASSUME SystemInv, Tick
  PROVE  StepIsRight
<1>1. MachineInv /\ RowInv /\ LinesInv
  BY DEF SystemInv
<1>2. /\ RowInv' /\ row'.available = row.available /\ row'.unit = row.unit
      /\ row'.cursor = row.cursor
  BY <1>1, TickStep
<1>3. kind' = kind /\ unit' = unit /\ log' = log /\ kept' = kept /\ news' = NoNews
  BY DEF Tick, engine
<1>4. Same' => Same
  BY <1>2, <1>3 DEF Same
<1>5. PICK c, K : c = row.cursor /\ K = kept
  OBVIOUS
<1>6. /\ K \in SUBSET Lines /\ kept' = K /\ row'.cursor = c
      /\ kind # "docker_logs" => K = {}
      /\ Same' => Follows(c, K)
  BY <1>1, <1>2, <1>3, <1>4, <1>5 DEF LinesInv
<1>7. LinesInv'
  BY <1>1, <1>3, <1>6, LinesStay
<1>8. MachineInv'
  BY <1>1, <1>3 DEF MachineInv
<1>9. news'.polled = FALSE /\ news'.lines = {} /\ ~Has(news'.events, "heartbeat")
  BY <1>3 DEF NoNews, Has
<1> QED BY <1>2, <1>7, <1>8, <1>9 DEF SystemInv, StepIsRight

\* Every step of the machine and of the observer.
LEMMA NextIsRight ==
  ASSUME SystemInv, Next
  PROVE  StepIsRight
  BY UnavailableIsRight, ProcessAvailableIsRight, DockerAvailableIsRight, LogsReadIsRight,
     LogsFailIsRight, ReplacedIsRight, LineWrittenIsRight, TickIsRight DEF Next

\* Nothing changes when nothing happens.
LEMMA SystemStutters ==
  ASSUME SystemInv, UNCHANGED vars
  PROVE  SystemInv'
<1>1. /\ kind' = kind /\ unit' = unit /\ log' = log /\ row' = row /\ told' = told
      /\ quiet' = quiet /\ kept' = kept
  BY DEF vars, engine
<1>2. MachineInv'
  BY <1>1 DEF SystemInv, MachineInv
<1>3. RowInv'
  BY <1>1 DEF SystemInv, RowInv, EventsTellTheRow
<1>4. LinesInv'
  BY <1>1 DEF SystemInv, LinesInv, Same, Follows, Crowded, LateAt
<1> QED BY <1>2, <1>3, <1>4 DEF SystemInv

-----------------------------------------------------------------------------
(* The theorems.                                                           *)

\* The invariant holds in every reachable state.
THEOREM SystemAlwaysInv == Spec => []SystemInv
<1>1. Init => SystemInv
  BY SystemInit
<1>2. SystemInv /\ [Next]_vars => SystemInv'
  BY NextIsRight, SystemStutters DEF StepIsRight
<1> QED BY <1>1, <1>2, PTL DEF Spec

\* Every variable keeps its type, and only a source that is followed has a cursor:
\* no outage and no kind of source without a log leaves one behind.
THEOREM TypesKept == Spec => []TypeOK
<1>1. SystemInv => TypeOK
  <2> SUFFICES ASSUME SystemInv PROVE TypeOK
    OBVIOUS
  <2>1. kind \in Kinds /\ unit \in Units /\ log \in Seq([at : Times, hash : Lines])
    BY DEF SystemInv, MachineInv, LogLines
  <2>2. /\ row \in Rows /\ told \in Tellings /\ quiet \in 0..Heartbeat
        /\ row.cursor # NoCursor => row.available /\ kind = "docker_logs"
    BY DEF SystemInv, RowInv
  <2>3. row \in [known : BOOLEAN, available : BOOLEAN, error : Errors \cup {"none"},
                 unit : Units \cup {"none"}, state : States \cup {"none"}, health : Healths,
                 oom : BOOLEAN, high : SUBSET Resources, beat : 0..Heartbeat,
                 cursor : [at : 0..MaxTime, hashes : SUBSET Lines]]
    BY <2>2 DEF Rows, Cursors
  <2>4. told \in [state : {"never", "up"} \cup Errors, unit : Units \cup {"none"},
                  phase : States \cup {"unknown"}, sure : BOOLEAN,
                  health : Healths \cup {"unknown"}, oom : BOOLEAN, high : SUBSET Resources]
    BY <2>2 DEF Tellings
  <2>5. kept \subseteq Lines
    BY DEF SystemInv, LinesInv
  <2> QED BY <2>1, <2>2, <2>3, <2>4, <2>5 DEF TypeOK
<1> QED BY <1>1, SystemAlwaysInv, PTL

\* Whoever reads only the stored events knows what the row says, through restarts,
\* outages of any kind and polls that see different containers.
THEOREM EventsTellAll == Spec => []EventsTellTheRow
<1>1. SystemInv => EventsTellTheRow
  BY DEF SystemInv, RowInv
<1> QED BY <1>1, SystemAlwaysInv, PTL

\* The log cursor moves past no line that was written in time, whatever the limit of
\* a poll, equal timestamps and failing reads.
THEOREM LogsAreComplete == Spec => []NoLineIsSkipped
<1>1. SystemInv => NoLineIsSkipped
  BY DEF SystemInv, LinesInv, NoLineIsSkipped, Following, Follows
<1> QED BY <1>1, SystemAlwaysInv, PTL

\* No line of a container in sight is recorded twice, as long as those of one
\* timestamp fit into the cursor.
THEOREM LogsHaveNoRepeats == Spec => LinesOnce
<1>1. SystemInv /\ [Next]_vars
        => [Same /\ ~Crowded => news'.lines \cap kept = {}]_vars
  BY NextIsRight DEF StepIsRight
<1> QED BY <1>1, SystemAlwaysInv, PTL DEF Spec, LinesOnce

\* A source that is there is heard of within heartbeat_seconds, and a heartbeat is
\* stored only when it has been silent for as long.
THEOREM SilenceIsFilled == Spec => HeartbeatsFillSilence
<1>1. SystemInv /\ [Next]_vars
        => [ /\ Has(news'.events, "heartbeat") => quiet = Heartbeat
             /\ news'.polled /\ row'.available => quiet' < Heartbeat ]_vars
  BY NextIsRight DEF StepIsRight
<1> QED BY <1>1, SystemAlwaysInv, PTL DEF Spec, HeartbeatsFillSilence

=============================================================================
