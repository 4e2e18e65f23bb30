------------------------ MODULE KnowledgeIndexProofs ------------------------
(***************************************************************************)
(* Theorems about KnowledgeIndex, for any paths, documents, processes and  *)
(* limits.  The invariant says of a rebuild under way that its tables tell *)
(* the files read so far, which come before all it has still to read, that *)
(* no other rebuild is under way, and that what it has read is no older    *)
(* than the committed index.                                               *)
(***************************************************************************)
EXTENDS KnowledgeIndex, WellFoundedInduction, TLAPS

\* The contents of files.
Contents == Documents \cup {Absent}

\* What the assumption says of each constant.
LEMMA ConstantTypes ==
  /\ Paths \in Nat /\ MaxEdits \in Nat /\ Limit \in Nat
  /\ \A d \in Documents : d \in Entries \/ d = Malformed
  BY KnowledgeAssumption

\* What a document and a missing file are told apart by.
LEMMA ContentTypes ==
  /\ \A d \in Documents : ~d.absent /\ d.valid \in BOOLEAN
  /\ \A d \in Documents : d.valid => d \in Entries /\ d # Malformed
  /\ Absent.absent /\ ~Absent.valid
<1>1. ASSUME NEW d \in Entries
      PROVE  d.absent = FALSE /\ d.valid = TRUE
  BY <1>1 DEF Entries
<1>2. Malformed.absent = FALSE /\ Malformed.valid = FALSE
  BY DEF Malformed
<1>3. Absent.absent /\ ~Absent.valid
  BY DEF Absent
<1> QED BY <1>1, <1>2, <1>3, ConstantTypes

\* Of a set of files one comes first.
LEMMA LeastFile ==
  ASSUME NEW F \in SUBSET Files, F # {}
  PROVE  \E p \in F : \A q \in F : p <= q
<1>1. F \subseteq Nat
  BY ConstantTypes DEF Files
<1> DEFINE Less == OpToRel(<, Nat)
<1>2. \A x, y \in Nat : x < y => <<x, y>> \in Less
  BY DEF OpToRel
<1>3. IsWellFoundedOn(Less, Nat)
  BY NatLessThanWellFounded
<1> HIDE DEF Less
<1>4. PICK p \in F : \A q \in F : <<q, p>> \notin Less
  BY <1>1, <1>3, WFMin
<1>5. \A q \in F : ~(q < p)
  BY <1>1, <1>2, <1>4
<1>6. \A q \in F : p <= q
  BY <1>1, <1>5
<1> QED BY <1>6

-----------------------------------------------------------------------------
(* One file more.                                                          *)

\* What the rows of a set of files are.
EntriesOf(files)       == { [path |-> p, doc |-> files[p]] : p \in Firsts(files) }
FingerprintsOf(d)      == { <<d.id, f>> : f \in Distinct(d.fingerprints) }
AllFingerprints(files) == UNION { FingerprintsOf(files[p]) : p \in Firsts(files) }

\* The tables after a file.
Reading(t, p, d, n) == [Insert(t, p, d) EXCEPT !.basis[p] = d, !.age[p] = n]

\* A document is inserted.
New(t, d) == d.valid /\ d.id \notin Identifiers(t)

\* What a file adds to each table.
Grown(t, u, p, d, n) ==
  /\ u \in Tables
  /\ u.basis = [t.basis EXCEPT ![p] = d]
  /\ u.age = [t.age EXCEPT ![p] = n]
  /\ u.entries = IF New(t, d) THEN t.entries \cup {[path |-> p, doc |-> d]} ELSE t.entries
  /\ u.fingerprints = IF New(t, d) THEN t.fingerprints \cup FingerprintsOf(d)
                                   ELSE t.fingerprints
  /\ u.quarantine = IF New(t, d) /\ ~Repeats(d.fingerprints) THEN t.quarantine
                                                             ELSE t.quarantine \cup {p}

\* Reading a file adds that and no more.
LEMMA ReadingGrows ==
  ASSUME NEW t \in Tables, NEW p \in Files, NEW d \in Documents, NEW n \in 0..MaxEdits
  PROVE  Grown(t, Reading(t, p, d, n), p, d, n)
<1> DEFINE u == Reading(t, p, d, n)
<1> SUFFICES Grown(t, u, p, d, n)
  OBVIOUS
<1> USE DEF Grown
<1>1. CASE ~New(t, d)
  BY <1>1 DEF New, Reading, Insert, Quarantine, Tables
<1>2. CASE New(t, d)
  <2> DEFINE fs == FingerprintsOf(d)
             e  == [path |-> p, doc |-> d]
             v  == [t EXCEPT !.entries = @ \cup {e}, !.fingerprints = @ \cup fs]
  <2>1. fs \in SUBSET (Nat \X Nat)
    <3>1. d.id \in Nat /\ d.fingerprints \in Seq(Nat)
      BY <1>2, ContentTypes DEF New, Entries
    <3> QED BY <3>1 DEF Distinct, FingerprintsOf
  <2>2. e \in [path : Files, doc : Documents \ {Malformed}]
    BY <1>2, ContentTypes DEF New
  <2>3. u = [(IF Repeats(d.fingerprints) THEN Quarantine(v, p) ELSE v)
               EXCEPT !.basis[p] = d, !.age[p] = n]
    BY <1>2 DEF New, Reading, Insert, FingerprintsOf
  <2> HIDE DEF e, fs
  <2>4. /\ v \in Tables
        /\ v.basis = t.basis /\ v.age = t.age /\ v.quarantine = t.quarantine
        /\ v.entries = t.entries \cup {e} /\ v.fingerprints = t.fingerprints \cup fs
    BY <2>1, <2>2 DEF Tables
  <2> HIDE DEF v
  <2> DEFINE w == IF Repeats(d.fingerprints) THEN Quarantine(v, p) ELSE v
  <2>5. /\ w \in Tables
        /\ w.basis = v.basis /\ w.age = v.age
        /\ w.entries = v.entries /\ w.fingerprints = v.fingerprints
        /\ w.quarantine = IF Repeats(d.fingerprints) THEN v.quarantine \cup {p}
                                                     ELSE v.quarantine
    BY <2>4 DEF Tables, Quarantine
  <2>6. u = [w EXCEPT !.basis[p] = d, !.age[p] = n]
    BY <2>3
  <2> HIDE DEF w
  <2>7. /\ u \in Tables
        /\ u.basis = [w.basis EXCEPT ![p] = d] /\ u.age = [w.age EXCEPT ![p] = n]
        /\ u.entries = w.entries /\ u.fingerprints = w.fingerprints
        /\ u.quarantine = w.quarantine
    <3> DEFINE B == [w.basis EXCEPT ![p] = d]
               A == [w.age EXCEPT ![p] = n]
    <3>1. u = [w EXCEPT !.basis = B, !.age = A]
      BY <2>5, <2>6 DEF Tables
    <3>2. B \in [Files -> Documents \cup {Absent}] /\ A \in [Files -> 0..MaxEdits]
      BY <2>5 DEF Tables
    <3> HIDE DEF A, B
    <3>3. /\ u \in Tables /\ u.basis = B /\ u.age = A
          /\ u.entries = w.entries /\ u.fingerprints = w.fingerprints
          /\ u.quarantine = w.quarantine
      BY <2>5, <3>1, <3>2 DEF Tables
    <3> QED BY <3>3 DEF A, B
  <2>8. u.quarantine = IF Repeats(d.fingerprints) THEN t.quarantine \cup {p}
                                                  ELSE t.quarantine
    BY <2>4, <2>5, <2>7
  <2>9. u.entries = t.entries \cup {e} /\ u.fingerprints = t.fingerprints \cup fs
    BY <2>4, <2>5, <2>7
  <2>10. u.basis = [t.basis EXCEPT ![p] = d] /\ u.age = [t.age EXCEPT ![p] = n]
    BY <2>4, <2>5, <2>7
  <2> QED BY <1>2, <2>7, <2>8, <2>9, <2>10 DEF e, fs
<1> QED BY <1>1, <1>2

\* Each valid file shares its identifier with one that comes first.
Covered(files) ==
  \A q \in Valid(files) : \E r \in Firsts(files) : files[r].id = files[q].id

\* No file of the document's identifier comes first.
Untaken(files, d) == d.valid /\ \A r \in Firsts(files) : files[r].id # d.id

\* A file after all others is indexed unless its identifier is taken.
FirstsGrown(files, g, p, d) ==
  /\ Firsts(g) = IF Untaken(files, d) THEN Firsts(files) \cup {p} ELSE Firsts(files)
  /\ p \notin Firsts(files)
  /\ Covered(g)

\* The first files of an identifier stay so when a later file is read.
LEMMA FirstsGrow ==
  ASSUME NEW files \in [Files -> Contents], Covered(files),
         NEW p \in Files, \A q \in Files : ~files[q].absent => q < p,
         NEW d \in Documents, NEW g, g = [files EXCEPT ![p] = d]
  PROVE  FirstsGrown(files, g, p, d)
<1> USE DEF FirstsGrown
<1>1. \A q \in Valid(files) : q \in Files /\ q < p
  BY ContentTypes DEF Valid, Contents
<1>2. p \in Nat /\ \A q \in Files : q \in Nat
  BY ConstantTypes DEF Files
<1>3. p \notin Valid(files)
  BY <1>1, <1>2
<1>4. Valid(g) = IF d.valid THEN Valid(files) \cup {p} ELSE Valid(files)
  BY <1>3 DEF Valid
<1>5. g[p] = d /\ \A q \in Valid(files) : g[q] = files[q]
  BY <1>1, <1>3
<1>6. CASE ~d.valid
  <2>1. Valid(g) = Valid(files)
    BY <1>4, <1>6
  <2>2. Firsts(g) = Firsts(files)
    BY <1>5, <2>1 DEF Firsts
  <2>3. Firsts(files) \subseteq Valid(files)
    BY DEF Firsts
  <2>4. ~Untaken(files, d)
    BY <1>6 DEF Untaken
  <2>5. Covered(g)
    BY <1>5, <2>1, <2>2, <2>3 DEF Covered
  <2> QED BY <1>3, <2>2, <2>3, <2>4, <2>5
<1>7. CASE d.valid
  <2>1. Valid(g) = Valid(files) \cup {p}
    BY <1>4, <1>7
  <2>2. Firsts(files) \subseteq Valid(files)
    BY DEF Firsts
  <2>3. ASSUME NEW q \in Valid(files) PROVE q \in Firsts(g) <=> q \in Firsts(files)
    <3>1. ~(p < q)
      <4>1. q \in Nat /\ p \in Nat /\ q < p
        BY <1>1, <1>2
      <4> QED BY <4>1
    <3>2. q \in Firsts(g) <=> \A x \in Valid(g) : x < q => g[x].id # g[q].id
      BY <2>1 DEF Firsts
    <3>3. q \in Firsts(files) <=> \A x \in Valid(files) : x < q => files[x].id # files[q].id
      BY DEF Firsts
    <3> QED BY <1>5, <2>1, <3>1, <3>2, <3>3
  <2>4. p \in Firsts(g) <=> \A q \in Valid(files) : files[q].id # d.id
    <3>1. ~(p < p)
      BY <1>2
    <3>2. p \in Firsts(g) <=> \A x \in Valid(g) : x < p => g[x].id # g[p].id
      BY <2>1 DEF Firsts
    <3> QED BY <1>1, <1>5, <2>1, <3>1, <3>2
  <2>5. p \in Firsts(g) <=> Untaken(files, d)
    BY <1>7, <2>2, <2>4 DEF Covered, Untaken
  <2>6. Firsts(g) = IF Untaken(files, d) THEN Firsts(files) \cup {p} ELSE Firsts(files)
    <3>1. Firsts(g) \subseteq Valid(files) \cup {p}
      BY <2>1 DEF Firsts
    <3>2. \A q : q \in Firsts(g) <=> q \in Firsts(files) \/ (q = p /\ Untaken(files, d))
      BY <1>3, <2>2, <2>3, <2>5, <3>1
    <3>3. CASE Untaken(files, d)
      BY <3>2, <3>3
    <3>4. CASE ~Untaken(files, d)
      BY <3>2, <3>4
    <3> QED BY <3>3, <3>4
  <2>7. Covered(g)
    <3> SUFFICES ASSUME NEW q \in Valid(g)
                 PROVE  \E r \in Firsts(g) : g[r].id = g[q].id
      BY DEF Covered
    <3>1. CASE q \in Valid(files)
      <4>1. PICK r \in Firsts(files) : files[r].id = files[q].id
        BY <3>1 DEF Covered
      <4>2. r \in Firsts(g) /\ g[r] = files[r] /\ g[q] = files[q]
        BY <1>5, <2>2, <2>6, <3>1, <4>1
      <4> QED BY <4>1, <4>2
    <3>2. CASE q = p
      <4>1. CASE Untaken(files, d)
        BY <2>5, <3>2, <4>1
      <4>2. CASE ~Untaken(files, d)
        <5>1. PICK r \in Firsts(files) : files[r].id = d.id
          BY <1>7, <4>2 DEF Untaken
        <5>2. r \in Firsts(g) /\ g[r] = files[r] /\ g[q] = d
          BY <1>5, <2>2, <2>6, <3>2, <4>2, <5>1
        <5> QED BY <5>1, <5>2
      <4> QED BY <4>1, <4>2
    <3> QED BY <2>1, <3>1, <3>2
  <2> QED BY <1>3, <2>2, <2>6, <2>7
<1> QED BY <1>6, <1>7

\* One file more keeps the tables true to the files.
LEMMA ReadingTells ==
  ASSUME NEW t \in Tables, Tells(t), Covered(t.basis),
         NEW p \in Files, \A q \in Files : ~t.basis[q].absent => q < p,
         NEW d \in Documents, NEW n \in 0..MaxEdits,
         NEW u, u = Reading(t, p, d, n)
  PROVE  u \in Tables /\ Tells(u) /\ Covered(u.basis)
<1> DEFINE files == t.basis
           g     == u.basis
           new   == New(t, d)
           e     == [path |-> p, doc |-> d]
<1>1. files \in [Files -> Contents]
  BY DEF Tables, Contents
<1>2. /\ u \in Tables
      /\ g = [files EXCEPT ![p] = d]
      /\ u.entries = IF new THEN t.entries \cup {e} ELSE t.entries
      /\ u.fingerprints = IF new THEN t.fingerprints \cup FingerprintsOf(d) ELSE t.fingerprints
      /\ u.quarantine = IF new /\ ~Repeats(d.fingerprints) THEN t.quarantine
                                                           ELSE t.quarantine \cup {p}
  <2>1. Grown(t, u, p, d, n)
    BY ReadingGrows
  <2> QED BY <2>1 DEF Grown
<1>3. t.entries = EntriesOf(files) /\ t.fingerprints = AllFingerprints(files)
  BY DEF Tells, EntriesOf, AllFingerprints, FingerprintsOf
<1>4. \A r \in Firsts(files) : \E x \in t.entries : x.doc = files[r]
  <2> SUFFICES ASSUME NEW r \in Firsts(files)
               PROVE  \E x \in t.entries : x.doc = files[r]
    OBVIOUS
  <2>1. [path |-> r, doc |-> files[r]] \in t.entries
    BY <1>3 DEF EntriesOf
  <2> QED BY <2>1
<1>5. \A x \in t.entries : \E r \in Firsts(files) : x.doc = files[r]
  BY <1>3 DEF EntriesOf
<1>6. /\ Firsts(g) = IF new THEN Firsts(files) \cup {p} ELSE Firsts(files)
      /\ p \notin Firsts(files)
      /\ Covered(g)
  <2>1. new <=> Untaken(files, d)
    BY <1>4, <1>5 DEF New, Untaken, Identifiers
  <2>2. Covered(files) /\ \A q \in Files : ~files[q].absent => q < p
    OBVIOUS
  <2>3. FirstsGrown(files, g, p, d)
    <3> HIDE DEF files, g, new
    <3> QED BY <1>1, <1>2, <2>2, FirstsGrow
  <2> QED BY <2>1, <2>3 DEF FirstsGrown
<1>7. g[p] = d /\ \A q \in Files \ {p} : g[q] = files[q]
  BY <1>1, <1>2
<1>8. Firsts(files) \subseteq Files
  BY DEF Firsts, Valid
<1>9. \A q \in Firsts(files) : g[q] = files[q]
  BY <1>6, <1>7, <1>8
<1>10. u.entries = EntriesOf(g)
  <2>1. CASE new
    BY <1>2, <1>3, <1>6, <1>7, <1>9, <2>1 DEF EntriesOf
  <2>2. CASE ~new
    BY <1>2, <1>3, <1>6, <1>9, <2>2 DEF EntriesOf
  <2> QED BY <2>1, <2>2
<1>11. u.fingerprints = AllFingerprints(g)
  <2>1. CASE new
    <3>1. AllFingerprints(g) = AllFingerprints(files) \cup FingerprintsOf(d)
      <4> HIDE DEF files, g, new
      <4> QED BY <1>6, <1>7, <1>9, <2>1 DEF AllFingerprints
    <3> QED BY <1>2, <1>3, <2>1, <3>1
  <2>2. CASE ~new
    <3>1. AllFingerprints(g) = AllFingerprints(files)
      <4> HIDE DEF files, g, new
      <4> QED BY <1>6, <1>9, <2>2 DEF AllFingerprints
    <3> QED BY <1>2, <1>3, <2>2, <3>1
  <2> QED BY <2>1, <2>2
<1>12. { x.path : x \in u.entries } \cup u.quarantine = { q \in Files : ~g[q].absent }
  <2>1. { x.path : x \in t.entries } \cup t.quarantine = { q \in Files : ~files[q].absent }
    BY DEF Tells
  <2>2. { q \in Files : ~g[q].absent } = { q \in Files : ~files[q].absent } \cup {p}
    BY <1>7, ContentTypes
  <2>3. { x.path : x \in t.entries \cup {e} } = { x.path : x \in t.entries } \cup {p}
    <3>1. e.path = p
      OBVIOUS
    <3> HIDE DEF e
    <3> QED BY <3>1
  <2> HIDE DEF files, g, new, e
  <2> QED BY <1>2, <2>1, <2>2, <2>3
<1>13. \A x \in u.entries : x.path \in u.quarantine => Repeats(x.doc.fingerprints)
  <2>1. \A x \in t.entries : x.path # p
    BY <1>3, <1>6 DEF EntriesOf
  <2>2. \A x \in t.entries : x.path \in t.quarantine => Repeats(x.doc.fingerprints)
    BY DEF Tells
  <2>3. p \notin t.quarantine
    <3>1. t.quarantine \subseteq { q \in Files : ~files[q].absent }
      BY DEF Tells
    <3>2. p \in Nat
      BY ConstantTypes DEF Files
    <3> QED BY <3>1, <3>2
  <2>4. e.path = p /\ e.doc = d
    OBVIOUS
  <2> HIDE DEF files, g, new, e
  <2> QED BY <1>2, <2>1, <2>2, <2>3, <2>4
<1> QED BY <1>2, <1>6, <1>10, <1>11, <1>12, <1>13
        DEF Tells, EntriesOf, AllFingerprints, FingerprintsOf

-----------------------------------------------------------------------------
(* The invariant.                                                          *)

Sound(t) == t \in Tables /\ Tells(t) /\ Covered(t.basis)

\* What has been read comes before what has not.
Ordered ==
  \A b \in building : \A p \in Files, q \in todo[b] :
    ~draft[b].basis[p].absent => p < q

\* Nothing is read from the future, nor older than the committed index.
Fresh ==
  /\ \A p \in Files : index.age[p] <= edits[p]
  /\ \A b \in building, p \in Files :
       index.age[p] <= draft[b].age[p] /\ draft[b].age[p] <= edits[p]

\* Until a rebuild commits, a match has what the index says.
Told ==
  \A r \in Readers : pc[r] # "idle" /\ ~moved[r] =>
    /\ exact[r] = ExactIn(index)
    /\ pc[r] = "text" => asks[r]
    /\ pc[r] = "entries" => text[r] = IF asks[r] THEN TextIn(index) ELSE {}

Tabled == Sound(index) /\ \A b \in Builders : Sound(draft[b])

Alone == \A a, b \in building : a = b

IInv == TypeOK /\ Tabled /\ Alone /\ Ordered /\ Fresh /\ Told

\* The tables of a rebuild that has read nothing tell so.
LEMMA ClearedSound ==
  ASSUME NEW ages \in [Files -> 0..MaxEdits]
  PROVE  /\ Sound([Cleared EXCEPT !.age = ages])
         /\ [Cleared EXCEPT !.age = ages].age = ages
         /\ \A p \in Files : [Cleared EXCEPT !.age = ages].basis[p].absent
<1> DEFINE none == [p \in Files |-> Absent]
           t    == [Cleared EXCEPT !.age = ages]
<1>1. /\ t.entries = {} /\ t.fingerprints = {} /\ t.quarantine = {}
      /\ t.basis = none /\ t.age = ages
  BY DEF Cleared, NoTables
<1>2. t \in Tables
  BY DEF Cleared, NoTables, Tables
<1>3. Valid(none) = {} /\ Firsts(none) = {}
  BY ContentTypes DEF Valid, Firsts
<1>4. \A p \in Files : none[p].absent
  BY ContentTypes
<1> HIDE DEF none, t
<1>5. Covered(t.basis)
  BY <1>1, <1>3 DEF Covered
<1>6. { p \in Files : ~none[p].absent } = {}
  BY <1>4
<1>7. Tells(t)
  BY <1>1, <1>3, <1>6 DEF Tells
<1> QED BY <1>1, <1>2, <1>4, <1>5, <1>7 DEF Sound, t

\* So do the tables of a process that is in no rebuild.
LEMMA NoTablesSound == Sound(NoTables)
<1> DEFINE ages == [p \in Files |-> 0]
<1>1. ages \in [Files -> 0..MaxEdits]
  BY ConstantTypes
<1>2. [Cleared EXCEPT !.age = ages] = NoTables
  BY DEF Cleared, NoTables
<1> HIDE DEF ages
<1> QED BY <1>1, <1>2, ClearedSound

\* A fingerprint of sound tables belongs to an entry of theirs.
LEMMA FingerprintsOwned ==
  ASSUME NEW t, Sound(t)
  PROVE  \A f \in t.fingerprints : f[1] \in Identifiers(t)
<1> SUFFICES ASSUME NEW f \in t.fingerprints PROVE f[1] \in Identifiers(t)
  OBVIOUS
<1>1. t.entries = EntriesOf(t.basis) /\ t.fingerprints = AllFingerprints(t.basis)
  BY DEF Sound, Tells, EntriesOf, AllFingerprints, FingerprintsOf
<1>2. PICK p \in Firsts(t.basis) : f \in FingerprintsOf(t.basis[p])
  BY <1>1 DEF AllFingerprints
<1>3. f[1] = t.basis[p].id
  BY <1>2 DEF FingerprintsOf
<1>4. [path |-> p, doc |-> t.basis[p]] \in t.entries
  BY <1>1, <1>2 DEF EntriesOf
<1> QED BY <1>3, <1>4 DEF Identifiers

\* What the tables of a rebuild and of the index are typed by.
LEMMA TabledTypes ==
  ASSUME Tabled, DOMAIN draft = Builders, draft = [b \in Builders |-> draft[b]]
  PROVE  /\ index \in Tables
         /\ draft \in [Builders -> Tables]
         /\ \A t \in {index} \cup { draft[b] : b \in Builders } :
              \A f \in t.fingerprints : f[1] \in Identifiers(t)
<1>1. \A t \in {index} \cup { draft[b] : b \in Builders } : Sound(t)
  BY DEF Tabled
<1>2. index \in Tables /\ \A b \in Builders : draft[b] \in Tables
  BY DEF Tabled, Sound
<1> QED BY <1>1, <1>2, FingerprintsOwned

-----------------------------------------------------------------------------
(* The steps of a rebuild.                                                 *)

\* The rest of the type invariant, which is not about the tables.
Plain ==
  /\ disk \in [Files -> Documents \cup {Absent}]
  /\ edits \in [Files -> 0..MaxEdits]
  /\ building \subseteq Builders
  /\ todo \in [Builders -> SUBSET Files]
  /\ draft = [b \in Builders |-> draft[b]]
  /\ pc \in [Readers -> {"idle", "text", "entries"}]
  /\ asks \in [Readers -> BOOLEAN]
  /\ exact \in [Readers -> SUBSET Identifier]
  /\ text \in [Readers -> SUBSET Identifier]
  /\ DOMAIN result = Readers
  /\ moved \in [Readers -> BOOLEAN]

\* With sound tables it gives the type invariant.
LEMMA TypesFollow == Plain /\ Tabled => TypeOK
<1> SUFFICES ASSUME Plain, Tabled PROVE TypeOK
  OBVIOUS
<1>1. DOMAIN draft = Builders /\ draft = [b \in Builders |-> draft[b]]
  BY DEF Plain
<1> QED BY <1>1, TabledTypes DEF Plain, TypeOK

\* The type invariant gives it.
LEMMA PlainFollows == TypeOK => Plain
  BY DEF TypeOK, Plain

\* A rebuild that begins has the place to itself and the ages of the moment.
LEMMA BeginKeeps ==
  ASSUME IInv, NEW b \in Builders, BeginRebuild(b)
  PROVE  IInv'
<1> DEFINE t == [Cleared EXCEPT !.age = edits]
<1>1. /\ building = {} /\ building' = {b}
      /\ draft' = [draft EXCEPT ![b] = t]
      /\ UNCHANGED <<disk, edits, index, pc, asks, exact, text, result, moved>>
  BY DEF BeginRebuild, Free, disks, reads
<1>2. edits \in [Files -> 0..MaxEdits] /\ Plain
  BY PlainFollows DEF IInv, Plain
<1>3. Sound(t) /\ t.age = edits /\ \A p \in Files : t.basis[p].absent
  BY <1>2, ClearedSound
<1> HIDE DEF t
<1>4. draft'[b] = t /\ \A c \in Builders \ {b} : draft'[c] = draft[c]
  BY <1>1, <1>2 DEF Plain
<1>5. Tabled'
  BY <1>1, <1>3, <1>4 DEF IInv, Tabled, Sound
<1>6. Plain'
  BY <1>1, <1>2 DEF Plain, BeginRebuild
<1>7. Alone' /\ Ordered'
  BY <1>1, <1>3, <1>4 DEF Alone, Ordered
<1>8. Fresh'
  <2>1. \A p \in Files : edits[p] \in Int
    BY <1>2
  <2>2. \A c \in building', p \in Files : draft'[c].age[p] = edits[p]
    BY <1>1, <1>3, <1>4
  <2>3. \A p \in Files : index.age[p] <= edits[p] /\ edits[p] <= edits[p]
    BY <2>1 DEF IInv, Fresh
  <2> QED BY <1>1, <2>2, <2>3 DEF Fresh
<1>9. Told'
  BY <1>1 DEF IInv, Told
<1>10. TypeOK'
  BY <1>5, <1>6, TypesFollow, PTL
<1> QED BY <1>5, <1>6, <1>7, <1>8, <1>9, <1>10 DEF IInv

\* A file that is read is the first of those left, and of its present age.
LEMMA ReadKeeps ==
  ASSUME IInv, NEW b \in Builders, ReadFile(b)
  PROVE  IInv'
<1> DEFINE p == NextFile(b)
           d == disk[p]
           n == edits[p]
           t == draft[b]
           u == Reading(t, p, d, n)
<1>1. /\ b \in building /\ todo[b] # {} /\ ~d.absent
      /\ todo' = [todo EXCEPT ![b] = @ \ {p}]
      /\ UNCHANGED <<disk, edits, building, index, pc, asks, exact, text, result, moved>>
  BY DEF ReadFile, disks, reads
<1>2. Plain
  BY PlainFollows DEF IInv
<1>3. draft' = [draft EXCEPT ![b] = u]
  BY <1>2 DEF ReadFile, Reading, Plain
<1>4. todo[b] \in SUBSET Files
  BY <1>2 DEF Plain
<1>5. p \in todo[b] /\ \A q \in todo[b] : p <= q
  <2>1. \E q \in todo[b] : \A r \in todo[b] : q <= r
    BY <1>1, <1>4, LeastFile
  <2> QED BY <2>1 DEF NextFile
<1>6. p \in Files /\ d \in Documents /\ n \in 0..MaxEdits
  <2>1. p \in Files
    BY <1>4, <1>5
  <2>2. d \in Documents \cup {Absent}
    BY <1>2, <2>1 DEF Plain
  <2> QED BY <1>1, <1>2, <2>1, <2>2, ContentTypes DEF Plain
<1>7. t \in Tables /\ Tells(t) /\ Covered(t.basis)
  BY DEF IInv, Tabled, Sound
<1>8. \A q \in Files : ~t.basis[q].absent => q < p
  BY <1>1, <1>5 DEF IInv, Ordered
<1>9. Sound(u) /\ Grown(t, u, p, d, n)
  <2> HIDE DEF p, d, n, t
  <2>1. Sound(u)
    BY <1>6, <1>7, <1>8, ReadingTells DEF Sound
  <2> QED BY <1>6, <1>7, <2>1, ReadingGrows
<1>10. t.basis \in [Files -> Contents] /\ t.age \in [Files -> 0..MaxEdits]
  BY <1>7 DEF Tables, Contents
<1> HIDE DEF p, d, n, t, u
<1>11. /\ \A q \in Files \ {p} : u.basis[q] = t.basis[q] /\ u.age[q] = t.age[q]
       /\ u.age[p] = n
  BY <1>6, <1>9, <1>10 DEF Grown
<1>12. draft'[b] = u /\ \A c \in Builders \ {b} : draft'[c] = draft[c]
  BY <1>2, <1>3 DEF Plain
<1>13. Tabled'
  BY <1>1, <1>9, <1>12 DEF IInv, Tabled, Sound
<1>14. Plain'
  BY <1>1, <1>2, <1>3, <1>4 DEF Plain
<1>15. \A c \in building : c = b
  BY <1>1 DEF IInv, Alone
<1>16. Alone'
  BY <1>1 DEF IInv, Alone
<1>17. Ordered'
  <2> SUFFICES ASSUME NEW r \in Files, NEW q \in todo'[b], ~u.basis[r].absent
               PROVE  r < q
    BY <1>1, <1>12, <1>15 DEF Ordered
  <2>1. q \in todo[b] /\ q # p
    BY <1>1, <1>2 DEF Plain
  <2>2. CASE r = p
    <3>1. p \in Nat /\ q \in Nat
      BY <1>4, <1>6, <2>1, ConstantTypes DEF Files
    <3> QED BY <1>5, <2>1, <2>2, <3>1
  <2>3. CASE r # p
    BY <1>1, <1>11, <2>1, <2>3 DEF IInv, Ordered, t
  <2> QED BY <2>2, <2>3
<1>18. Fresh'
  <2>1. \A q \in Files : index.age[q] <= edits[q] /\ edits[q] \in Int
    BY <1>2 DEF IInv, Fresh, Plain
  <2>2. ASSUME NEW q \in Files
        PROVE  index.age[q] <= u.age[q] /\ u.age[q] <= edits[q]
    <3>1. CASE q = p
      BY <1>11, <2>1, <3>1 DEF n
    <3>2. CASE q # p
      BY <1>1, <1>11, <3>2 DEF IInv, Fresh, t
    <3> QED BY <3>1, <3>2
  <2> QED BY <1>1, <1>12, <1>15, <2>1, <2>2 DEF Fresh
<1>19. Told'
  BY <1>1 DEF IInv, Told
<1>20. TypeOK'
  BY <1>13, <1>14, TypesFollow, PTL
<1> QED BY <1>13, <1>14, <1>16, <1>17, <1>18, <1>19, <1>20 DEF IInv

\* A rebuild that fails leaves no trace.
LEMMA FailKeeps ==
  ASSUME IInv, NEW b \in Builders, RebuildFails(b)
  PROVE  IInv'
<1>1. /\ building' = building \ {b} /\ todo' = [todo EXCEPT ![b] = {}]
      /\ draft' = [draft EXCEPT ![b] = NoTables]
      /\ UNCHANGED <<disk, edits, index, pc, asks, exact, text, result, moved>>
  BY DEF RebuildFails, disks, reads
<1>2. Plain
  BY PlainFollows DEF IInv
<1>3. draft'[b] = NoTables /\ \A c \in Builders \ {b} : draft'[c] = draft[c] /\ todo'[c] = todo[c]
  BY <1>1, <1>2 DEF Plain
<1>4. Tabled'
  BY <1>1, <1>3, NoTablesSound DEF IInv, Tabled, Sound
<1>5. Plain'
  BY <1>1, <1>2 DEF Plain
<1>6. Alone' /\ Ordered' /\ Fresh'
  BY <1>1, <1>2, <1>3 DEF IInv, Plain, Alone, Ordered, Fresh
<1>7. Told'
  BY <1>1 DEF IInv, Told
<1>8. TypeOK'
  BY <1>4, <1>5, TypesFollow, PTL
<1> QED BY <1>4, <1>5, <1>6, <1>7, <1>8 DEF IInv

\* The rebuild that commits is the only one.
LEMMA CommitKeeps ==
  ASSUME IInv, NEW b \in Builders, CommitRebuild(b)
  PROVE  IInv'
<1>1. /\ b \in building /\ building' = building \ {b}
      /\ index' = draft[b]
      /\ draft' = [draft EXCEPT ![b] = NoTables]
      /\ moved' = [r \in Readers |-> moved[r] \/ pc[r] \in {"text", "entries"}]
      /\ UNCHANGED <<disk, edits, todo, pc, asks, exact, text, result>>
  BY DEF CommitRebuild, disks
<1>2. Plain
  BY PlainFollows DEF IInv
<1>3. building' = {}
  BY <1>1 DEF IInv, Alone
<1>4. draft'[b] = NoTables /\ \A c \in Builders \ {b} : draft'[c] = draft[c]
  BY <1>1, <1>2 DEF Plain
<1>5. Tabled'
  BY <1>1, <1>4, NoTablesSound DEF IInv, Tabled, Sound
<1>6. Plain'
  BY <1>1, <1>2, <1>3 DEF Plain
<1>7. Alone' /\ Ordered'
  BY <1>3 DEF Alone, Ordered
<1>8. Fresh'
  BY <1>1, <1>3 DEF IInv, Fresh
<1>9. Told'
  BY <1>1, <1>2 DEF Told, Plain
<1>10. TypeOK'
  BY <1>5, <1>6, TypesFollow, PTL
<1> QED BY <1>5, <1>6, <1>7, <1>8, <1>9, <1>10 DEF IInv

-----------------------------------------------------------------------------
(* The steps of a match, and of the directory.                             *)

\* What the SELECTs return are identifiers of documents.
LEMMA SelectedTypes ==
  ASSUME TypeOK
  PROVE  /\ ExactIn(index) \in SUBSET Identifier
         /\ TextIn(index) \in SUBSET Identifier
<1>1. \A e \in index.entries : e.doc \in Documents \ {Malformed}
  BY DEF TypeOK, Tables
<1>2. Identifiers(index) \subseteq Identifier
  BY <1>1 DEF Identifiers, Identifier
<1>3. \A f \in index.fingerprints : f[1] \in Identifiers(index)
  BY DEF TypeOK
<1>4. ExactIn(index) \subseteq Identifier
  BY <1>2, <1>3 DEF ExactIn
<1>5. TextIn(index) \subseteq Identifiers(index)
  BY DEF TextIn, Identifiers
<1> QED BY <1>2, <1>4, <1>5

\* A SELECT of a match reads the index and writes nothing.
LEMMA ReaderKeeps ==
  ASSUME IInv, NEW r \in Readers, SelectExact(r) \/ SelectText(r) \/ SelectEntries(r)
  PROVE  IInv'
<1>1. UNCHANGED <<disk, edits, building, todo, index, draft>>
  BY DEF SelectExact, SelectText, SelectEntries, disks, writes
<1>2. Plain
  BY PlainFollows DEF IInv
<1>3. Tabled' /\ Alone' /\ Ordered' /\ Fresh'
  BY <1>1 DEF IInv, Tabled, Sound, Alone, Ordered, Fresh
<1>4. ExactIn(index) \in SUBSET Identifier /\ TextIn(index) \in SUBSET Identifier
  BY SelectedTypes DEF IInv
<1>5. CASE SelectExact(r)
  <2>1. PICK query \in BOOLEAN :
          /\ asks' = [asks EXCEPT ![r] = query]
          /\ pc' = [pc EXCEPT ![r] = IF query THEN "text" ELSE "entries"]
          /\ exact' = [exact EXCEPT ![r] = ExactIn(index)]
          /\ text' = [text EXCEPT ![r] = {}]
          /\ moved' = [moved EXCEPT ![r] = FALSE]
          /\ DOMAIN result' = DOMAIN result
    BY <1>5 DEF SelectExact
  <2>2. Plain'
    BY <1>1, <1>2, <1>4, <2>1 DEF Plain
  <2>3. Told'
    BY <1>1, <1>2, <2>1 DEF IInv, Told, Plain
  <2>4. TypeOK'
    BY <1>3, <2>2, TypesFollow, PTL
  <2> QED BY <1>3, <2>3, <2>4 DEF IInv
<1>6. CASE SelectText(r)
  <2>1. /\ pc[r] = "text" /\ pc' = [pc EXCEPT ![r] = "entries"]
        /\ text' = [text EXCEPT ![r] = TextIn(index)]
        /\ UNCHANGED <<asks, exact, result, moved>>
    BY <1>6 DEF SelectText
  <2>2. Plain'
    BY <1>1, <1>2, <1>4, <2>1 DEF Plain
  <2>3. Told'
    BY <1>1, <1>2, <2>1 DEF IInv, Told, Plain
  <2>4. TypeOK'
    BY <1>3, <2>2, TypesFollow, PTL
  <2> QED BY <1>3, <2>3, <2>4 DEF IInv
<1>7. CASE SelectEntries(r)
  <2>1. /\ pc' = [pc EXCEPT ![r] = "idle"]
        /\ DOMAIN result' = DOMAIN result
        /\ UNCHANGED <<asks, exact, text, moved>>
    BY <1>7 DEF SelectEntries
  <2>2. Plain'
    BY <1>1, <1>2, <2>1 DEF Plain
  <2>3. Told'
    BY <1>1, <1>2, <2>1 DEF IInv, Told, Plain
  <2>4. TypeOK'
    BY <1>3, <2>2, TypesFollow, PTL
  <2> QED BY <1>3, <2>3, <2>4 DEF IInv
<1> QED BY <1>5, <1>6, <1>7

\* An edit only makes files newer.
LEMMA EditKeeps ==
  ASSUME IInv, Edit
  PROVE  IInv'
<1>1. UNCHANGED <<building, todo, index, draft, pc, asks, exact, text, result, moved>>
  BY DEF Edit, writes, reads
<1>2. Plain
  BY PlainFollows DEF IInv
<1>3. PICK p \in Files, d \in Documents \cup {Absent} :
        /\ edits[p] < MaxEdits
        /\ disk' = [disk EXCEPT ![p] = d]
        /\ edits' = [edits EXCEPT ![p] = @ + 1]
  BY DEF Edit
<1>4. edits' \in [Files -> 0..MaxEdits] /\ \A q \in Files : edits[q] <= edits'[q]
  BY <1>2, <1>3, ConstantTypes DEF Plain
<1>5. Plain'
  BY <1>1, <1>2, <1>3, <1>4 DEF Plain
<1>6. Tabled' /\ Alone' /\ Ordered' /\ Told'
  BY <1>1 DEF IInv, Tabled, Sound, Alone, Ordered, Told
<1>7. Fresh'
  <2>1. index.age \in [Files -> 0..MaxEdits]
        /\ \A b \in Builders : draft[b].age \in [Files -> 0..MaxEdits]
    BY DEF IInv, TypeOK, Tables
  <2>2. \A q \in Files : edits[q] \in Int /\ edits'[q] \in Int /\ index.age[q] \in Int
    BY <1>2, <1>4, <2>1 DEF Plain
  <2>3. \A b \in building, q \in Files : draft[b].age[q] \in Int
    BY <1>2, <2>1 DEF Plain
  <2>4. \A q \in Files : index.age[q] <= edits'[q]
    BY <1>4, <2>2 DEF IInv, Fresh
  <2>5. \A b \in building, q \in Files : draft[b].age[q] <= edits'[q]
    BY <1>4, <2>2, <2>3 DEF IInv, Fresh
  <2> QED BY <1>1, <2>4, <2>5 DEF IInv, Fresh
<1>8. TypeOK'
  BY <1>5, <1>6, TypesFollow, PTL
<1> QED BY <1>6, <1>7, <1>8 DEF IInv

-----------------------------------------------------------------------------
(* The theorems.                                                           *)

\* The first index is empty and tells no files.
LEMMA InitIInv == Init => IInv
<1> SUFFICES ASSUME Init PROVE IInv
  OBVIOUS
<1>1. index = NoTables /\ draft = [b \in Builders |-> NoTables]
  BY DEF Init
<1>2. Tabled
  BY <1>1, NoTablesSound DEF Tabled
<1>3. Plain
  BY <1>1, ConstantTypes DEF Init, Plain
<1>4. Alone /\ Ordered /\ Told
  BY DEF Init, Alone, Ordered, Told
<1>5. Fresh
  BY DEF Init, Fresh, NoTables
<1> QED BY <1>2, <1>3, <1>4, <1>5, TypesFollow DEF IInv

\* Each step keeps the invariant.
LEMMA NextIInv == IInv /\ [Next]_vars => IInv'
<1> SUFFICES ASSUME IInv, [Next]_vars PROVE IInv'
  OBVIOUS
<1>1. ASSUME NEW b \in Builders, BeginRebuild(b) PROVE IInv'
  BY <1>1, BeginKeeps
<1>2. ASSUME NEW b \in Builders, ReadFile(b) PROVE IInv'
  BY <1>2, ReadKeeps
<1>3. ASSUME NEW b \in Builders, RebuildFails(b) PROVE IInv'
  BY <1>3, FailKeeps
<1>4. ASSUME NEW b \in Builders, CommitRebuild(b) PROVE IInv'
  BY <1>4, CommitKeeps
<1>5. ASSUME NEW r \in Readers, SelectExact(r) \/ SelectText(r) \/ SelectEntries(r)
      PROVE  IInv'
  BY <1>5, ReaderKeeps
<1>6. CASE Edit
  BY <1>6, EditKeeps
<1>7. CASE UNCHANGED vars
  <2>1. UNCHANGED <<disk, edits, building, todo, index, draft, pc, asks, exact, text,
                    result, moved>>
    BY <1>7 DEF vars, disks, writes, reads
  <2>2. Plain' /\ Tabled'
    BY <2>1, PlainFollows DEF IInv, Plain, Tabled, Sound
  <2>3. TypeOK'
    BY <2>2, TypesFollow, PTL
  <2> QED BY <2>1, <2>2, <2>3 DEF IInv, Alone, Ordered, Fresh, Told
<1> QED BY <1>1, <1>2, <1>3, <1>4, <1>5, <1>6, <1>7 DEF Next

\* The invariant holds in every reachable state.
THEOREM InvariantHolds == Spec => []IInv
  BY InitIInv, NextIInv, PTL DEF Spec

\* Every variable keeps its type and no fingerprint lacks its entry.
THEOREM TypeCorrect == Spec => []TypeOK
<1>1. IInv => TypeOK
  BY DEF IInv
<1> QED BY <1>1, InvariantHolds, PTL

\* The committed index is that of files as one rebuild read them, for any
\* documents and any interleaving of rebuilds, edits and deaths.
THEOREM IndexIsOfOneReading == Spec => []IndexTellsTheFiles
<1>1. IInv => IndexTellsTheFiles
  BY DEF IInv, Tabled, Sound, IndexTellsTheFiles
<1> QED BY <1>1, InvariantHolds, PTL

\* No rebuild takes the index back to an older content of a file: BEGIN
\* IMMEDIATE comes before the first read, and the one that ends last began last.
THEOREM IndexGoesForward == Spec => IndexNeverGoesBack
<1>1. IInv /\ [Next]_vars => [\A p \in Files : index'.age[p] >= index.age[p]]_vars
  <2> SUFFICES ASSUME IInv, Next PROVE \A p \in Files : index'.age[p] >= index.age[p]
    OBVIOUS
  <2>1. index.age \in [Files -> 0..MaxEdits]
        /\ \A b \in Builders : draft[b].age \in [Files -> 0..MaxEdits]
    BY DEF IInv, TypeOK, Tables
  <2>2. \A p \in Files : index.age[p] \in Int
    BY <2>1
  <2>3. CASE UNCHANGED index
    BY <2>2, <2>3
  <2>4. ASSUME NEW b \in Builders, CommitRebuild(b)
        PROVE  \A p \in Files : index'.age[p] >= index.age[p]
    <3>1. b \in building /\ index' = draft[b]
      BY <2>4 DEF CommitRebuild
    <3>2. \A p \in Files : draft[b].age[p] \in Int
      BY <2>1
    <3> QED BY <2>2, <3>1, <3>2 DEF IInv, Fresh
  <2>5. (\E b \in Builders : CommitRebuild(b)) \/ UNCHANGED index
    BY DEF Next, BeginRebuild, ReadFile, RebuildFails, SelectExact, SelectText,
           SelectEntries, Edit, writes
  <2> QED BY <2>3, <2>4, <2>5
<1> QED BY <1>1, InvariantHolds, PTL DEF Spec, IndexNeverGoesBack

\* What a match may list of a document that applies.
LEMMA ApplicableMeans ==
  ASSUME NEW d \in Entries, Applicable(d)
  PROVE  d.status # "withdrawn" /\ (d.own \/ d.type = "prompt" \/ d.scope = "shared")
<1>1. /\ d.type \in {"prompt", "known_problem", "lesson"}
      /\ d.scope \in {"project", "shared"}
      /\ d.own \in BOOLEAN
  BY DEF Entries
<1>2. CASE d.type = "prompt"
  BY <1>2 DEF Applicable
<1>3. CASE d.type = "known_problem"
  BY <1>3 DEF Applicable
<1>4. CASE d.type = "lesson"
  BY <1>1, <1>4 DEF Applicable
<1> QED BY <1>1, <1>2, <1>3, <1>4

\* What an answer lists is in the tables and applies.
LEMMA MatchesMean ==
  ASSUME NEW t \in Tables, NEW exactly, NEW textually, NEW m \in Matches(t, exactly, textually)
  PROVE  \E e \in t.entries :
           /\ e.doc.id = m.id /\ e.path = m.path
           /\ e.doc.status # "withdrawn"
           /\ e.doc.own \/ e.doc.type = "prompt" \/ e.doc.scope = "shared"
<1>1. PICK e \in t.entries :
        /\ Applicable(e.doc)
        /\ m = [id |-> e.doc.id, path |-> e.path, score |-> Score(e.doc, exactly, textually)]
  BY DEF Matches, Best
<1>2. e.doc \in Entries
  BY ConstantTypes DEF Tables
<1>3. m.id = e.doc.id /\ m.path = e.path
  BY <1>1
<1> QED BY <1>1, <1>2, <1>3, ApplicableMeans

\* An answer lists the best of what applies in the index its last SELECT sees
\* and, unless a rebuild has committed meanwhile, is the answer of one index.
THEOREM AnswersTellOneIndex == Spec => MatchTellsOneIndex
<1> DEFINE Truly(r) ==
      /\ \A m \in result'[r] : \E e \in index.entries :
           /\ e.doc.id = m.id /\ e.path = m.path
           /\ e.doc.status # "withdrawn"
           /\ e.doc.own \/ e.doc.type = "prompt" \/ e.doc.scope = "shared"
      /\ ~moved[r] =>
           result'[r] = Matches(index, ExactIn(index), IF asks[r] THEN TextIn(index) ELSE {})
<1>1. IInv /\ [Next]_vars =>
        [\A r \in Readers : pc[r] = "entries" /\ pc'[r] = "idle" => Truly(r)]_vars
  <2> SUFFICES ASSUME IInv, Next, NEW r \in Readers, pc[r] = "entries", pc'[r] = "idle"
               PROVE  Truly(r)
    OBVIOUS
  <2>1. SelectEntries(r)
    <3>1. \E q \in Readers : SelectExact(q) \/ SelectText(q) \/ SelectEntries(q)
      BY DEF Next, BeginRebuild, ReadFile, RebuildFails, CommitRebuild, Edit, reads
    <3>2. PICK q \in Readers : SelectExact(q) \/ SelectText(q) \/ SelectEntries(q)
      BY <3>1
    <3>3. pc \in [Readers -> {"idle", "text", "entries"}]
      BY DEF IInv, TypeOK
    <3>4. q = r
      BY <3>2, <3>3 DEF SelectExact, SelectText, SelectEntries
    <3> QED BY <3>2, <3>4 DEF SelectExact, SelectText
  <2>2. result'[r] = Matches(index, exact[r], text[r])
    BY <2>1 DEF SelectEntries, IInv, TypeOK
  <2>3. index \in Tables
    BY DEF IInv, TypeOK
  <2>4. ~moved[r] => exact[r] = ExactIn(index)
                       /\ text[r] = IF asks[r] THEN TextIn(index) ELSE {}
    BY DEF IInv, Told
  <2>5. \A m \in result'[r] : \E e \in index.entries :
           /\ e.doc.id = m.id /\ e.path = m.path
           /\ e.doc.status # "withdrawn"
           /\ e.doc.own \/ e.doc.type = "prompt" \/ e.doc.scope = "shared"
    BY <2>2, <2>3, MatchesMean
  <2>6. ~moved[r] =>
          result'[r] = Matches(index, ExactIn(index), IF asks[r] THEN TextIn(index) ELSE {})
    BY <2>2, <2>4
  <2> QED BY <2>5, <2>6
<1> HIDE DEF Truly
<1>2. Spec => [][\A r \in Readers : pc[r] = "entries" /\ pc'[r] = "idle" => Truly(r)]_vars
  BY <1>1, InvariantHolds, PTL DEF Spec
<1> QED BY <1>2 DEF MatchTellsOneIndex, Truly

=============================================================================
