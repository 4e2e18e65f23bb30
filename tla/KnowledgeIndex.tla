--------------------------- MODULE KnowledgeIndex ---------------------------
(***************************************************************************)
(* The index of the knowledge directory: KnowledgeIndex.rebuild, which     *)
(* every start of the service and every `pac` command runs, and match,     *)
(* which reads it.                                                         *)
(*                                                                         *)
(* A rebuild is one BEGIN IMMEDIATE transaction that lists the directory   *)
(* and reads its files one after the other, while they are edited, added   *)
(* and removed.  A match is two or three SELECTs, each a transaction of    *)
(* its own, so rebuilds may commit between them.                           *)
(***************************************************************************)
EXTENDS Integers, Sequences, FiniteSets

CONSTANTS
  Paths,      \* the first Paths numbers are paths, in the order of sorted()
  Documents,  \* what a file may hold
  Builders,   \* processes that rebuild
  Readers,    \* calls of match, for one project, fingerprint and text
  Limit,      \* limit of a match
  MaxEdits    \* bound: edits of one file

Files  == 1..Paths
Absent == [valid |-> FALSE, absent |-> TRUE]

\* A file that does not parse, does not validate or holds a secret.
Malformed == [valid |-> FALSE, absent |-> FALSE]

\* An entry: its fields as the index and match tell them apart.  fingerprints
\* lists fingerprints of which 1 is the one the match asks for; words says
\* whether the text asked for occurs in it; own whether its project is the
\* match's (a prompt or a shared lesson has none); fits whether it asks for no
\* technology or for one the project has.
Entries ==
  [valid : {TRUE}, absent : {FALSE}, id : Nat, type : {"prompt", "known_problem", "lesson"},
   status : {"stable", "confirmed", "approved", "withdrawn"}, scope : {"project", "shared"},
   own : BOOLEAN, fits : BOOLEAN, words : BOOLEAN, fingerprints : Seq(Nat)]

ASSUME KnowledgeAssumption ==
  /\ Paths \in Nat
  /\ Documents \subseteq Entries \cup {Malformed}
  /\ {Limit, MaxEdits} \subseteq Nat

VARIABLES
  disk,      \* what each file holds
  edits,     \* how often each file has been edited
  building,  \* the processes in a rebuild's transaction
  todo,      \* the files each rebuild has still to read
  index,     \* the committed tables and, as history, the files they tell of
  draft,     \* the same of each process's transaction
  pc,        \* what each match does next
  asks,      \* the match has a text query
  exact, text,  \* identifiers its SELECTs have returned
  result,    \* its answer
  moved      \* history: a rebuild has committed during the match

disks   == <<disk, edits>>
writes  == <<building, todo, index, draft>>
reads   == <<pc, asks, exact, text, result, moved>>
vars    == <<disks, writes, reads>>

\* The tables: entries (and their texts), fingerprints and quarantine; as
\* history, the file contents that were read, and how old they were.
NoTables == [entries |-> {}, fingerprints |-> {}, quarantine |-> {},
             basis |-> [p \in Files |-> Absent], age |-> [p \in Files |-> 0]]

Init ==
  /\ disk \in [Files -> Documents \cup {Absent}]
  /\ edits = [p \in Files |-> 0]
  /\ building = {}
  /\ todo = [b \in Builders |-> {}]
  /\ index = NoTables
  /\ draft = [b \in Builders |-> NoTables]
  /\ pc = [r \in Readers |-> "idle"]
  /\ asks = [r \in Readers |-> FALSE]
  /\ exact = [r \in Readers |-> {}]
  /\ text = [r \in Readers |-> {}]
  /\ result = [r \in Readers |-> {}]
  /\ moved = [r \in Readers |-> FALSE]

-----------------------------------------------------------------------------
(* KnowledgeIndex.rebuild.                                                 *)

\* Mutant: the transaction does not keep other rebuilds out.
Free_Always == TRUE

Free == building = {}

\* The fingerprints before the first that repeats an earlier one.
Distinct(fs) ==
  { fs[i] : i \in { k \in DOMAIN fs : \A m, n \in 1..k : fs[m] = fs[n] => m = n } }

Repeats(fs) == \E m, n \in DOMAIN fs : m # n /\ fs[m] = fs[n]

Identifiers(tables) == { e.doc.id : e \in tables.entries }

Quarantine(tables, p) == [tables EXCEPT !.quarantine = @ \cup {p}]

\* Mutant: a later file of the same identifier replaces the earlier one.
Insert_Replace(tables, p, d) ==
  IF ~d.valid THEN Quarantine(tables, p)
  ELSE [tables EXCEPT !.entries = { e \in @ : e.doc.id # d.id } \cup {[path |-> p, doc |-> d]},
                      !.fingerprints = { f \in @ : f[1] # d.id }
                                         \cup { <<d.id, f>> : f \in Distinct(d.fingerprints) }]

\* One file, with the exceptions of _parse_entry and _insert_entry: an entry
\* whose identifier is taken leaves nothing but the quarantine; one that repeats
\* a fingerprint leaves what was inserted before, too.
Insert(tables, p, d) ==
  IF ~d.valid \/ d.id \in Identifiers(tables) THEN Quarantine(tables, p)
  ELSE LET inserted ==
             [tables EXCEPT !.entries = @ \cup {[path |-> p, doc |-> d]},
                            !.fingerprints = @ \cup { <<d.id, f>> : f \in Distinct(d.fingerprints) }]
       IN  IF Repeats(d.fingerprints) THEN Quarantine(inserted, p) ELSE inserted

\* Mutant: the fingerprints of the last rebuild stay.
Cleared_KeepsFingerprints == [NoTables EXCEPT !.fingerprints = index.fingerprints]

\* The four DELETEs.
Cleared == NoTables

\* BEGIN IMMEDIATE, the DELETEs and the listing of the directory.
BeginRebuild(b) ==
  /\ b \notin building
  /\ Free
  /\ building' = building \cup {b}
  /\ todo' = [todo EXCEPT ![b] = { p \in Files : ~disk[p].absent }]
  /\ draft' = [draft EXCEPT ![b] = [Cleared EXCEPT !.age = edits]]
  /\ UNCHANGED <<disks, index, reads>>

NextFile(b) == CHOOSE p \in todo[b] : \A q \in todo[b] : p <= q

\* read_bytes and what becomes of the file.
ReadFile(b) ==
  /\ b \in building
  /\ todo[b] # {}
  /\ LET p == NextFile(b)
         d == disk[p]
     IN  /\ ~d.absent
         /\ todo' = [todo EXCEPT ![b] = @ \ {p}]
         /\ draft' = [draft EXCEPT ![b] =
              [Insert(@, p, d) EXCEPT !.basis[p] = d, !.age[p] = edits[p]]]
  /\ UNCHANGED <<disks, building, index, reads>>

\* A listed file is gone, or the process dies: nothing is committed.
RebuildFails(b) ==
  /\ b \in building
  /\ building' = building \ {b}
  /\ todo' = [todo EXCEPT ![b] = {}]
  /\ draft' = [draft EXCEPT ![b] = NoTables]
  /\ UNCHANGED <<disks, index, reads>>

CommitRebuild(b) ==
  /\ b \in building
  /\ todo[b] = {}
  /\ building' = building \ {b}
  /\ index' = draft[b]
  /\ draft' = [draft EXCEPT ![b] = NoTables]
  /\ moved' = [r \in Readers |-> moved[r] \/ pc[r] \in {"text", "entries"}]
  /\ UNCHANGED <<disks, todo, pc, asks, exact, text, result>>

-----------------------------------------------------------------------------
(* KnowledgeIndex.match.                                                   *)

\* Mutant: what has been withdrawn still applies.
Applicable_AnyStatus(d) ==
  CASE d.type = "prompt"        -> TRUE
    [] d.type = "known_problem" -> d.own /\ d.fits
    [] d.type = "lesson"        -> (d.scope = "project" => d.own) /\ d.fits

\* _is_applicable.
Applicable(d) ==
  CASE d.type = "prompt"        -> d.status = "stable"
    [] d.type = "known_problem" -> d.status = "confirmed" /\ d.own /\ d.fits
    [] d.type = "lesson"        -> /\ d.status # "withdrawn"
                                   /\ (d.scope = "project" => d.own)
                                   /\ d.fits

Score(d, exactly, textually) ==
  (IF d.id \in exactly THEN 100 ELSE 0) + (IF d.id \in textually THEN 20 ELSE 0)
    + (IF d.own THEN 10 ELSE 0)

Before(x, y) == x.score > y.score \/ (x.score = y.score /\ x.id < y.id)

\* The first Limit of the matches by score and identifier.
Best(matches) ==
  { x \in matches : Cardinality({ y \in matches : Before(y, x) }) < Limit }

ExactIn(tables) == { f[1] : f \in { g \in tables.fingerprints : g[2] = 1 } }
TextIn(tables)  == { e.doc.id : e \in { x \in tables.entries : x.doc.words } }

\* The rows of knowledge_entries for these identifiers, judged and scored.
Matches(tables, exactly, textually) ==
  Best({ [id |-> e.doc.id, path |-> e.path, score |-> Score(e.doc, exactly, textually)] :
           e \in { x \in tables.entries :
                     x.doc.id \in exactly \cup textually /\ Applicable(x.doc) } })

\* The first SELECT.
SelectExact(r) ==
  /\ pc[r] = "idle"
  /\ exact' = [exact EXCEPT ![r] = ExactIn(index)]
  /\ text' = [text EXCEPT ![r] = {}]
  /\ result' = [result EXCEPT ![r] = {}]
  /\ moved' = [moved EXCEPT ![r] = FALSE]
  /\ \E query \in BOOLEAN :
       /\ asks' = [asks EXCEPT ![r] = query]
       /\ pc' = [pc EXCEPT ![r] = IF query THEN "text" ELSE "entries"]
  /\ UNCHANGED <<disks, writes>>

\* The second, if there is a query.
SelectText(r) ==
  /\ pc[r] = "text"
  /\ text' = [text EXCEPT ![r] = TextIn(index)]
  /\ pc' = [pc EXCEPT ![r] = "entries"]
  /\ UNCHANGED <<disks, writes, asks, exact, result, moved>>

\* The last.
SelectEntries(r) ==
  /\ pc[r] = "entries"
  /\ result' = [result EXCEPT ![r] = Matches(index, exact[r], text[r])]
  /\ pc' = [pc EXCEPT ![r] = "idle"]
  /\ UNCHANGED <<disks, writes, asks, exact, text, moved>>

-----------------------------------------------------------------------------
(* The directory.                                                          *)

Edit ==
  /\ \E p \in Files, d \in Documents \cup {Absent} :
       /\ d # disk[p]
       /\ edits[p] < MaxEdits
       /\ disk' = [disk EXCEPT ![p] = d]
       /\ edits' = [edits EXCEPT ![p] = @ + 1]
  /\ UNCHANGED <<writes, reads>>

Next ==
  \/ \E b \in Builders :
       BeginRebuild(b) \/ ReadFile(b) \/ RebuildFails(b) \/ CommitRebuild(b)
  \/ \E r \in Readers : SelectExact(r) \/ SelectText(r) \/ SelectEntries(r)
  \/ Edit

Spec == Init /\ [][Next]_vars

-----------------------------------------------------------------------------
(* Properties.                                                             *)

Identifier == { d.id : d \in Documents \ {Malformed} }

Tables ==
  [entries      : SUBSET [path : Files, doc : Documents \ {Malformed}],
   fingerprints : SUBSET (Nat \X Nat),
   quarantine   : SUBSET Files,
   basis        : [Files -> Documents \cup {Absent}],
   age          : [Files -> 0..MaxEdits]]

\* Every variable keeps its type; a fingerprint belongs to an entry.
TypeOK ==
  /\ disk \in [Files -> Documents \cup {Absent}]
  /\ edits \in [Files -> 0..MaxEdits]
  /\ building \subseteq Builders
  /\ todo \in [Builders -> SUBSET Files]
  /\ index \in Tables
  /\ draft \in [Builders -> Tables]
  /\ pc \in [Readers -> {"idle", "text", "entries"}]
  /\ asks \in [Readers -> BOOLEAN]
  /\ exact \in [Readers -> SUBSET Identifier]
  /\ text \in [Readers -> SUBSET Identifier]
  /\ DOMAIN result = Readers
  /\ moved \in [Readers -> BOOLEAN]
  /\ \A t \in {index} \cup { draft[b] : b \in Builders } :
       \A f \in t.fingerprints : f[1] \in Identifiers(t)

\* The index a set of files should have: of the files of one identifier the
\* first one, and every file that is malformed, comes second or repeats a
\* fingerprint in quarantine.
Valid(files) == { p \in Files : files[p].valid }

Firsts(files) ==
  { p \in Valid(files) : \A q \in Valid(files) : q < p => files[q].id # files[p].id }

\* The tables are those of the files they were read from.
Tells(tables) ==
  LET files == tables.basis IN
  /\ tables.entries = { [path |-> p, doc |-> files[p]] : p \in Firsts(files) }
  /\ tables.fingerprints =
       UNION { { <<files[p].id, f>> : f \in Distinct(files[p].fingerprints) } :
                 p \in Firsts(files) }
  /\ { e.path : e \in tables.entries } \cup tables.quarantine
       = { p \in Files : ~files[p].absent }
  /\ \A e \in tables.entries :
       e.path \in tables.quarantine => Repeats(e.doc.fingerprints)

\* The committed index is that of files as they were read in one rebuild, be
\* the rebuilds interleaved with edits, other rebuilds and deaths as they may:
\* no file is missing from it, and none is both in it and in quarantine but
\* those that repeat a fingerprint.
IndexTellsTheFiles == Tells(index)

\* A rebuild never takes the index back to an older content of a file.
IndexNeverGoesBack ==
  [][ \A p \in Files : index'.age[p] >= index.age[p] ]_vars

\* An answer lists the best of what applies in the index at the end of the
\* match: an entry withdrawn or moved to another project by a rebuild that
\* committed meanwhile is not in it.  Unless one did, it is the answer one
\* index gives, scores and all.
MatchTellsOneIndex ==
  [][ \A r \in Readers : pc[r] = "entries" /\ pc'[r] = "idle" =>
        /\ \A m \in result'[r] : \E e \in index.entries :
             /\ e.doc.id = m.id /\ e.path = m.path
             /\ e.doc.status # "withdrawn"
             /\ e.doc.own \/ e.doc.type = "prompt" \/ e.doc.scope = "shared"
        /\ ~moved[r] =>
             result'[r] = Matches(index, ExactIn(index), IF asks[r] THEN TextIn(index) ELSE {})
    ]_vars

=============================================================================
