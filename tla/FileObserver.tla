---------------------------- MODULE FileObserver ----------------------------
(***************************************************************************)
(* One file source: FileSourceReader.read_available inside                 *)
(* ObserverRunner._observe_file, over the events, source_cursors and       *)
(* incidents tables.                                                       *)
(*                                                                         *)
(* An observer is a process: the service, which polls for ever, or a       *)
(* `pac observe-once`, which observes once.  It reads the cursor, stats    *)
(* the path, opens and reads it, and commits; the writer of the log, a log *)
(* rotation, other observers and a crash come between any two of these.    *)
(*                                                                         *)
(* A file is a sequence of writes, each the first part of a line or the    *)
(* rest of one, and an offset counts writes.  Lines are numbered in the    *)
(* order they were written.  All error lines have one fingerprint.         *)
(***************************************************************************)
EXTENDS Integers, Sequences, FiniteSets, SequencesExt

CONSTANTS
  Observers, OneShot,  \* processes, and those that observe once
  Inodes,           \* an inode may be used again once its file is gone
  Errors,           \* lines that classify as errors
  Poison,           \* lines that do not decode in the source's encoding
  MaxLines,         \* bound: lines the program writes
  MaxReplacements,  \* bound: rotations, truncations and re-creations
  MaxRuns           \* bound: starts of an observer

ASSUME FileAssumption ==
  /\ Inodes \subseteq Nat \ {0}
  /\ MaxLines \in Nat
  /\ Errors \cup Poison \subseteq 1..MaxLines
  /\ MaxReplacements \in Nat
  /\ MaxRuns \in Nat

Unknown  == 0      \* the inode of a cursor that was never stored
Missing  == -1     \* the inode of a path that is not there
Fragment == 0      \* a line whose beginning was not read
Torn     == 0      \* no generation: an offset that belongs to another content

NoIncident == [count |-> 0, samples |-> << >>]
NoStat     == [cursor |-> [inode |-> Unknown, offset |-> 0, sequence |-> 0],
               origin |-> Torn, inode |-> Missing, size |-> 0, generation |-> Torn]
NoBatch    == [found |-> << >>, cursor |-> NoStat.cursor, origin |-> Torn]

VARIABLES
  path,        \* the file at the path: inode and data
  written,     \* lines begun so far
  generation,  \* history: counts the contents the path has had
  cursor,      \* the source_cursors row
  origin,      \* history: the content the cursor's offset belongs to
  events,      \* the events rows, in the order they were committed
  incident,    \* the incidents row and its incident_samples
  pc, run,     \* by observer: where it is, and its run_id
  runs,        \* run_ids given out
  seen, batch, \* by observer: what it read, and what it is about to commit
  replaced,    \* history: the file was replaced between a stat and its open
  overlapped   \* history: an observation committed on a cursor that had moved

file  == <<path, written, generation>>
store == <<cursor, origin, events, incident>>
flaws == <<replaced, overlapped>>
vars  == <<file, store, pc, run, runs, seen, batch, flaws>>

Init ==
  /\ \E i \in Inodes \cup {Missing} : path = [inode |-> i, data |-> << >>]
  /\ written = 0
  /\ generation = 1
  /\ cursor = NoStat.cursor
  /\ origin = 1
  /\ events = << >>
  /\ incident = NoIncident
  /\ pc = [o \in Observers |-> "off"]
  /\ run = [o \in Observers |-> 0]
  /\ runs = 0
  /\ seen = [o \in Observers |-> NoStat]
  /\ batch = [o \in Observers |-> NoBatch]
  /\ replaced = FALSE
  /\ overlapped = FALSE

-----------------------------------------------------------------------------
(* The program that writes the log, and what happens to its file.          *)

Write(line, end) ==
  /\ path.inode # Missing
  /\ path' = [path EXCEPT !.data = Append(@, [line |-> line, end |-> end])]
  /\ UNCHANGED <<generation, store, pc, run, runs, seen, batch, flaws>>

Unfinished == path.data # << >> /\ ~Last(path.data).end

WriteNext ==
  /\ ~Unfinished
  /\ written < MaxLines
  /\ written' = written + 1
  /\ \E end \in BOOLEAN : Write(written + 1, end)

WriteRest ==
  /\ Unfinished
  /\ Write(Last(path.data).line, TRUE)
  /\ UNCHANGED written

\* Rotated, re-created or truncated: empty, with another inode or the same.
Replace(inode) ==
  /\ generation <= MaxReplacements
  /\ generation' = generation + 1
  /\ path' = [inode |-> inode, data |-> << >>]
  /\ UNCHANGED <<written, store, pc, run, runs, seen, batch, flaws>>

RemoveFile ==
  /\ path.inode # Missing
  /\ path' = [inode |-> Missing, data |-> << >>]
  /\ UNCHANGED <<written, generation, store, pc, run, runs, seen, batch, flaws>>

-----------------------------------------------------------------------------
(* FileSourceReader.read_available.                                        *)

At(o, s) == pc[o] = s /\ UNCHANGED <<file, run, runs>>

Goto(o, s) == pc' = [pc EXCEPT ![o] = s]

\* Database.get_cursor.
Begin(o) ==
  /\ At(o, "idle")
  /\ Goto(o, "stat")
  /\ seen' = [seen EXCEPT ![o] = [NoStat EXCEPT !.cursor = cursor, !.origin = origin]]
  /\ UNCHANGED <<store, batch, flaws>>

\* Mutant: every poll of a missing file reports it, and keeps the offset.
MissingBatch_NotCoalesced(c) ==
  [ found  |-> <<[type |-> "source.missing", line |-> Fragment]>>,
    cursor |-> [inode |-> Missing, offset |-> c.offset, sequence |-> c.sequence + 1],
    origin |-> Torn ]

\* A file that is not there is reported once.
MissingBatch(c) ==
  IF c.inode = Missing
  THEN [NoBatch EXCEPT !.cursor = c]
  ELSE [ found  |-> <<[type |-> "source.missing", line |-> Fragment]>>,
         cursor |-> [inode |-> Missing, offset |-> 0, sequence |-> c.sequence + 1],
         origin |-> Torn ]

Stat(o) ==
  /\ At(o, "stat")
  /\ \/ /\ path.inode = Missing
        /\ batch' = [batch EXCEPT ![o] = MissingBatch(seen[o].cursor)]
        /\ Goto(o, "append")
        /\ UNCHANGED seen
     \/ /\ path.inode # Missing
        /\ seen' = [seen EXCEPT ![o].inode = path.inode,
                                ![o].size = Len(path.data),
                                ![o].generation = generation]
        /\ Goto(o, "read")
        /\ UNCHANGED batch
  /\ UNCHANGED <<store, flaws>>

\* Mutant: a file that has not grown counts as truncated.
Notice_AtLimit(c, s) ==
  CASE c.inode = Missing                               -> "source.available"
    [] c.inode \notin {Missing, Unknown, s.inode}      -> "source.rotated"
    [] c.inode \in {Unknown, s.inode} /\ s.size <= c.offset /\ c.offset > 0
                                                       -> "source.truncated"
    [] OTHER                                           -> "none"

\* What the stat says has become of the file the cursor belongs to.
Notice(c, s) ==
  CASE c.inode = Missing                               -> "source.available"
    [] c.inode \notin {Missing, Unknown, s.inode}      -> "source.rotated"
    [] c.inode \in {Unknown, s.inode} /\ s.size < c.offset
                                                       -> "source.truncated"
    [] OTHER                                           -> "none"

\* A set of positions as a sequence.
Ascending(ps) ==
  CHOOSE s \in [1..Cardinality(ps) -> ps] : \A i, j \in DOMAIN s : i < j => s[i] < s[j]

Ends(data, start) == { p \in (start + 1)..Len(data) : data[p].end }

\* Mutant: the last line waits for the line after it.
LineEnds_HoldsLast(data, start) ==
  LET ends == Ascending(Ends(data, start))
  IN  IF Len(ends) <= 1 THEN << >> ELSE Front(ends)

\* The complete lines behind an offset, by the position they end at.
LineEnds(data, start) == Ascending(Ends(data, start))

\* Mutant: the offset covers an unfinished line too.
NextOffset_WholeRead(data, start) == IF Len(data) > start THEN Len(data) ELSE start

NextOffset(data, start) ==
  LET ends == LineEnds(data, start)
  IN  IF ends = << >> THEN start ELSE Last(ends)

LineEvent(data, start, p) ==
  [ type |-> "log.line",
    line |-> IF p = start + 1 /\ start > 0 /\ ~data[start].end
             THEN Fragment ELSE data[p].line ]

\* Mutant: the sequence of the cursor leaves the notice out.
NextSequence_LinesOnly(c, notices, lines) == c.sequence + Len(lines)

NextSequence(c, notices, lines) == c.sequence + Len(notices) + Len(lines)

\* start_offset: a notice begins the file anew.
StartOffset(s) == IF Notice(s.cursor, s) = "none" THEN s.cursor.offset ELSE 0

Notices(s) ==
  LET notice == Notice(s.cursor, s)
  IN  IF notice = "none" THEN << >> ELSE <<[type |-> notice, line |-> Fragment]>>

LineEvents(data, start) ==
  LET ends == LineEnds(data, start)
  IN  [i \in DOMAIN ends |-> LineEvent(data, start, ends[i])]

Decodes(data, start) == \A p \in Ends(data, start) : data[p].line \notin Poison

\* The batch of what is at the path, read as the stat s has it.
ReadBatch(s) ==
  LET start == StartOffset(s)
      lines == LineEvents(path.data, start)
  IN  [ found  |-> Notices(s) \o lines,
        cursor |-> [ inode    |-> s.inode,
                     offset   |-> NextOffset(path.data, start),
                     sequence |-> NextSequence(s.cursor, Notices(s), lines) ],
        origin |-> IF start = 0 \/ s.origin = generation THEN generation ELSE Torn ]

\* Open, read and decode: the content may not be the one of the stat.
ReadFile(o) ==
  /\ At(o, "read")
  /\ path.inode # Missing
  /\ Decodes(path.data, StartOffset(seen[o]))
  /\ batch' = [batch EXCEPT ![o] = ReadBatch(seen[o])]
  /\ replaced' = (replaced \/ seen[o].generation # generation)
  /\ Goto(o, "append")
  /\ UNCHANGED <<store, seen, overlapped>>

Forget(o) ==
  /\ seen' = [seen EXCEPT ![o] = NoStat]
  /\ batch' = [batch EXCEPT ![o] = NoBatch]

Reset(o) ==
  /\ Goto(o, IF o \in OneShot THEN "off" ELSE "idle")
  /\ Forget(o)

\* The file has gone since the stat, or a line does not decode: nothing is kept.
ReadFails(o) ==
  /\ At(o, "read")
  /\ path.inode = Missing \/ ~Decodes(path.data, StartOffset(seen[o]))
  /\ Reset(o)
  /\ UNCHANGED <<store, flaws>>

-----------------------------------------------------------------------------
(* Database.append_observation: one transaction.                           *)

\* Mutant: the second sample is overwritten by every later occurrence.
Occurrence_SecondSlot(i, line) ==
  [ count   |-> i.count + 1,
    samples |-> IF i.count < 2 THEN Append(i.samples, line)
                ELSE [i.samples EXCEPT ![2] = line] ]

\* Database._record_incident_on: first, second and last occurrence are kept.
Occurrence(i, line) ==
  [ count   |-> i.count + 1,
    samples |-> IF i.count < 3 THEN Append(i.samples, line)
                ELSE [i.samples EXCEPT ![3] = line] ]

\* UNIQUE(project_id, run_id, source_id, sequence).
NumbersTaken(o) ==
  \E i \in DOMAIN events :
    /\ events[i].run = run[o]
    /\ events[i].sequence - seen[o].cursor.sequence \in DOMAIN batch[o].found

IsError(e) == e.type = "log.line" /\ e.line \in Errors

\* The incident with the occurrences among the first n events of a batch.
Recording(found) ==
  LET after[n \in 0..Len(found)] ==
        IF n = 0 THEN incident
        ELSE IF IsError(found[n]) THEN Occurrence(after[n - 1], found[n].line)
        ELSE after[n - 1]
  IN  after

AppendObservation(o) ==
  LET b == batch[o] IN
  /\ At(o, "append")
  /\ ~NumbersTaken(o)
  /\ events' = events \o [ i \in DOMAIN b.found |->
                 [ run |-> run[o], sequence |-> seen[o].cursor.sequence + i,
                   type |-> b.found[i].type, line |-> b.found[i].line ] ]
  /\ incident' = Recording(b.found)[Len(b.found)]
  /\ cursor' = b.cursor
  /\ origin' = b.origin
  /\ overlapped' = (overlapped \/ cursor # seen[o].cursor)
  /\ Reset(o)
  /\ UNCHANGED replaced

AppendFails(o) ==
  /\ At(o, "append")
  /\ NumbersTaken(o)
  /\ Reset(o)
  /\ UNCHANGED <<store, flaws>>

\* A process starts with a new run_id; if it was running, it had died.
Start(o) ==
  /\ runs < MaxRuns
  /\ runs' = runs + 1
  /\ run' = [run EXCEPT ![o] = runs + 1]
  /\ Goto(o, "idle")
  /\ Forget(o)
  /\ UNCHANGED <<file, store, flaws>>

Observe(o) ==
  \/ Begin(o) \/ Stat(o) \/ ReadFile(o) \/ ReadFails(o)
  \/ AppendObservation(o) \/ AppendFails(o)

Next ==
  \/ WriteNext \/ WriteRest \/ RemoveFile
  \/ \E i \in Inodes : Replace(i)
  \/ \E o \in Observers : Observe(o) \/ Start(o)

Spec == Init /\ [][Next]_vars

\* The daemon polls for ever.
FairSpec == Spec /\ \A o \in Observers : WF_vars(Observe(o))

-----------------------------------------------------------------------------
(* Properties.                                                             *)

Cursors == [inode : Inodes \cup {Unknown, Missing}, offset : Nat, sequence : Nat]

EventTypes == {"log.line", "source.missing", "source.available",
               "source.rotated", "source.truncated"}

\* Every variable keeps its type; a missing file has no offset.
TypeOK ==
  /\ path.inode \in Inodes \cup {Missing}
  /\ path.data \in Seq([line : 1..MaxLines, end : BOOLEAN])
  /\ written \in 0..MaxLines
  /\ generation \in 1..(MaxReplacements + 1)
  /\ cursor \in Cursors
  /\ cursor.inode = Missing => cursor.offset = 0
  /\ origin \in 0..generation
  /\ events \in Seq([run : 1..MaxRuns, sequence : Nat,
                     type : EventTypes, line : 0..MaxLines])
  /\ incident \in [count : Nat, samples : Seq(0..MaxLines)]
  /\ pc \in [Observers -> {"off", "idle", "stat", "read", "append"}]
  /\ run \in [Observers -> 0..MaxRuns]
  /\ runs \in 0..MaxRuns
  /\ \A o \in Observers : seen[o].cursor \in Cursors /\ batch[o].cursor \in Cursors
  /\ replaced \in BOOLEAN /\ overlapped \in BOOLEAN

IsLine(e) == e.type = "log.line" /\ e.line # Fragment

Recorded(l) == \E i \in DOMAIN events : events[i].type = "log.line" /\ events[i].line = l

\* Each line is recorded at most once and in the order it was written, through
\* crashes, rotations and truncations, unless two observations overlapped or the
\* file was replaced between a stat and the open that followed it.
LinesOnceInOrder ==
  ~replaced /\ ~overlapped =>
    \A i, j \in DOMAIN events :
      i < j /\ IsLine(events[i]) /\ IsLine(events[j]) => events[i].line < events[j].line

\* The cursor skips nothing: as long as its offset belongs to the content of the
\* file, every complete line before it has been recorded as a whole.
CursorSkipsNothing ==
  origin = generation /\ cursor.inode = path.inode =>
    \A p \in 1..cursor.offset :
      p <= Len(path.data) /\ (path.data[p].end => Recorded(path.data[p].line))

\* The events are numbered 1, 2, 3, ... over all runs, and the cursor holds the
\* last number, whatever failed or crashed in between, unless two observations
\* overlapped.
SequenceHasNoGaps ==
  ~overlapped =>
  /\ cursor.sequence = Len(events)
  /\ \A i \in DOMAIN events : events[i].sequence = i

\* The error lines among the first n events.
ErrorsUpTo(n) == { i \in 1..n : IsError(events[i]) }

\* The incident tells the error lines that were recorded: how many, and the
\* first, the second and the last of them.
IncidentTalliesErrors ==
  LET total == Cardinality(ErrorsUpTo(Len(events))) IN
  /\ incident.count = total
  /\ Len(incident.samples) = IF total < 3 THEN total ELSE 3
  /\ \A i \in ErrorsUpTo(Len(events)) :
       LET k == Cardinality(ErrorsUpTo(i)) IN
         /\ k < 3 => incident.samples[k] = events[i].line
         /\ k >= 3 /\ k = total => incident.samples[3] = events[i].line

\* The last notice among the first n events is that the file is missing.
Absent(n) ==
  \E i \in 1..n : /\ events[i].type = "source.missing"
                 /\ \A j \in i..n : events[j].type # "source.available"

\* A missing file is reported once until it is back, and the cursor says which of
\* the two it was last, unless two observations overlapped.
AbsencesAlternate ==
  ~overlapped =>
  /\ \A i \in DOMAIN events :
       /\ events[i].type = "source.missing" => ~Absent(i - 1)
       /\ events[i].type = "source.available" => Absent(i - 1)
  /\ (cursor.inode = Missing) <=> Absent(Len(events))

\* Events and cursor are committed together: the cursor has the number of the
\* last event and knows which notice it was.
CursorTellsTheEvents == SequenceHasNoGaps /\ AbsencesAlternate

InFile(l) == \E p \in DOMAIN path.data : path.data[p].line = l /\ path.data[p].end

Polled == \E o \in Observers \ OneShot : pc[o] # "off"

\* A line that stays in the file is recorded once the service runs, unless a
\* line of the file does not decode, the file was replaced behind the observer's
\* back or two observations overlapped.
LinesGetRecorded ==
  \A l \in 1..MaxLines :
    InFile(l) /\ Polled ~>
                 \/ Recorded(l)
                 \/ ~InFile(l)
                 \/ origin = Torn \/ overlapped
                 \/ \E p \in DOMAIN path.data : path.data[p].line \in Poison
=============================================================================
