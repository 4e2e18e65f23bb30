--------------------------- MODULE SystemObserver ---------------------------
(***************************************************************************)
(* One system source, a process or a container, as ObserverRunner polls    *)
(* it: ProcessSourceObserver.observe or DockerSourceObserver.observe with  *)
(* DockerEngineProvider.logs, and the transaction that stores the events   *)
(* and the source_states row.                                              *)
(*                                                                         *)
(* Two sources share nothing, so one of either kind stands for all of      *)
(* them.  What a poll finds is free, but for what must be told apart over  *)
(* several polls: which process or container it is, and what the engine    *)
(* has in that container's log.  The log gets lines at any moment, with    *)
(* equal timestamps and, since stdout and stderr are stamped before they   *)
(* are merged, with timestamps out of order.  The polls of one process     *)
(* exclude each other (ObserverRunner._lock), and one that raises stores   *)
(* nothing; what a second process does to a row and its events is the      *)
(* matter of FileObserver.                                                 *)
(***************************************************************************)
EXTENDS Integers, Sequences, FiniteSets

CONSTANTS
  Units,      \* identities: a PID and its create time, or a container id
  States,     \* states of a container, statuses of a process
  Healths,    \* healths of a container, "none" when it has no check
  Errors,     \* kinds of failure: ambiguous, missing, access_denied, ...
  Snapshots,  \* bound: the snapshots a poll of each kind of source may find
  Heartbeat,  \* heartbeat_seconds
  OnAttach,   \* log_tail_on_attach
  Limit,      \* log_max_lines_per_cycle
  Window,     \* hashes a cursor keeps, 100 in the code
  MaxTime,    \* bound: distinct timestamps of log lines
  MaxLines    \* bound: lines of one container

Kinds     == {"process", "docker", "docker_logs"}  \* the last has include_logs
Resources == {"cpu", "rss", "memory"}
Levels    == {"low", "band", "high"}  \* below 90% or unknown, below 100%, above
Lines     == 1..MaxLines              \* the hashes of lines
Times     == 1..MaxTime

SnapshotType ==
  UNION { [state : States, health : Healths, oom : BOOLEAN, load : [rs -> Levels]] :
            rs \in SUBSET Resources }

ASSUME SystemAssumption ==
  /\ IsFiniteSet(Units) /\ Cardinality(Units) >= 4
  /\ "exited" \in States /\ "unknown" \notin States
  /\ "none" \in Healths /\ "unknown" \notin Healths
  /\ {"never", "up", "none"} \cap Errors = {}
  /\ "none" \notin Units \cup States
  /\ Snapshots \in [Kinds -> SUBSET SnapshotType]
  /\ \A s \in Snapshots["process"] : DOMAIN s.load = {"cpu", "rss"} /\ ~s.oom
  /\ {Heartbeat, Limit, Window} \subseteq Nat \ {0}
  /\ {OnAttach, MaxTime, MaxLines} \subseteq Nat

VARIABLES
  kind,     \* kind of the source, fixed
  unit,     \* the process or container that is there
  log,      \* its log at the engine: lines in the order they were merged
  row,      \* the source_states row
  told,     \* history: what the stored events say of the source
  quiet,    \* history: ticks since the last stored event
  kept,     \* history: lines recorded since the cursor last was empty
  news      \* history: what the last poll stored

engine == <<kind, unit, log>>
vars   == <<engine, row, told, quiet, kept, news>>

NoCursor == [at |-> 0, hashes |-> {}]   \* at 0: no last_timestamp

NoRow == [known |-> FALSE, available |-> FALSE, error |-> "none", unit |-> "none",
          state |-> "none", health |-> "none", oom |-> FALSE, high |-> {},
          beat |-> 0, cursor |-> NoCursor]

NoNews == [polled |-> FALSE, events |-> {}, lines |-> {}]

Init ==
  /\ kind \in Kinds
  /\ unit \in Units
  /\ log = << >>
  /\ row = NoRow
  /\ told = [state |-> "never", unit |-> "none", phase |-> "unknown", sure |-> FALSE,
             health |-> "unknown", oom |-> FALSE, high |-> {}]
  /\ quiet = 0
  /\ kept = {}
  /\ news = NoNews

Smaller(m, n) == IF m < n THEN m ELSE n

\* An event of this type is among them.
Has(events, type) == \E e \in events : e.type = type

-----------------------------------------------------------------------------
(* What a reader of the events knows.  A unit that comes up or takes       *)
(* another's place is unknown but for what is said of it; state and health *)
(* stay known across a restart of the same container, whose changes are    *)
(* reported.                                                               *)

Moved(events) ==
  \/ Has(events, "available")
  \/ \E e \in events : e.type = "restarted" /\ e.unit # told.unit

\* The value the events give a field, or the one known before.
Telling(events, field, known) ==
  IF \E e \in events : field \in DOMAIN e
  THEN (CHOOSE e \in events : field \in DOMAIN e)[field]
  ELSE known

Tell(events) ==
  LET anew == Has(events, "available")
      over(type, known) ==
        IF Has(events, type) THEN (CHOOSE e \in events : e.type = type).of ELSE known
  IN  [ state  |-> Telling(events, "presence", told.state),
        unit   |-> Telling(events, "unit", told.unit),
        phase  |-> Telling(events, "phase", told.phase),
        sure   |-> (\E e \in events : "phase" \in DOMAIN e) \/ (told.sure /\ ~Moved(events)),
        health |-> Telling(events, "health", IF Moved(events) THEN "unknown" ELSE told.health),
        oom    |-> Has(events, "oom_killed") \/ (told.oom /\ ~anew),
        high   |-> ((IF anew THEN {} ELSE told.high) \cup over("threshold", {}))
                     \ over("recovered", {}) ]

\* SourceStateStore.append: events, lines and row in one transaction.
Store(r, events, lines) ==
  /\ row' = r
  /\ told' = Tell(events)
  /\ quiet' = IF events # {} \/ lines # {} THEN 0 ELSE quiet
  /\ news' = [polled |-> TRUE, events |-> events, lines |-> lines]

-----------------------------------------------------------------------------
(* _unavailable, of both observers.                                        *)

\* Mutant: a failure is reported when the source was available, whatever it is.
Failure_OneKind(error) ==
  { e \in { [type |-> "unavailable", presence |-> error] } : row.available \/ ~row.known }

\* A failure is reported when it begins or when its kind changes.
Failure(error) ==
  { e \in { [type |-> "unavailable", presence |-> error] } :
      row.available \/ row.error # error }

\* Mutant: the last snapshot stays in the row.
Gone_KeepsRow(error) == [row EXCEPT !.known = TRUE, !.available = FALSE, !.error = error]

\* Of the last snapshot only the time of the heartbeat is kept: even the log
\* cursor goes.
Gone(error) == [NoRow EXCEPT !.known = TRUE, !.error = error, !.beat = row.beat]

\* No PID, no such container, more than one, no answer.
Unavailable ==
  /\ \E error \in Errors : Store(Gone(error), Failure(error), {})
  /\ kept' = {}
  /\ UNCHANGED engine

-----------------------------------------------------------------------------
(* _available, of both observers.                                          *)

\* _high: once crossed, a threshold counts down to 90% of it.
High(s) ==
  { r \in DOMAIN s.load :
      s.load[r] = "high" \/ (s.load[r] = "band" /\ r \in row.high) }

LoadEvents(high) ==
  { e \in { [type |-> "threshold", of |-> high \ row.high],
            [type |-> "recovered", of |-> row.high \ high] } : e.of # {} }

Same == row.available /\ row.unit = unit

\* A restart says nothing of the status of the new process.
ProcessEvents(s) ==
  { e \in { [type |-> "available", presence |-> "up", unit |-> unit, phase |-> s.state],
            [type |-> "restarted", unit |-> unit],
            [type |-> "state.changed", phase |-> s.state] } :
      \/ e.type = "available" /\ ~row.available
      \/ e.type = "restarted" /\ row.available /\ ~Same
      \/ e.type = "state.changed" /\ Same /\ row.state # s.state }

\* Mutant: an exit is no event of its own.
DockerEvents_NoExit(s, grown) ==
  { e \in { [type |-> "available", presence |-> "up", unit |-> unit],
            [type |-> "restarted", unit |-> unit],
            [type |-> "state.changed", phase |-> s.state],
            [type |-> "health.changed", health |-> s.health],
            [type |-> "oom_killed"] } :
      \/ e.type = "available" /\ ~row.available
      \/ e.type = "restarted" /\ row.available /\ (~Same \/ grown)
      \/ e.type = "state.changed" /\ Same /\ row.state # s.state
      \/ e.type = "health.changed" /\ Same /\ row.health # s.health
      \/ e.type = "oom_killed" /\ s.oom /\ ~row.oom }

\* grown: restart_count is greater than the row's.
DockerEvents(s, grown) ==
  { e \in { [type |-> "available", presence |-> "up", unit |-> unit],
            [type |-> "restarted", unit |-> unit],
            [type |-> "state.changed", phase |-> s.state],
            [type |-> "health.changed", health |-> s.health],
            [type |-> "exited", phase |-> "exited"],
            [type |-> "oom_killed"] } :
      \/ e.type = "available" /\ ~row.available
      \/ e.type = "restarted" /\ row.available /\ (~Same \/ grown)
      \/ e.type = "state.changed" /\ Same /\ row.state # s.state
      \/ e.type = "health.changed" /\ Same /\ row.health # s.health
      \/ e.type = "exited" /\ s.state = "exited" /\ row.state # "exited"
      \/ e.type = "oom_killed" /\ s.oom /\ ~row.oom }

\* Mutant: every poll counts as a heartbeat.
Beat_EveryPoll(events, lines) == 0

\* last_heartbeat_at: the time of the last poll that stored an event.
Beat(events, lines) == IF events # {} \/ lines # {} THEN 0 ELSE row.beat

Heartbeats(s, events, lines) ==
  { e \in { IF kind = "process" THEN [type |-> "heartbeat"]
            ELSE [type |-> "heartbeat", phase |-> s.state, health |-> s.health] } :
      events = {} /\ lines = {} /\ row.beat >= Heartbeat }

\* A snapshot, the events of its state and of the log, and the new log cursor.
Available(s, changes, lines, cursor) ==
  LET found  == changes \cup LoadEvents(High(s))
      events == found \cup Heartbeats(s, found, lines)
  IN  Store([known |-> TRUE, available |-> TRUE, error |-> "none", unit |-> unit,
             state |-> s.state, health |-> s.health, oom |-> s.oom, high |-> High(s),
             beat |-> Beat(events, lines), cursor |-> cursor], events, lines)

\* The CPU share compares two samples: the first one after an outage is 0.
\* Across a restart it compares two processes, and may be anything.
ProcessAvailable ==
  /\ kind = "process"
  /\ \E s \in Snapshots[kind] :
       /\ ~row.available => s.load["cpu"] = "low"
       /\ Available(s, ProcessEvents(s), {}, NoCursor)
  /\ UNCHANGED <<engine, kept>>

DockerAvailable ==
  /\ kind = "docker"
  /\ \E s \in Snapshots[kind], grown \in BOOLEAN :
       Available(s, DockerEvents(s, grown), {}, NoCursor)
  /\ UNCHANGED <<engine, kept>>

-----------------------------------------------------------------------------
(* DockerEngineProvider.logs.                                              *)

\* _previous_log_cursor: another container, or one that was away, has none.
PreviousCursor == IF Same THEN row.cursor ELSE NoCursor

\* What the engine answers: the last lines without a cursor, else what is not
\* older than the cursor's timestamp.
Answered(cursor, p) ==
  IF cursor.at = 0 THEN p > Len(log) - OnAttach ELSE log[p].at >= cursor.at

\* Mutant: lines of the cursor's own timestamp count as read.
Take_NewerOnly(batch, l) ==
  IF Len(batch.lines) >= Limit \/ l.at <= batch.at THEN batch
  ELSE [at |-> l.at, hashes |-> {l.hash}, lines |-> Append(batch.lines, l.hash)]

\* Mutant: the hashes of the last timestamp are not looked at.
Take_NoHashes(batch, l) ==
  IF Len(batch.lines) >= Limit \/ l.at < batch.at THEN batch
  ELSE [at |-> l.at,
        hashes |-> IF l.at > batch.at THEN {l.hash} ELSE batch.hashes \cup {l.hash},
        lines |-> Append(batch.lines, l.hash)]

\* One line of the answer: nothing after the limit, nothing older than the last
\* timestamp, nothing of that timestamp twice.
Take(batch, l) ==
  IF \/ Len(batch.lines) >= Limit
     \/ l.at < batch.at
     \/ l.at = batch.at /\ l.hash \in batch.hashes
  THEN batch
  ELSE [at |-> l.at,
        hashes |-> IF l.at > batch.at THEN {l.hash} ELSE batch.hashes \cup {l.hash},
        lines |-> Append(batch.lines, l.hash)]

\* sorted(recent_hashes)[-100:]
LastHashes(hs) == { h \in hs : Cardinality({ g \in hs : g > h }) < Window }

\* What is read after each position of the log.
Reading(cursor) ==
  LET read[p \in 0..Len(log)] ==
        IF p = 0 THEN [at |-> cursor.at, hashes |-> cursor.hashes, lines |-> << >>]
        ELSE IF Answered(cursor, p) THEN Take(read[p - 1], log[p])
        ELSE read[p - 1]
  IN  read

Batch(cursor) == Reading(cursor)[Len(log)]

LogsRead ==
  /\ kind = "docker_logs"
  /\ LET batch == Batch(PreviousCursor)
         lines == { batch.lines[i] : i \in DOMAIN batch.lines }
     IN  /\ \E s \in Snapshots[kind], grown \in BOOLEAN :
              Available(s, DockerEvents(s, grown), lines,
                        [at |-> batch.at, hashes |-> LastHashes(batch.hashes)])
         /\ kept' = (IF Same THEN kept ELSE {}) \cup lines
  /\ UNCHANGED engine

\* The engine fails, a line does not decode or the answer is too long: reported
\* at every poll, and the cursor stays.
LogsFail ==
  /\ kind = "docker_logs"
  /\ \E s \in Snapshots[kind], grown \in BOOLEAN :
       Available(s, DockerEvents(s, grown) \cup { [type |-> "logs.unavailable"] }, {},
                 PreviousCursor)
  /\ kept' = IF Same THEN kept ELSE {}
  /\ UNCHANGED engine

-----------------------------------------------------------------------------
(* The machine.                                                            *)

\* Another process or container takes the place: its identity is one that
\* neither the row nor the events have.
Replaced ==
  /\ unit' \in Units \ {unit, row.unit, told.unit}
  /\ log' = << >>
  /\ news' = NoNews
  /\ UNCHANGED <<kind, row, told, quiet, kept>>

\* Two lines of one stream with the same timestamp and text are one line.
LineWritten ==
  /\ kind = "docker_logs"
  /\ Len(log) < MaxLines
  /\ \E at \in Times, hash \in Lines \ { log[i].hash : i \in DOMAIN log } :
       log' = Append(log, [at |-> at, hash |-> hash])
  /\ news' = NoNews
  /\ UNCHANGED <<kind, unit, row, told, quiet, kept>>

Tick ==
  /\ row' = IF row.known THEN [row EXCEPT !.beat = Smaller(@ + 1, Heartbeat)] ELSE row
  /\ quiet' = Smaller(quiet + 1, Heartbeat)
  /\ news' = NoNews
  /\ UNCHANGED <<engine, told, kept>>

Next ==
  \/ Unavailable \/ ProcessAvailable \/ DockerAvailable
  \/ LogsRead \/ LogsFail
  \/ Replaced \/ LineWritten \/ Tick

Spec == Init /\ [][Next]_vars

-----------------------------------------------------------------------------
(* Properties.                                                             *)

\* Every variable keeps its type; only a source that is followed has a cursor.
TypeOK ==
  /\ kind \in Kinds
  /\ unit \in Units
  /\ log \in Seq([at : Times, hash : Lines])
  /\ row \in [known : BOOLEAN, available : BOOLEAN, error : Errors \cup {"none"},
              unit : Units \cup {"none"}, state : States \cup {"none"}, health : Healths,
              oom : BOOLEAN, high : SUBSET Resources, beat : 0..Heartbeat,
              cursor : [at : 0..MaxTime, hashes : SUBSET Lines]]
  /\ row.cursor # NoCursor => row.available /\ kind = "docker_logs"
  /\ told \in [state : {"never", "up"} \cup Errors, unit : Units \cup {"none"},
               phase : States \cup {"unknown"}, sure : BOOLEAN,
               health : Healths \cup {"unknown"}, oom : BOOLEAN, high : SUBSET Resources]
  /\ quiet \in 0..Heartbeat
  /\ kept \subseteq Lines

\* Whoever reads only the events knows what the row says: whether the source is
\* there and if not why, which process or container it is, its state and health
\* once they have been told, and which thresholds are crossed.  An exit or an
\* OOM kill the row shows has been reported, of this container or, when it took
\* the place of another that had met the same end, of that one.
EventsTellTheRow ==
  /\ row.known = (told.state # "never")
  /\ row.known /\ ~row.available => told.state = row.error
  /\ row.available =>
       /\ told.state = "up"
       /\ told.unit = row.unit
       /\ told.sure => told.phase = row.state
       /\ told.health \in {"unknown", row.health}
       /\ told.high = row.high
       /\ kind # "process" /\ row.state = "exited" => told.phase = "exited"
       /\ row.oom => told.oom

\* A source that is there is never silent for heartbeat_seconds: the poll that
\* finds it then stores a heartbeat, and no poll stores one earlier.
HeartbeatsFillSilence ==
  [][ /\ Has(news'.events, "heartbeat") => quiet = Heartbeat
      /\ news'.polled /\ row'.available => quiet' < Heartbeat ]_vars

LateAt(p) == \E q \in 1..(p - 1) : log[q].at > log[p].at

Crowded == \E t \in Times : Cardinality({ p \in DOMAIN log : log[p].at = t }) > Window

\* While a container stays in sight none of its lines is recorded twice, however
\* often the engine repeats it, unless more lines share one timestamp than the
\* cursor has hashes.
LinesOnce ==
  [][ Same /\ ~Crowded => news'.lines \cap kept = {} ]_vars

Following == Same /\ row.cursor.at > 0

\* What was written after a recorded line is recorded before the cursor moves
\* past its timestamp, through limits and failing reads, unless it was stamped
\* earlier than a line before it.
NoLineIsSkipped ==
  Following =>
    \A p, q \in DOMAIN log :
      q < p /\ log[q].hash \in kept /\ log[p].at < row.cursor.at /\ ~LateAt(p)
        => log[p].hash \in kept

=============================================================================
