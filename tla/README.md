# TLA+ models of Project Agent Controller

Project Agent Controller is a local control plane for one machine: it observes
log files, processes, containers, Git work trees and CI checks of several
projects, stores what it sees as numbered events and aggregated incidents in one
SQLite database, runs configured verification tasks, and can be stopped as a
whole.  These modules model the parts of it in which several threads, processes
and failures meet, check them with TLC and prove their main properties with TLAPS.

All source paths below are relative to `src/project_agent_controller/` in the
repository.  `PROJECT.json` maps each definition to the lines it models.

## 1. The system

### Parts, state and operations

| part | state | operations | module |
|---|---|---|---|
| `control/service.py` | row `controller_state`, log `control_events` | drain, emergency_stop, clear_emergency_stop, complete_recovery | `ControllerState`, `TwoKeyGate` |
| `runner/service.py` | tables `task_runs`, `task_attempts`, `runner_circuits` | run: look up, admit, claim the circuit, attempt, finish, record | `TaskRunner` |
| `runner/executor.py` | a temporary workspace, a process group, a deadline | execute: check, extract HEAD, check, start, poll, kill, collect | `Executor`, `AttemptContract` |
| `observer/file_source.py` with `ObserverRunner._observe_file` | row `source_cursors`, tables `events`, `incidents`, `incident_samples` | read the cursor, stat, open and read, commit | `FileObserver` |
| `observer/runner.py` | in-process lock | observe_once over the sorted sources | `ObservationCycle`; each source in a module of its own |
| `observer/daemon.py` | stop event, asyncio task, `last_errors` | run_cycle, start, stop | `ObservationCycle` |
| `observer/state_store.py` | table `source_states` | append (events, incidents and state in one transaction), get, list | `ScmObserver`, `SystemObserver` |
| `observer/process_source.py`, `process_provider.py` | last snapshot, thresholds crossed, heartbeat time | observe | `SystemObserver` |
| `observer/docker_source.py`, `docker_provider.py`, `docker_transport.py` | last container snapshot, log cursor (timestamp and hashes) | observe, logs | `SystemObserver` |
| `observer/git_source.py`, `git_provider.py`, `git_transport.py` | last HEAD, branch, dirtiness, divergence, conflicts | observe | `ScmObserver` |
| `observer/github_ci_source.py`, `github_ci_provider.py`, `github_transport.py` | last answer, failing identities, backoff attempt and deadline | observe, aggregate | `ScmObserver` |
| `curation/` | none of its own | fingerprint, redact, shrink a brief to a byte limit | incidents in `FileObserver` |
| `knowledge/` | tables `knowledge_*` | rebuild, match | `KnowledgeIndex` |
| `storage/database.py`, `schema.sql` | every table | one transaction per method | in the module of the component that calls it |
| `api/`, `cli.py`, `app.py`, `runtime.py`, `settings.py`, `config/`, `registry/`, `domain/`, `service_*` | none, or read once at start | adapters, validation, rendering | not modelled |

### How they interact

The parts share nothing but the database.  The service is one process with a
daemon thread and API threads; every `pac ...` command is another process with
a runtime of its own.  An operator changes `controller_state` from any of them.
`ObserverRunner` reads it once per `observe_once`; `TaskRunnerService` reads it
before a request and before each attempt; `TaskExecutor` reads it twice before it
starts a process and every 100 ms afterwards.  A CI observation reads the state
its project's Git observation stored in the same pass.  Every runtime that is built,
the service's and each command's, rebuilds the knowledge index in one transaction.

### What is hard

- A decision is taken on a state read in one transaction and carried out in a
  later one (control requests, task requests, observations).
- Every process may die between two transactions; a stored `running` row, a
  stored probe flag and a stored `DRAINING` outlive it.
- The log file under the observer is written, truncated, rotated and removed
  while it is read.
- A container's log is read by timestamp: lines share one, repeat it, and arrive
  behind later ones; reads are cut at a limit and fail.
- The polling task, manual observations and the shutdown meet at one lock.
- Knowledge files are edited while two processes index them and a third matches.
- The child process, its descendants, the deadline and a stop race each other.

### What makes each part correct

Control: the audit trail explains the state, ACTIVE is reached only through a
cleared stop, answers are true.  Task runner: one story per idempotency key, ended
requests never change, the circuit counts what happened and can always close.
Executor: the result agrees with the process, and a stop ends the process and
sends its whole group the kill.  File observer: each line once, in order, and never skipped; events,
cursor and incident move together.  Daemon: no source starves behind
another project, a stop overruns one pass at most, a shutdown ends.  Sources: one
event per change, no change lost, and between changes nothing but heartbeats and
`logs.unavailable`, which every failing read of a log reports.  Docker log: no line twice, none
skipped.  CI: a failure, by name and conclusion, is reported once per HEAD; a backoff the row has is kept.
Knowledge: the index is that of one reading of the directory and never goes back.
The hazards behind these, line by line, are in `PROJECT.json`.

## 2. Plan

| step | modules | state |
|---|---|---|
| 1 | `TwoKeyGate`, `ControllerState` | checked and proved |
| 2 | `TaskRunner` | checked and proved |
| 3 | `AttemptContract`, `Executor` | checked and proved |
| 4 | `FileObserver` | checked, safety proved |
| 5 | `ScmObserver`: the Git source and the CI source that reads its row, in the passes of `observe_once` | checked and proved |
| 6 | `SystemObserver`: process and container reducers, the log cursor against a re-delivering engine | checked and proved |
| 7 | `ObservationCycle`: polling task, manual observations, shutdown, a failing source, death of the task | checked, safety proved |
| 8 | `KnowledgeIndex`: concurrent rebuilds with quarantine, and match | checked and proved |

The abstract specifications are the contracts between parts: `TwoKeyGate` (what
everybody relies on about the stop state, implemented by `ControllerState`, used
by `TaskRunner`, `Executor` and `ObservationCycle`) and `AttemptContract` (what the task runner
relies on about the executor, implemented by `Executor`).

## 3. The modules

### TwoKeyGate and ControllerState

`controller` is the row, `audit` the rows of `control_events`, and each caller
goes through read, decide, commit.  `ReadForDrain`, `ReadForStop`, `ReadForClear`
and `ReadForComplete` are the four methods up to their call of `_transition`;
`Transition` is its check of the legal transitions; `CommitTransition` and
`RefuseTransition` are the two ends of the `BEGIN IMMEDIATE` compare-and-set;
`AfterTransition` sends a drain into its second transition.  A caller may die
between any two of them.  `raced` and `held` are history variables: whether
another transition overlapped the request, and which states were in force during it.
Empty actor and reason texts are rejected before anything is read and are left out.

`TwoKeyGate` counts approvals: ACTIVE is two, RECOVERING one, every other state none.

### TaskRunner

A runner is one call of `run`.  Its program counter goes through the
transactions in the order of the code: `Lookup`, `RequireActive`, `ClaimCircuit`,
`CreateRun`, `RereadRun`, then per attempt `StartAttempt`, `Execute`,
`AppendAttempt`, and at the end `FinishRun` and `RecordOutcome`.  `keys` is the
gate.  Runners of one request meet in `CreateRun`: the INSERT of the second one
fails quietly, and `RereadRun` gives it the first one's row.  `AppendRefused`
is the primary key of `task_attempts`.  `claimed` and `repeated` are history.  All requests
belong to one project, since circuits and runs of two projects never touch.
Classifications are grouped by what the code does with them: failed and timeout
are retried, policy and infrastructure errors are not.

### AttemptContract and Executor

`Executor` is one call of `execute`: `pc` follows the code, `leader` and
`descendants` are the process group, `workspace` the temporary directory,
`deadline` whether the timeout has passed.  `classification` is what the polling
loop decides, `result` what the call returns: the two differ when the directory
cannot be removed.  `CleanupFails` is that `OSError`, at every exit that leaves the
block of the directory, also after a kill: the result is then an infrastructure
error and the directory `torn`.  `Kill` sends the group SIGKILL and waits for the
leader; a descendant is `killed` until `DescendantsEnd` takes it away, which may
be after the call has returned.  `CheckRaises` is a database error in
`execution_allowed`, `Die` the death of the runner.

In the contract a call decides (`Decide`, from the polling loop, or `Answer`, which
returns at once), and ends with what it decided or with an infrastructure error
(`End`).  `Phase` and `Verdict` map the call to it: decided is a call with a
classification that has not returned, and the verdict of a returned call is its result.

### FileObserver

A file is a sequence of writes; each is the first part of a line or its rest,
and offsets count writes, so an unfinished line at the end of a read is a case
of its own.  `Begin`, `Stat`, `ReadFile` and `AppendObservation` are the four
moments at which the observer touches shared state; `Notice` is the
decision between available, rotated, truncated and grown, `StartOffset` where it
reads from, `LineEnds` and `LineEvents` what it finds there, `ReadBatch` the batch
with its numbers and its next cursor.  An inode may be
used again.  `NumbersTaken` is the UNIQUE constraint over run and sequence.
History variables: `generation` counts contents of the path, `origin` says which
of them the stored offset belongs to, `replaced` and `overlapped` record the two
races that excuse duplicates.  All error lines share one fingerprint, so the
incident sees every one of them.

### ScmObserver

`gitRow` and `ciRow` are the two `source_states` rows, `at` the place of a pass:
`BeginPass` is the check of the controller, then one Git action
(`GitAvailable`, `GitUnavailable`) and one CI action (`CiBlocked`, `CiBacksOff`,
`CiUnavailable`, `CiAvailable`), or `PassFails`.  Reading the previous row, asking the provider and storing
are one action: the lock excludes passes within one process, and what two processes do to each
other is the subject of `FileObserver`.  What a poll finds is free, so the repository and the
CI server have no state.  `NoHead`, `BackingOff`, `Transitions`, `NewFailures`,
`Recovered`, `Delay` and the like are the decisions of the reducers.  Branch,
detachment, dirtiness and divergence, which are compared and reported alike, are one
value `tree`.  Times are ticks since the last heartbeat and until the end of the backoff.
A failing run is a name and a conclusion, and its identity these and the commit: a check
whose conclusion changes is another run, as in the code.  Several runs of one name and
conclusion count as one, since the comparisons do not tell them apart.  `Listed` is what an answer names: the
first `max_failed_checks` failing runs of the only page asked for, which lacks some when there are
more than `max_check_runs` runs (`crowded`).  A 304 serves the stored copy of an unchanged answer and needs no case of its own, since an
ETag identifies what it was given for.  An event is a record of what its payload tells;
`gitTold` and `ciTold` are what a reader of all events so far knows.  Of a source
that gives no answer nothing but the reason is known.  Numbers of
events are left out: each action adds its events after the row's sequence in the
same transaction.  Other history: `reported`,
`gitQuiet`, `ciQuiet`, `embargo` (the wait the last answer imposed, `Imposed` after a failing one), `heeded`
(the row has kept that wait) and `news`.

### SystemObserver

One process or container, since two share nothing; `kind` says which, and whether
its log is read.  A poll is one action: `Unavailable`, `ProcessAvailable`,
`DockerAvailable`, or with a log `LogsRead` and `LogsFail`.  `row` is the
`source_states` row; `Failure`, `Gone`, `ProcessEvents`, `DockerEvents`, `High`, `Beat` and
`Heartbeats` are the decisions of the reducers.  Metrics are levels: below 90% of the
threshold, below it, above it.  `log` is what the engine has, lines in the order in which it merged
stdout and stderr; a line is a timestamp and a hash.  `Answered` says which lines the
engine replies with, the tail without a cursor and otherwise everything not older than the
cursor's timestamp; `Take` is what the loop over them does with one, `Reading` the loop, `LastHashes` the cut of the cursor.  `told` is what a reader
of all events knows (`Tell`), `kept` the lines recorded since the cursor was last
dropped.  Incidents of error lines go the way of `FileObserver`'s and are left out.

### ObservationCycle

A thread is the polling task or a manual request of the API.  `Enters` is the lock
of `ObserverRunner`, `Admitted` the check under it, `ObserveSource` and `SourceRaises`
one source of the pass.  `CheckStop`, `BeginCycle`, `EndBlockedCycle` and `EndPause` are
`_run_forever` and `run_cycle`; `StateUnread` and `TaskFails` are a database error in
`get_state` where it is caught and where it is not.  `Shutdown` and `Exit` are the two halves of
`ObserverDaemon.stop` with the end of the process, `Killed` its death.  `keys` is the gate.
`polled` and `overrun` are history: the source observed in the last step, and how many
have been observed since the gate was shut.

### KnowledgeIndex

A file is absent, malformed or an entry of which only what the index and match tell apart is
kept.  `BeginRebuild`, `ReadFile`, `CommitRebuild` and `RebuildFails` are a rebuild,
`draft` the tables inside its transaction; several files may change between two reads.
`Insert` is `_insert_entry` with its two ways to fail.  `SelectExact`, `SelectText`
and `SelectEntries` are the SELECTs of a match.  `basis` and `age` are history: the contents an index was made
of, and how often each file had been edited when it was read.

## 4. The runs

| run | question | bounds |
|---|---|---|
| `MCControllerState` | does every interleaving of requests leave a legal, explained, true history, and does a drain end? | 3 callers, 4 requests: enough for a stop, clear, complete and drain to overlap pairwise with a third caller stale |
| `MCTaskRunner` | ledger, finality, idempotent repetition and circuit bookkeeping; is every probe answered? | 2 runners, 2 keys, 2 attempts, threshold and cooldown 1, one tick: a duplicate or a stranger, and a retry; the safety properties are proved for any number of runners |
| `MCExecutor` | classification, process, workspace and contract; do a stop and the deadline end the process? | none needed: the state space is finite |
| `MCFileObserver` | lines, cursor, numbering, incident, absences | a polling and a one-shot process, 2 lines in up to 4 writes, 1 replacement, 2 starts; overlapping observations re-read lines, so incidents pass the third sample |
| `MCScmObserver` | do the stored changes tell the rows, is a failing run reported twice or wrongly, are intervals kept? | 2 commits, 2 work trees, 1 check with 2 failing conclusions, which are two runs as far as the comparisons go, of which an answer lists 1 (so the conclusion changes and the list is overrun); 2 kinds of Git and 3 of CI failures, each with or without a reset in 2 ticks, heartbeat of 1 tick, backoffs of 1 and 2 |
| `MCFileObserverLive` | is a line that stays recorded? | 1 process, 3 lines of which one does not decode, 1 replacement |
| `MCSystemObserver` | do the events tell the row, is silence filled, is each log line recorded once and none skipped? | 4 identities (one that neither row nor events have is always left), 2 states, 2 healths, 2 kinds of failure, 3 levels of each metric, heartbeat of 2 ticks; with a log 4 lines over 2 timestamps, tail 1, 2 lines a batch and 2 hashes a cursor: a tail is cut, a batch behind the cursor that finds 3 new lines is cut, and a timestamp may have more lines than the cursor has hashes |
| `MCObservationCycle` | do passes exclude each other, how far does a stop overrun, does any source starve, does a shutdown end? | the polling task and 1 request, 2 projects of 3 sources, the second source of the first project failing: a clean source before it, one after it, and a project behind it |
| `MCKnowledgeIndex` | is the index always that of one reading and never an older one, is an answer that of one index? | 2 rebuilding processes, 1 reader, 2 files, 1 edit of each, 6 documents: two of one identifier that differ in status and words, one that repeats a fingerprint, a shared lesson, a prompt of its identifier, a malformed file; answers of 1 so that the limit cuts |

What their properties say; each module has one type invariant, `TypeOK`, besides:

| property | says |
|---|---|
| `AuditExplainsTheState`, `AnswersAreTrue`, `ImplementsGate`, `DrainSettles` | the audit rows are a legal chain to the state in force; an answer was in force and a refusal had a rival; the stop state is the two-key gate; a drain whose caller lives gets beyond DRAINING |
| `AttemptLedger`, `TerminalIsFinal`, `RepeatReturnsStoredOutcome` | attempts are gapless and bounded and agree with the request's end; an end is never changed; a repeat after it executes nothing |
| `CircuitIsBacked`, `TrippedCircuitCanCool`, `ProbeIsAnswered` | failures and probe of the circuit belong to requests; an open circuit knows since when; a probe is answered unless its runner dies |
| `ResultTellsTheExit`, `NothingIsStranded`, `ImplementsContract`, `StopReachesTheProcess` | the result is how the process ended, unless the directory could not be removed; when a stopped call returns its process is gone and no descendant in the group escaped the kill; no process outlives its directory unless the look at the gate raised; the call keeps `AttemptContract`; a stop and the deadline end the process |
| `LinesOnceInOrder`, `CursorSkipsNothing`, `CursorTellsTheEvents`, `IncidentTalliesErrors`, `LinesGetRecorded` | each log line is recorded once and in order; the offset leaves no line behind; cursor and events agree; the incident counts and samples what was recorded; a line that stays is recorded in the end |
| `EventsTellTheRows`, `CiReportsAreReal`, `IntervalsAreKept` | a reader of the events knows the Git and CI rows; what CI reports of failing runs (name and conclusion) is true and new, as far as the answers name them; heartbeats are spaced, and the provider is not asked before the wait is over that the row has kept |
| `EventsTellTheRow`, `HeartbeatsFillSilence`, `LinesOnce`, `NoLineIsSkipped` | the same of processes and containers; a source in sight is never silent for longer than a heartbeat; a container's log lines are recorded once, and none is passed over |
| `StopOverrunsOnePass`, `EverySourceIsPolled`, `ShutdownEnds` | after a stop at most the sources of the pass in progress are observed, where the documents have none (see the findings); no source starves behind another project; a shutdown ends |
| `IndexTellsTheFiles`, `IndexNeverGoesBack`, `MatchTellsOneIndex` | the index is that of one reading of the directory; it never returns to an older content; an answer lists only what applies and is that of one index unless a rebuild came between |

Symmetry is used only in runs without liveness properties, over values (runners,
commits, work trees, checks, identities, kinds of failure) none of the constants distinguishes.

Runs that TLC refutes, each against a sentence of the repository's documentation (see "findings"):

| run | what happens |
|---|---|
| `MCTaskRunnerDuplicate` (`OneActiveTaskPerKey`) | two calls with one key pass the lookup together; both execute |
| `MCTaskRunnerTwoProbes` (`OneHalfOpenProbe`) | a straggler's failure resets the probe flag; a second probe joins the first |
| `MCTaskRunnerMixed` (`TrippedCircuitCanCool`) | failures counted under a higher threshold trip a lower one without an open time, and the claim raises |

Disagreements with the documents that passing runs respect: the property is stated as the code
keeps it, its comment names the exception, and "findings" quotes the sentence it falls short of
(`v0.1b` and `v0.1c` are the design documents of 2026-07-22 in `docs/superpowers/specs/`).

- `StopOverrunsOnePass`: an emergency stop lets the pass in progress call the providers of all its
  remaining sources, because `observe_once` reads the state once (`observer/runner.py:105`).  v0.1b:263
  and :285, v0.1c:288 and :385 and the repository's README (line 37) have no provider called after a stop.
- `CiReportsAreReal`: a check that goes on failing at one HEAD with another conclusion is reported as
  recovered, and fails anew with an incident of its own, because its identity includes the conclusion
  (`observer/github_ci_source.py:359`); v0.1c:278 has no second incident.  A failing check that leaves
  an answer for lack of room, on the page or in the list, is reported as recovered too.
- `IntervalsAreKept`: the reset of a rate limit is waited for only after a 403 without requests left
  (`observer/github_transport.py:180`).  A 200 without requests left, a 429, and a pass without Git state
  or HEAD in between forget it, and so does a pass that fails after the answer; v0.1c:285 has the provider skipped until the reset.

Met while modelling and described only here, because no property of the passing runs forbids them
(a property that would is said with its exception):

- A stop or a timeout whose directory cannot be removed is reported as an infrastructure error, like
  a success or a failure, although the process was killed (`runner/executor.py:76`, `:94`).
- A killed descendant may still be there when the call returns: it waits for the leader only
  (`runner/executor.py:184`).
- A drain kills the tasks that run, as a stop does: the gate shuts for both, where
  `docs/operations/stop-circuit-breaker-and-recovery.md:72` has a drain wait for them.
- A one-shot `pac observe-once` beside the service commits on a cursor that has moved: lines are
  recorded twice, and a late commit sets the cursor back below the service's own numbers.  The
  repository's README (line 17) says that polling and manual observation exclude each other;
  `ObserverRunner._lock` does this within one process only.
- A log cursor that has met no line yet asks for the tail again: a first burst longer than
  `log_tail_on_attach` is cut, and with 0 nothing is ever recorded
  (`docs/superpowers/specs/2026-07-22-v0.1b-system-observers-design.md:233` speaks of the first attach only).
- An outage drops the log cursor, and the tail is recorded a second time.  A container that takes the place
  of an exited one and has exited itself gets no exited event of its own.  A manual restart that leaves
  `RestartCount` as it was is not seen.  Failing stats read as low memory and report a recovery.
- A log answer over 8 MiB, or a line that does not decode, fails every later read from the same cursor.
- A database error in `get_state` outside `observe_once` ends the polling task for good; the service goes on.
- A knowledge file that repeats a fingerprint is indexed up to the repetition and quarantined too.  A match beside
  a rebuild may score an entry by an older index.  A knowledge file that vanishes during a rebuild aborts it, and
  with it the start of the service or command.  Nothing under `src/` but tests calls match.
- While draining no source is observed, though `docs/operations/stop-circuit-breaker-and-recovery.md:71` has the read-only watchers go on.

Further: of two stops that read ACTIVE the second one's
compare-and-set raises although the controller is stopped; a half-open probe whose runner dies is
never answered and the circuit stays half-open; a check that fails already when CI is first seen or comes back gets no incident;
a process can start just after a stop (it is killed at the first poll); a database
error in the polling loop orphans the process; a blocked request advances the
circuit like a failed one; a file truncated and regrown past its old offset looks
like growth.

### Fairness

`ControllerState!FairSpec`, `TaskRunner!FairSpec` and `Executor!FairSpec` assume
that a call that has not died takes its next step: they are plain synchronous calls.
`Executor` also assumes that time passes (`Expire`).
`FileObserver!FairSpec` assumes that the daemon keeps polling: `_run_forever` waits at
most `poll_interval_seconds` between two cycles.
`ObservationCycle!FairSpec` assumes that the polling task takes its steps, that an observation
ends (every provider has a timeout), that a service whose task and threads have ended exits,
and, strongly, that a thread that waits for the lock again and again finds it free and the
database answering: `threading.Lock` wakes a waiter, and a read fails only while another
process holds the database longer than its busy timeout.  Nothing is assumed of operators, the
child process, the writer of the log or failures.

## 5. The proofs

Each `*Proofs` module proves its theorems for every value of the constants, from
the named assumptions of the module (sets of callers, runners and requests of
any size; limits in the ranges `domain/models.py` validates).

- `ControllerStateProofs`: the invariant adds to the audit chain that a planned
  transition is legal and that nobody plans the step to ACTIVE from anything but
  RECOVERING, nor to RECOVERING from anything but EMERGENCY_STOP.  It is needed
  because the commit only compares the state it starts from.  The refinement of
  the gate follows; that an answered state was in force (`AnswersAreTrue`) needs a second invariant about the states held.
- `TaskRunnerProofs`: `LedgerInv` relates each runner's attempt number to the
  ledger of its request: whoever is in the loop has a request that is not absent,
  and at most one runner can append a given number.  Finality follows from the
  step lemma; that failures are backed by requests (`CircuitIsBacked`) is proved by counting the requests whose
  runner passed `RecordOutcome`; `TrippedCircuitCanCool` assumes equal thresholds,
  which `MCTaskRunnerMixed` shows is needed.
- `ExecutorProofs`: the invariant says for each step what is known of the
  process, the classification and the result, and that an error hides these only where the directory is torn;
  the contract's refinement uses it where the call returns.
- `ObservationCycleProofs`: while the gate is shut the pass that holds the lock has
  observed fewer sources since it was shut than it has reached (`Lag`), and no pass
  begins; so at most `Sources` are, for any projects, failures and requests.  A process
  begins with no thread at work (`Quiet`), without which a start could overlap a pass.
- `KnowledgeIndexProofs`: the tables of a rebuild under way always tell the files read
  so far (`Sound`).  The step lemma `ReadingTells` needs that these come before every
  file still to be read (`Ordered`) and that of each identifier one file comes first
  (`Covered`); that a nonempty set of files has a least element is the library's theorem
  on well-founded relations.  `Fresh` and `Alone` carry the order of two rebuilds:
  what the only rebuild under way has read is no older than the committed index.  `Told`
  says what a match has from its earlier SELECTs until a rebuild commits.  All four
  checked properties of `KnowledgeIndex` are theorems, for any documents and limits.

- `FileObserverProofs`: five layers, each proved with the ones before it.  `FileTypes`
  bounds every offset and number.  `NumberInv` says that a batch about to be committed is
  numbered from the cursor it was read with, and that unless two observations overlapped
  this is still the stored one.  `CoverInv` says of the stored cursor, of those read and of those about
  to be stored alike that every complete line before the offset is recorded or in the batch:
  the property alone forgets the batches in flight.  `Tallies` follows the incident one event at
  a time.  `OrderInv` adds that the lines of a file ascend and that whatever the file holds past
  the stored cursor, or past one that was read and is still the stored one, is newer than every
  recorded line (`Behind`).  That `LineEnds` lists the ends in their order is a
  lemma about any set of positions (`AscendingExists`).
- `ScmObserverProofs`: Git and CI apart, as the code keeps them (`GitInv`, `CiInv`).  The
  row's heartbeat age is never more than the true silence, and the wait the last answer imposed, while the row has kept it,
  never later than the backoff of the row, which is what makes the intervals hold; that every reported run is one of the
  row's, and those of its HEAD, is what makes a second incident impossible while the answers name it.  The names of failures are assumed to differ from
  the model's names for their absence.
- `SystemObserverProofs`: `RowInv` says what a reader knows and that the row's heartbeat age is
  the true silence while the source is there.  `LinesInv` is about the log (`Follows`): no recorded line is newer than the
  cursor, its hashes are recorded lines of its timestamp and, unless more share it than fit, all of them, and of the lines written
  after a recorded one only late ones are missing before it.  `ReadSoFar` is the same in the middle of a batch, proved
  position by position through `Reading` (`ReadingGoesOn`); a limit that cuts the batch keeps it
  because whatever is cut off and older than the new cursor is late (`BehindIsLate`).  Identities are told apart as the code does:
  a replacement has an identity neither the row nor the events have.  Assumed of the constants besides ranges: a
  process reports CPU and memory and is not OOM killed, as its provider has no such field.

So every invariant and every action property of the passing runs is a theorem.  The inductive
invariants of the three observers were checked with TLC, on the constants of their runs, before they were proved.

Only model-checked: the liveness properties (`DrainSettles`, `ProbeIsAnswered`,
`StopReachesTheProcess`, `LinesGetRecorded`, `EverySourceIsPolled`, `ShutdownEnds`), which the
prover does not reach.

## 6. Not modelled

Output capture, redaction and fingerprints (regular expressions over text); archive
extraction; HTTP, Git and Docker wire formats; configuration parsing; service files.
SQLite is taken as serialisable with atomic commits; `database is locked` appears
as the exceptions above.  Briefs: `curation/briefs.py` is a loop that drops items until a
serialised text fits a byte limit, which only the serialiser can say.
The engine is assumed to answer `since` with everything not older than it.
