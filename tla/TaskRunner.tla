----------------------------- MODULE TaskRunner -----------------------------
(***************************************************************************)
(* TaskRunnerService.run over the task_runs, task_attempts and             *)
(* runner_circuits tables of one project.                                  *)
(*                                                                         *)
(* A runner is one call of run: a `pac task run` process.  Runners share   *)
(* the database and nothing else.  Each of them goes through a dozen       *)
(* transactions; other runners, the operator and the clock move between    *)
(* any two of them, and a runner may die there.                            *)
(*                                                                         *)
(* The controller state is the TwoKeyGate that ControllerState implements. *)
(* The executor is reduced to its classification: "failed" stands for      *)
(* failed and timeout, which are retried, and "error" for policy_error and *)
(* infrastructure_error, which are not.                                    *)
(***************************************************************************)
EXTENDS Integers, FiniteSets

CONSTANTS
  Runners,       \* calls of run
  Requests,      \* (task_id, idempotency_key) pairs
  MaxAttempts,   \* by request: max_attempts of its task template
  Threshold,     \* by request: circuit_failure_threshold
  Cooldown,      \* by request: circuit_cooldown_seconds
  Workloads,     \* bound: which request each runner may be started with
  MaxTime        \* bound: the clock stops there

ASSUME TemplateAssumption ==
  /\ IsFiniteSet(Requests)
  /\ MaxAttempts \in [Requests -> 1..3]
  /\ Threshold \in [Requests -> 1..10]
  /\ Cooldown \in [Requests -> Nat \ {0}]
  /\ Workloads \subseteq [Runners -> Requests]
  /\ MaxTime \in Nat

Classifications == {"success", "failed", "error", "blocked"}

RunStates == Classifications \cup {"absent", "running"}

\* What a call of run returns or raises: a stored or a fresh classification, one
\* of the three refusals (TaskRunBlocked), or an exception nothing catches.
Replies == Classifications \cup
             {"none", "already_running", "not_active", "circuit_open", "raised"}

Steps == {"idle", "lookup", "admit", "claim", "create", "reread", "attempt",
          "execute", "append", "finish", "record", "done", "crashed"}

NULL  == -1
Never == [failures |-> 0, opened_at |-> NULL, probe |-> FALSE]  \* no row

VARIABLES
  keys,           \* the controller state, as approvals of the gate
  now,            \* wall clock
  run,            \* task_runs.state
  attempt_count,  \* task_runs.attempt_count
  attempts,       \* task_attempts rows: number and classification
  circuit,        \* the project's runner_circuits row
  pc, req,        \* where each runner is, and its request
  number,         \* attempt_number of its loop
  result,         \* classification of its last attempt
  reply,          \* what its call returned
  claimed,        \* history: it was let through as the half-open probe
  repeated        \* history: its request had already ended when it was sent

store  == <<run, attempt_count, attempts, circuit>>
locals == <<req, number, result, reply, claimed, repeated>>
vars   == <<keys, now, store, pc, locals>>

Gate == INSTANCE TwoKeyGate

Init ==
  /\ Gate!Init
  /\ now = 0
  /\ run = [q \in Requests |-> "absent"]
  /\ attempt_count = [q \in Requests |-> 0]
  /\ attempts = [q \in Requests |-> {}]
  /\ circuit = Never
  /\ pc = [r \in Runners |-> "idle"]
  /\ req \in Workloads
  /\ number = [r \in Runners |-> 1]
  /\ result = [r \in Runners |-> "blocked"]
  /\ reply = [r \in Runners |-> "none"]
  /\ claimed = [r \in Runners |-> FALSE]
  /\ repeated = [r \in Runners |-> FALSE]

Terminal(q) == run[q] \in Classifications

-----------------------------------------------------------------------------
(* TaskRunnerService.run up to the first attempt.                          *)

At(r, s) == pc[r] = s /\ UNCHANGED <<keys, now>>

Goto(r, s) == pc' = [pc EXCEPT ![r] = s]

Return(r, what) ==
  /\ Goto(r, "done")
  /\ reply' = [reply EXCEPT ![r] = what]

Submit(r) ==
  /\ At(r, "idle")
  /\ Goto(r, "lookup")
  /\ repeated' = [repeated EXCEPT ![r] = Terminal(req[r])]
  /\ UNCHANGED <<store, req, number, result, reply, claimed>>

\* Mutant: a running row is returned like any other.
Lookup_ReturnsRunning(r) ==
  /\ At(r, "lookup")
  /\ \/ run[req[r]] = "absent" /\ Goto(r, "admit") /\ UNCHANGED reply
     \/ run[req[r]] # "absent" /\ Return(r, run[req[r]])
  /\ UNCHANGED <<store, req, number, result, claimed, repeated>>

\* Mutant: only a running row is looked for.
Lookup_IgnoresEnded(r) ==
  /\ At(r, "lookup")
  /\ \/ run[req[r]] # "running" /\ Goto(r, "admit") /\ UNCHANGED reply
     \/ run[req[r]] = "running" /\ Return(r, "already_running")
  /\ UNCHANGED <<store, req, number, result, claimed, repeated>>

Lookup(r) ==
  /\ At(r, "lookup")
  /\ \/ run[req[r]] = "absent" /\ Goto(r, "admit") /\ UNCHANGED reply
     \/ run[req[r]] = "running" /\ Return(r, "already_running")
     \/ Terminal(req[r]) /\ Return(r, run[req[r]])
  /\ UNCHANGED <<store, req, number, result, claimed, repeated>>

RequireActive(r) ==
  /\ At(r, "admit")
  /\ \/ Gate!Open /\ Goto(r, "claim") /\ UNCHANGED reply
     \/ ~Gate!Open /\ Return(r, "not_active")
  /\ UNCHANGED <<store, req, number, result, claimed, repeated>>

Tripped(q) == circuit.failures >= Threshold[q]
Cooled(q)  == now - circuit.opened_at >= Cooldown[q]

\* Database.claim_runner_circuit.  An opened_at of NULL does not parse.
ClaimCircuit(r) ==
  LET q == req[r] IN
  /\ At(r, "claim")
  /\ \/ ~Tripped(q) /\ Goto(r, "create") /\ UNCHANGED <<circuit, reply, claimed>>
     \/ /\ Tripped(q) /\ circuit.opened_at = NULL
        /\ Return(r, "raised") /\ UNCHANGED <<circuit, claimed>>
     \/ /\ Tripped(q) /\ circuit.opened_at # NULL
        /\ ~Cooled(q) \/ circuit.probe
        /\ Return(r, "circuit_open") /\ UNCHANGED <<circuit, claimed>>
     \/ /\ Tripped(q) /\ circuit.opened_at # NULL
        /\ Cooled(q) /\ ~circuit.probe
        /\ circuit' = [circuit EXCEPT !.probe = TRUE]
        /\ claimed' = [claimed EXCEPT ![r] = TRUE]
        /\ Goto(r, "create") /\ UNCHANGED reply
  /\ UNCHANGED <<run, attempt_count, attempts, req, number, result, repeated>>

\* Database.create_task_run: an INSERT that a UNIQUE constraint may refuse ...
CreateRun(r) ==
  /\ At(r, "create")
  /\ run' = [run EXCEPT ![req[r]] = IF @ = "absent" THEN "running" ELSE @]
  /\ Goto(r, "reread")
  /\ UNCHANGED <<attempt_count, attempts, circuit, locals>>

\* ... then a second transaction that reads whatever row is there.
RereadRun(r) ==
  /\ At(r, "reread")
  /\ \/ run[req[r]] = "running" /\ Goto(r, "attempt") /\ UNCHANGED reply
     \/ run[req[r]] # "running" /\ Return(r, run[req[r]])
  /\ UNCHANGED <<store, req, number, result, claimed, repeated>>

-----------------------------------------------------------------------------
(* TaskRunnerService._execute_attempts, and the end of run.                *)

StartAttempt(r) ==
  /\ At(r, "attempt")
  /\ \/ Gate!Open /\ Goto(r, "execute") /\ UNCHANGED result
     \/ /\ ~Gate!Open /\ Goto(r, "append")
        /\ result' = [result EXCEPT ![r] = "blocked"]
  /\ UNCHANGED <<store, req, number, reply, claimed, repeated>>

\* TaskExecutor.execute returns; it answers "blocked" only when it read a
\* controller state other than ACTIVE.
Execute(r, c) ==
  /\ At(r, "execute")
  /\ c = "blocked" => ~Gate!Open
  /\ result' = [result EXCEPT ![r] = c]
  /\ Goto(r, "append")
  /\ UNCHANGED <<store, req, number, reply, claimed, repeated>>

\* Mutant: task_attempts has no primary key.
HasAttempt_Unkeyed(q, n) == FALSE

HasAttempt(q, n) == \E a \in attempts[q] : a.number = n

\* Mutant: one attempt too many.
AppendAttempt_OneMore(r) ==
  LET q == req[r] IN
  /\ At(r, "append")
  /\ ~HasAttempt(q, number[r])
  /\ attempts' = [attempts EXCEPT
                    ![q] = @ \cup {[number |-> number[r], class |-> result[r]]}]
  /\ attempt_count' = [attempt_count EXCEPT ![q] = number[r]]
  /\ \/ /\ result[r] = "failed" /\ number[r] <= MaxAttempts[q]
        /\ number' = [number EXCEPT ![r] = @ + 1]
        /\ Goto(r, "attempt")
     \/ /\ result[r] # "failed" \/ number[r] > MaxAttempts[q]
        /\ Goto(r, "finish") /\ UNCHANGED number
  /\ UNCHANGED <<run, circuit, req, result, reply, claimed, repeated>>

\* Database.append_task_attempt.  The primary key (run_id, attempt_number)
\* refuses a number that is taken; the exception leaves run.
AppendAttempt(r) ==
  LET q == req[r] IN
  /\ At(r, "append")
  /\ ~HasAttempt(q, number[r])
  /\ attempts' = [attempts EXCEPT
                    ![q] = @ \cup {[number |-> number[r], class |-> result[r]]}]
  /\ attempt_count' = [attempt_count EXCEPT ![q] = number[r]]
  /\ \/ /\ result[r] = "failed" /\ number[r] < MaxAttempts[q]
        /\ number' = [number EXCEPT ![r] = @ + 1]
        /\ Goto(r, "attempt")
     \/ /\ result[r] # "failed" \/ number[r] = MaxAttempts[q]
        /\ Goto(r, "finish") /\ UNCHANGED number
  /\ UNCHANGED <<run, circuit, req, result, reply, claimed, repeated>>

AppendRefused(r) ==
  /\ At(r, "append")
  /\ HasAttempt(req[r], number[r])
  /\ Return(r, "raised")
  /\ UNCHANGED <<store, req, number, result, claimed, repeated>>

\* Database.finish_task_run: UPDATE ... WHERE state = 'running'.
FinishRun(r) ==
  /\ At(r, "finish")
  /\ run' = [run EXCEPT ![req[r]] = IF @ = "running" THEN result[r] ELSE @]
  /\ Goto(r, "record")
  /\ UNCHANGED <<attempt_count, attempts, circuit, locals>>

\* Mutant: the circuit opens at the threshold but is stamped only after it.
Failure_StampedLate(q) ==
  LET failures == circuit.failures + 1 IN
  [ failures  |-> failures,
    opened_at |-> IF failures > Threshold[q] THEN now ELSE NULL,
    probe     |-> FALSE ]

\* Mutant: a failure leaves probe_in_progress as it is.
Failure_KeepsProbe(q) ==
  LET failures == circuit.failures + 1 IN
  [ failures  |-> failures,
    opened_at |-> IF failures >= Threshold[q] THEN now ELSE NULL,
    probe     |-> circuit.probe ]

Failure(q) ==
  LET failures == circuit.failures + 1 IN
  [ failures  |-> failures,
    opened_at |-> IF failures >= Threshold[q] THEN now ELSE NULL,
    probe     |-> FALSE ]

\* Mutant: a blocked request records nothing on the circuit.
RecordOutcome_SkipsBlocked(r) ==
  /\ At(r, "record")
  /\ circuit' = CASE result[r] = "success" -> Never
                  [] result[r] = "blocked" -> circuit
                  [] OTHER                 -> Failure(req[r])
  /\ claimed' = [claimed EXCEPT ![r] = FALSE]
  /\ Return(r, run[req[r]])
  /\ UNCHANGED <<run, attempt_count, attempts, req, number, result, repeated>>

\* record_runner_success deletes the row, record_runner_failure counts.
RecordOutcome(r) ==
  /\ At(r, "record")
  /\ circuit' = IF result[r] = "success" THEN Never ELSE Failure(req[r])
  /\ claimed' = [claimed EXCEPT ![r] = FALSE]
  /\ Return(r, run[req[r]])
  /\ UNCHANGED <<run, attempt_count, attempts, req, number, result, repeated>>

-----------------------------------------------------------------------------
(* The runner's process dies; the operator moves the gate; time passes.    *)

Crash(r) ==
  /\ At(r, pc[r])
  /\ pc[r] \notin {"idle", "done", "crashed"}
  /\ Goto(r, "crashed")
  /\ UNCHANGED <<store, locals>>

Operate ==
  /\ Gate!Next
  /\ UNCHANGED <<now, store, pc, locals>>

Tick ==
  /\ now < MaxTime
  /\ now' = now + 1
  /\ UNCHANGED <<keys, store, pc, locals>>

Step(r) ==
  \/ Lookup(r) \/ RequireActive(r) \/ ClaimCircuit(r)
  \/ CreateRun(r) \/ RereadRun(r)
  \/ StartAttempt(r)
  \/ \E c \in Classifications : Execute(r, c)
  \/ AppendAttempt(r) \/ AppendRefused(r)
  \/ FinishRun(r) \/ RecordOutcome(r)

Next ==
  \/ \E r \in Runners : Submit(r) \/ Step(r) \/ Crash(r)
  \/ Operate
  \/ Tick

Spec == Init /\ [][Next]_vars

\* A runner that did not die runs to its end: run is a synchronous call and the
\* executor's timeout ends every process.
FairSpec == Spec /\ \A r \in Runners : WF_vars(Step(r))

-----------------------------------------------------------------------------
(* Properties.                                                             *)

Attempts == [number : 1..3, class : Classifications]

\* Every variable keeps its type.
TypeOK ==
  /\ keys \in 0..2
  /\ now \in Nat
  /\ run \in [Requests -> RunStates]
  /\ attempt_count \in [Requests -> 0..3]
  /\ attempts \in [Requests -> SUBSET Attempts]
  /\ circuit \in [failures : Nat, opened_at : Nat \cup {NULL}, probe : BOOLEAN]
  /\ pc \in [Runners -> Steps]
  /\ req \in [Runners -> Requests]
  /\ number \in [Runners -> 1..3]
  /\ result \in [Runners -> Classifications]
  /\ reply \in [Runners -> Replies]
  /\ claimed \in [Runners -> BOOLEAN]
  /\ repeated \in [Runners -> BOOLEAN]

Numbers(q) == {a.number : a \in attempts[q]}

Ledger(q) ==
  /\ Numbers(q) = 1..attempt_count[q]
  /\ attempt_count[q] <= MaxAttempts[q]
  /\ \A a, b \in attempts[q] : a.number = b.number => a = b
  /\ \A a \in attempts[q] : a.number < attempt_count[q] => a.class = "failed"
  /\ run[q] = "absent" => attempts[q] = {}
  /\ Terminal(q) => /\ [number |-> attempt_count[q], class |-> run[q]] \in attempts[q]
                    /\ run[q] = "failed" => attempt_count[q] = MaxAttempts[q]

\* The attempt ledger of a request tells one story, however many runners work on
\* it and wherever they die: attempts are numbered without gaps up to
\* attempt_count and max_attempts, one row each, only a failed one is followed
\* by another, and a request ends exactly as its last attempt did, a failed one
\* only when no attempt was left.
AttemptLedger == \A q \in Requests : Ledger(q)

\* A request that has ended never changes again: no straggler or duplicate
\* runner rewrites its outcome or adds an attempt to it.
TerminalIsFinal ==
  [][ \A q \in Requests : Terminal(q) =>
        UNCHANGED <<run[q], attempt_count[q], attempts[q]>> ]_vars

\* A request repeated after it ended never gets as far as the executor, and
\* answers the stored outcome.
RepeatReturnsStoredOutcome ==
  \A r \in Runners : repeated[r] =>
    /\ pc[r] \in {"lookup", "done", "crashed"}
    /\ pc[r] = "done" => reply[r] = run[req[r]]

\* The consecutive failures of the circuit are never more than the requests that
\* ended without success: no request advances the circuit twice.
FailuresBackedByRequests ==
  circuit.failures <=
    Cardinality({q \in Requests : Terminal(q) /\ run[q] # "success"})

\* A circuit that refuses a request knows since when it is open, so that the
\* request's cooldown can end.
TrippedCircuitCanCool ==
  \A q \in Requests : Tripped(q) => circuit.opened_at \in 0..now

\* A half-open probe was granted to somebody whose outcome is still out.
ProbeHasClaimer == circuit.probe => \E r \in Runners : claimed[r]

\* What the circuit says is backed by requests, whichever runners died between
\* ending a request and recording its outcome.
CircuitIsBacked == FailuresBackedByRequests /\ ProbeHasClaimer

\* A half-open circuit closes or opens again, unless the runner it let through
\* was lost: it died, or its request was taken over by a duplicate.
ProbeIsAnswered ==
  circuit.probe ~>
    (~circuit.probe \/ \E r \in Runners : claimed[r] /\ pc[r] \in {"done", "crashed"})

\* One idempotency key has at most one active task.
OneActiveTaskPerKey ==
  \A r, s \in Runners :
    r # s /\ pc[r] = "execute" /\ pc[s] = "execute" => req[r] # req[s]

\* A half-open circuit lets exactly one probe through at a time.
OneHalfOpenProbe ==
  \A r, s \in Runners :
    r # s /\ claimed[r] /\ claimed[s] =>
      pc[r] \in {"done", "crashed"} \/ pc[s] \in {"done", "crashed"}
=============================================================================
