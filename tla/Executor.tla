------------------------------ MODULE Executor ------------------------------
(***************************************************************************)
(* One call of TaskExecutor.execute: permission, temporary workspace, a    *)
(* second look at the controller, the child process, and the loop that     *)
(* polls the controller, the deadline and the process.                     *)
(*                                                                         *)
(* Around the call move the operator (the TwoKeyGate), the clock, the      *)
(* process itself and the descendants it leaves in its process group, and  *)
(* the runner may die.  What is extracted and printed is left out.         *)
(***************************************************************************)
EXTENDS Naturals

Outcomes == {"success", "failed", "timeout", "blocked", "policy_error",
             "infrastructure_error"}

Ended == {"returned", "raised", "died"}

Steps == {"idle", "first_check", "resolve", "extract", "second_check",
          "directory", "spawn", "poll", "deadline", "wait", "kill",
          "collect"} \cup Ended

Leaders == {"none", "running", "exit_zero", "exit_nonzero", "killed"}

VARIABLES
  keys,         \* the controller state, as approvals of the gate
  pc,           \* where the call is
  classification,  \* what the polling loop decided on
  result,       \* what execute returns
  workspace,    \* the temporary directory; "torn" when its removal failed
  leader,       \* the process that was started
  descendants,  \* the other processes of its group; "killed" until they are gone
  deadline      \* timeout_seconds after the start of the process

process == <<leader, descendants>>
vars    == <<keys, pc, classification, result, workspace, leader, descendants,
             deadline>>

Gate == INSTANCE TwoKeyGate

Init ==
  /\ Gate!Init
  /\ pc = "idle"
  /\ classification = "none"
  /\ result = "none"
  /\ workspace = "absent"
  /\ leader = "none"
  /\ descendants = "none"
  /\ deadline = "ahead"

-----------------------------------------------------------------------------
(* execute, up to the start of the process.                                *)

Go(from, to) == pc = from /\ pc' = to /\ UNCHANGED <<keys, deadline>>

\* Leaving execute by return leaves the TemporaryDirectory block too.
ReturnFrom(from, outcome) ==
  /\ Go(from, "returned")
  /\ result' = outcome
  /\ workspace' = "absent"
  /\ UNCHANGED classification

Proceed(from, to) == Go(from, to) /\ UNCHANGED <<classification, result>>

Call == Proceed("idle", "first_check") /\ UNCHANGED <<workspace, process>>

FirstCheck ==
  /\ \/ Gate!Open /\ Proceed("first_check", "resolve") /\ UNCHANGED workspace
     \/ ~Gate!Open /\ ReturnFrom("first_check", "blocked")
  /\ UNCHANGED process

\* Mutant: a classification of its own for a missing repository.
Resolve_OtherError ==
  /\ \/ Proceed("resolve", "extract") /\ workspace' = "present"
     \/ ReturnFrom("resolve", "not_found")
  /\ UNCHANGED process

\* The repository, git and the executable are looked up, then the temporary
\* directory is made and the workspace in it.
Resolve ==
  /\ \/ Proceed("resolve", "extract") /\ workspace' = "present"
     \/ \E o \in {"policy_error", "infrastructure_error"} : ReturnFrom("resolve", o)
  /\ UNCHANGED process

ExtractHead ==
  /\ \/ Proceed("extract", "second_check") /\ UNCHANGED workspace
     \/ ReturnFrom("extract", "infrastructure_error")
  /\ UNCHANGED process

SecondCheck ==
  /\ \/ Gate!Open /\ Proceed("second_check", "directory") /\ UNCHANGED workspace
     \/ ~Gate!Open /\ ReturnFrom("second_check", "blocked")
  /\ UNCHANGED process

CheckDirectory ==
  /\ \/ Proceed("directory", "spawn") /\ UNCHANGED workspace
     \/ ReturnFrom("directory", "policy_error")
  /\ UNCHANGED process

Spawn ==
  \/ /\ Proceed("spawn", "poll")
     /\ leader' = "running"
     /\ UNCHANGED <<workspace, descendants>>
  \/ /\ ReturnFrom("spawn", "infrastructure_error")
     /\ UNCHANGED process

-----------------------------------------------------------------------------
(* _run: the polling loop.                                                 *)

Decide(from, to, outcome) ==
  Go(from, to) /\ classification' = outcome /\ UNCHANGED result

\* Mutant: a stop returns at once and leaves the process alone.
Poll_ReturnsAtOnce ==
  /\ \/ Gate!Open /\ Proceed("poll", "deadline") /\ UNCHANGED workspace
     \/ ~Gate!Open /\ ReturnFrom("poll", "blocked")
  /\ UNCHANGED process

Poll ==
  /\ \/ Gate!Open /\ Proceed("poll", "deadline")
     \/ ~Gate!Open /\ Decide("poll", "kill", "blocked")
  /\ UNCHANGED <<workspace, process>>

\* Mutant: a timeout is reported as a stop.
CheckDeadline_SaysBlocked ==
  /\ \/ deadline = "ahead" /\ Proceed("deadline", "wait")
     \/ deadline = "passed" /\ Decide("deadline", "kill", "blocked")
  /\ UNCHANGED <<workspace, process>>

\* Mutant: the loop never looks at the deadline.
CheckDeadline_Ignored ==
  /\ Proceed("deadline", "wait")
  /\ UNCHANGED <<workspace, process>>

CheckDeadline ==
  /\ \/ deadline = "ahead" /\ Proceed("deadline", "wait")
     \/ deadline = "passed" /\ Decide("deadline", "kill", "timeout")
  /\ UNCHANGED <<workspace, process>>

\* Mutant: process.wait without a timeout.
Wait_Blocks ==
  /\ \/ leader = "exit_zero" /\ Decide("wait", "collect", "success")
     \/ leader = "exit_nonzero" /\ Decide("wait", "collect", "failed")
  /\ UNCHANGED <<workspace, process>>

Wait ==
  /\ \/ leader = "running" /\ Proceed("wait", "poll")
     \/ leader = "exit_zero" /\ Decide("wait", "collect", "success")
     \/ leader = "exit_nonzero" /\ Decide("wait", "collect", "failed")
  /\ UNCHANGED <<workspace, process>>

Killed(p) == CASE p = "running" -> "killed"
               [] p = "alive"   -> "killed"
               [] OTHER         -> p

\* Mutant: the exit status after the kill overrides the classification.
Kill_Reclassifies ==
  /\ Decide("kill", "collect", "failed")
  /\ leader' = Killed(leader)
  /\ descendants' = Killed(descendants)
  /\ UNCHANGED workspace

\* Mutant: process.kill instead of os.killpg.
Kill_LeaderOnly ==
  /\ Proceed("kill", "collect")
  /\ leader' = Killed(leader)
  /\ UNCHANGED <<workspace, descendants>>

\* os.killpg sends SIGKILL to the whole group; process.wait then waits for the
\* leader only, so a killed descendant may still be there when the call goes on.
Kill ==
  /\ Proceed("kill", "collect")
  /\ leader' = Killed(leader)
  /\ descendants' = Killed(descendants)
  /\ UNCHANGED workspace

Collect == ReturnFrom("collect", classification) /\ UNCHANGED process

-----------------------------------------------------------------------------
(* What may go wrong around it.                                            *)

\* execution_allowed reads the database; a sqlite3.Error is not among the
\* exceptions execute turns into a result.
CheckRaises ==
  /\ \E s \in {"first_check", "second_check", "poll"} : Proceed(s, "raised")
  /\ workspace' = "absent"
  /\ UNCHANGED process

\* Removing the temporary directory fails, at whichever step the call leaves its
\* block: somebody still writes there, or the file system refuses.  The OSError
\* takes the place of the result, a stop and a timeout included, or of the
\* sqlite3.Error under way.
CleanupFails ==
  /\ \E s \in {"resolve", "extract", "second_check", "directory", "spawn",
               "poll", "collect"} : Go(s, "returned")
  /\ result' = "infrastructure_error"
  /\ workspace' = "torn"
  /\ UNCHANGED <<classification, process>>

\* The runner's process is killed; the child has a session of its own.
Die ==
  /\ \E s \in Steps \ (Ended \cup {"idle"}) : Proceed(s, "died")
  /\ UNCHANGED <<workspace, process>>

LeaderExits ==
  /\ leader = "running"
  /\ leader' \in {"exit_zero", "exit_nonzero"}
  /\ UNCHANGED <<keys, pc, classification, result, workspace, descendants, deadline>>

Fork ==
  /\ leader = "running"
  /\ descendants = "none"
  /\ descendants' = "alive"
  /\ UNCHANGED <<keys, pc, classification, result, workspace, leader, deadline>>

DescendantsEnd ==
  /\ descendants # "none"
  /\ descendants' = "none"
  /\ UNCHANGED <<keys, pc, classification, result, workspace, leader, deadline>>

\* timeout_seconds after the start of the process.
Expire ==
  /\ leader # "none"
  /\ deadline = "ahead"
  /\ deadline' = "passed"
  /\ UNCHANGED <<keys, pc, classification, result, workspace, process>>

Operate ==
  Gate!Next /\ UNCHANGED <<pc, classification, result, workspace, process, deadline>>

Step ==
  \/ Call \/ FirstCheck \/ Resolve \/ ExtractHead \/ SecondCheck
  \/ CheckDirectory \/ Spawn
  \/ Poll \/ CheckDeadline \/ Wait \/ Kill \/ Collect

Next ==
  \/ Step \/ CheckRaises \/ CleanupFails \/ Die
  \/ LeaderExits \/ Fork \/ DescendantsEnd \/ Expire \/ Operate

Spec == Init /\ [][Next]_vars

\* The call takes its steps and time passes; the process, the operator and the
\* failures owe nothing.
FairSpec == Spec /\ WF_vars(Step) /\ WF_vars(Expire)

-----------------------------------------------------------------------------
(* Properties.                                                             *)

\* Every variable keeps its type.
TypeOK ==
  /\ keys \in 0..2
  /\ pc \in Steps
  /\ classification \in Outcomes \cup {"none"}
  /\ result \in Outcomes \cup {"none"}
  /\ workspace \in {"absent", "present", "torn"}
  /\ leader \in Leaders
  /\ descendants \in {"none", "alive", "killed"}
  /\ deadline \in {"ahead", "passed"}

\* The result tells what became of the process, whatever raced: a success or
\* failure is the process's own exit, never that of the kill, and a policy error
\* never had a process.  A process that was killed is reported as the stop or the
\* timeout it was; only a workspace that could not be removed hides either, or an
\* exit, behind an infrastructure error.
ResultTellsTheExit ==
  pc = "returned" =>
    /\ result = "success" => leader = "exit_zero"
    /\ result = "failed" => leader = "exit_nonzero"
    /\ result = "policy_error" => leader = "none"
    /\ leader = "killed" => result \in {"blocked", "timeout"} \/ workspace = "torn"
    /\ result = "infrastructure_error" /\ leader # "none" => workspace = "torn"

\* Once execute returns from a stop or a timeout, whatever it reports, the process
\* is gone and no descendant in its group escaped the kill.  One may take a moment
\* to go: the call waits for the process only.
StoppedTaskIsKilled ==
  pc = "returned" /\ {classification, result} \cap {"blocked", "timeout"} # {} =>
    leader # "running" /\ descendants # "alive"

\* A process works in its workspace: the directory is removed, or half removed,
\* under a running process only when the look at the gate raised, before anything
\* was decided on that process.
ProcessHasItsWorkspace ==
  leader = "running" /\ workspace # "present" =>
    classification = "none" /\ pc \in {"raised", "returned"}

\* The call, the process group and the workspace end in this order or together:
\* nothing escapes the kill of a stopped call, no process loses its directory.
NothingIsStranded == StoppedTaskIsKilled /\ ProcessHasItsWorkspace

\* A stop ends the process, and so does the deadline: while the gate stays shut,
\* or once the time is up, a running process is killed, unless the call that
\* watches it is lost: it died, or its look at the gate raised.
StopReachesTheProcess ==
  LET due == ~Gate!Open \/ deadline = "passed" IN
  (leader = "running" /\ due) ~>
    (leader # "running" \/ ~due \/ pc \in {"raised", "died"}
       \/ result = "infrastructure_error")

\* The call implements the contract the task runner relies on.  The polling loop
\* decides before the call returns; any other exit decides and returns at once.
Verdict == IF pc = "returned" THEN result ELSE classification

Phase == CASE pc = "idle"               -> "idle"
           [] pc \in {"raised", "died"} -> "abandoned"
           [] pc = "returned"           -> "ended"
           [] pc \notin Ended \cup {"idle"} /\ classification # "none" -> "decided"
           [] pc \notin Ended \cup {"idle"} /\ classification = "none" -> "running"

Contract == INSTANCE AttemptContract WITH phase <- Phase, outcome <- Verdict

ImplementsContract == Contract!Spec
=============================================================================
