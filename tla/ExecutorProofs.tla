--------------------------- MODULE ExecutorProofs ---------------------------
(***************************************************************************)
(* Theorems about Executor.  The invariant says, for every step of the     *)
(* call, what is already known of the process and of the result.           *)
(***************************************************************************)
EXTENDS Executor, TLAPS

Before == {"idle", "first_check", "resolve", "extract", "second_check",
           "directory", "spawn"}
Watching == {"poll", "deadline", "wait"}
Holding == {"extract", "second_check", "directory", "spawn", "kill", "collect"}
             \cup Watching

\* A decided classification agrees with the process.
Agrees ==
  /\ classification = "success" => leader = "exit_zero"
  /\ classification = "failed" => leader = "exit_nonzero"
  /\ classification # "policy_error" /\ classification # "infrastructure_error"
  /\ leader = "killed" => classification \in {"blocked", "timeout"}
  /\ classification \in {"blocked", "timeout"} =>
       leader # "running" /\ descendants # "alive"

\* The result is the classification, unless the call never got to one or the
\* workspace could not be removed.
ResultAgrees ==
  \/ result = classification /\ result # "none"
  \/ result = "infrastructure_error" /\ workspace = "torn"
  \/ /\ classification = "none" /\ leader = "none"
     /\ result \in {"blocked", "policy_error", "infrastructure_error"}

IInv ==
  /\ TypeOK
  /\ leader = "none" => descendants = "none"
  /\ pc \in Before => leader = "none" /\ classification = "none"
  /\ pc \in Holding => workspace = "present"
  /\ pc # "returned" => result = "none"
  /\ pc \in Watching => /\ leader \in {"running", "exit_zero", "exit_nonzero"}
                        /\ classification = "none"
  /\ pc = "kill" => /\ leader \in {"running", "exit_zero", "exit_nonzero"}
                    /\ classification \in {"blocked", "timeout"}
  /\ pc = "collect" => classification # "none"
  /\ pc = "raised" => classification = "none"
  /\ pc \in {"collect", "returned"} => Agrees
  /\ pc = "returned" => ResultAgrees
  /\ leader = "running" =>
       /\ pc \in Watching \cup {"kill"} \cup Ended
       /\ workspace # "present" => classification = "none" /\ pc \in {"raised", "returned"}

USE DEF Outcomes, Ended, Steps, Leaders, Before, Watching, Holding, process

\* Each step keeps the invariant.
LEMMA NextIInv == IInv /\ [Next]_vars => IInv'
<1> SUFFICES ASSUME IInv, [Next]_vars PROVE IInv'
  OBVIOUS
<1> USE DEF IInv, TypeOK, Agrees, ResultAgrees, Go, Proceed, ReturnFrom, Decide
<1>1. CASE Call \/ FirstCheck \/ Resolve
  BY <1>1 DEF Call, FirstCheck, Resolve
<1>2. CASE ExtractHead \/ SecondCheck \/ CheckDirectory
  BY <1>2 DEF ExtractHead, SecondCheck, CheckDirectory
<1>3. CASE Spawn
  BY <1>3 DEF Spawn
<1>4. CASE Poll \/ CheckDeadline
  BY <1>4 DEF Poll, CheckDeadline
<1>5. CASE Wait
  BY <1>5 DEF Wait
<1>6. CASE Kill
  BY <1>6 DEF Kill, Killed
<1>7. CASE Collect
  BY <1>7 DEF Collect
<1>8. CASE CheckRaises \/ CleanupFails \/ Die
  BY <1>8 DEF CheckRaises, CleanupFails, Die
<1>9. CASE LeaderExits \/ Fork \/ DescendantsEnd
  BY <1>9 DEF LeaderExits, Fork, DescendantsEnd
<1>10. CASE Expire
  BY <1>10 DEF Expire
<1>11. CASE Operate
  BY <1>11 DEF Operate, Gate!Next, Gate!Shut, Gate!Approve
<1>12. CASE UNCHANGED vars
  BY <1>12 DEF vars
<1> QED
  BY <1>1, <1>2, <1>3, <1>4, <1>5, <1>6, <1>7, <1>8, <1>9, <1>10, <1>11,
     <1>12 DEF Next, Step

\* The invariant holds in every reachable state.
THEOREM InvariantHolds == Spec => []IInv
<1>1. Init => IInv
  BY DEF Init, IInv, TypeOK, Gate!Init
<1> QED BY <1>1, NextIInv, PTL DEF Spec

\* Every variable keeps its type.
THEOREM TypeCorrect == Spec => []TypeOK
<1>1. IInv => TypeOK
  BY DEF IInv
<1> QED BY <1>1, InvariantHolds, PTL

\* The result tells what became of the process, but for a workspace that could
\* not be removed.
THEOREM ClassificationIsTrue == Spec => []ResultTellsTheExit
<1>1. IInv => ResultTellsTheExit
  BY DEF IInv, Agrees, ResultAgrees, ResultTellsTheExit
<1> QED BY <1>1, InvariantHolds, PTL

\* No process of the group of a stopped or timed-out task escapes the kill.
THEOREM StoppedMeansKilled == Spec => []StoppedTaskIsKilled
<1>1. IInv => StoppedTaskIsKilled
  BY DEF IInv, TypeOK, Agrees, ResultAgrees, StoppedTaskIsKilled
<1> QED BY <1>1, InvariantHolds, PTL

\* A process has its workspace until the look at the gate raises.
THEOREM WorkspaceOutlivesProcess == Spec => []ProcessHasItsWorkspace
<1>1. IInv => ProcessHasItsWorkspace
  BY DEF IInv, TypeOK, ProcessHasItsWorkspace
<1> QED BY <1>1, InvariantHolds, PTL

\* Nothing escapes the kill of a stopped call, and no process loses its workspace.
THEOREM NothingStranded == Spec => []NothingIsStranded
<1>1. StoppedTaskIsKilled /\ ProcessHasItsWorkspace => NothingIsStranded
  BY DEF NothingIsStranded
<1> QED BY <1>1, StoppedMeansKilled, WorkspaceOutlivesProcess, PTL

\* The call implements the contract the task runner relies on: it decides once,
\* "blocked" only while the gate is shut, and ends with that decision or with the
\* infrastructure error of a workspace that cannot be removed.  The invariant
\* says that no step but those of the loop finds or makes a decision.
THEOREM ContractImplemented == Spec => ImplementsContract
<1>1. Init => Contract!Init
  BY DEF Init, Contract!Init, Contract!Gate!Init, Gate!Init, Phase, Verdict
<1>2. IInv /\ [Next]_vars => [Contract!Next]_<<keys, Phase, Verdict>>
  <2> SUFFICES ASSUME IInv, [Next]_vars
               PROVE  [Contract!Next]_<<keys, Phase, Verdict>>
    OBVIOUS
  <2> USE DEF IInv, TypeOK, Go, Proceed, ReturnFrom, Decide, Phase, Verdict, Gate!Open,
              Contract!Gate!Open, Contract!Next, Contract!Begin, Contract!Settle,
              Contract!Decide, Contract!Answer, Contract!End, Contract!Abandon
  <2>1. CASE Call \/ FirstCheck \/ Resolve \/ ExtractHead
    BY <2>1 DEF Call, FirstCheck, Resolve, ExtractHead
  <2>2. CASE SecondCheck \/ CheckDirectory \/ Spawn
    BY <2>2 DEF SecondCheck, CheckDirectory, Spawn
  <2>3. CASE Poll \/ CheckDeadline \/ Wait
    BY <2>3 DEF Poll, CheckDeadline, Wait
  <2>4. CASE Kill \/ Collect
    BY <2>4 DEF Kill, Collect
  <2>5. CASE CheckRaises \/ Die
    BY <2>5 DEF CheckRaises, Die
  <2>6. CASE CleanupFails
    <3>1. /\ pc' = "returned" /\ result' = "infrastructure_error" /\ keys' = keys
          /\ pc \in Before \cup {"poll", "collect"} /\ pc # "idle"
      BY <2>6 DEF CleanupFails
    <3>2. CASE pc = "collect"
      BY <3>1, <3>2
    <3>3. CASE pc # "collect"
      <4>1. Contract!Answer("infrastructure_error")
        BY <3>1, <3>3
      <4> QED BY <4>1
    <3> QED BY <3>2, <3>3
  <2>7. CASE Operate
    BY <2>7 DEF Operate, Contract!Operate, Contract!Gate!Next, Gate!Next,
                Contract!Gate!Shut, Contract!Gate!Approve, Gate!Shut, Gate!Approve
  <2>8. CASE LeaderExits \/ Fork \/ DescendantsEnd \/ Expire \/ UNCHANGED vars
    BY <2>8 DEF LeaderExits, Fork, DescendantsEnd, Expire, vars
  <2> QED BY <2>1, <2>2, <2>3, <2>4, <2>5, <2>6, <2>7, <2>8 DEF Next, Step
<1> QED BY <1>1, <1>2, InvariantHolds, PTL DEF Spec, ImplementsContract, Contract!Spec
=============================================================================
