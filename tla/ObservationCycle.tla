-------------------------- MODULE ObservationCycle --------------------------
(***************************************************************************)
(* The passes over a project's sources: ObserverDaemon, which polls every  *)
(* project while the service runs, and ObserverRunner.observe_once, which  *)
(* an API thread calls for one project beside it.  They share the lock of  *)
(* the runner and the controller state of the database.                    *)
(*                                                                         *)
(* The service starts the polling task and, when it shuts down, waits for  *)
(* the task and for the API threads; it may also be killed at any moment.  *)
(* What a source's observation does is the subject of FileObserver,        *)
(* ScmObserver and SystemObserver; here it succeeds or raises.             *)
(***************************************************************************)
EXTENDS Integers, FiniteSets

CONSTANTS
  Projects,   \* number of registered projects, in the order of the registry
  Sources,    \* number of sources of each project, in the order of _SOURCE_ORDER
  Flaky,      \* <<project, source>> pairs whose observation may raise
  Requests    \* API threads in observe_once

ASSUME CycleAssumption ==
  /\ Projects \in Nat \ {0}
  /\ Sources \in Nat \ {0}
  /\ Flaky \subseteq (1..Projects) \X (1..Sources)
  /\ IsFiniteSet(Requests)
  /\ {"daemon", "nobody"} \cap Requests = {}

Threads == {"daemon"} \cup Requests

VARIABLES
  keys,         \* the stop state, as TwoKeyGate
  service,      \* "down", "up" or "stopping"
  pc,           \* what each thread does next
  project,      \* the project each thread is at
  source,       \* the source each thread observes next
  lock,         \* holder of ObserverRunner._lock
  last_errors,  \* projects ObserverDaemon.last_errors has an error of
  polled,       \* history: the source the daemon observed in the last step
  overrun       \* history: sources observed since the gate was shut

vars == <<keys, service, pc, project, source, lock, last_errors, polled, overrun>>

Gate == INSTANCE TwoKeyGate

\* pc of the daemon: "off" no task; "check" the stop event; "cycle" run_cycle;
\* "wait" for the lock; "pass" over the sources; "blocked" after
\* ObservationBlocked; "pause" between cycles; "failed" the task has raised.
\* Of a request: "off", "wait", "pass".
Steps == {"off", "check", "cycle", "wait", "pass", "blocked", "pause", "failed"}

Nothing == <<0, 0>>

Init ==
  /\ Gate!Init
  /\ service = "down"
  /\ pc = [t \in Threads |-> "off"]
  /\ project = [t \in Threads |-> 1]
  /\ source = [t \in Threads |-> 1]
  /\ lock = "nobody"
  /\ last_errors = {}
  /\ polled = Nothing
  /\ overrun = 0

Goto(t, step) == pc' = [pc EXCEPT ![t] = step]

-----------------------------------------------------------------------------
(* ObserverRunner.observe_once, in any thread.                             *)

\* Mutant: the daemon relies on the state its cycle began with.
Admitted_ByTheCycle(t) == t = "daemon" \/ Gate!Open

\* The state is read with the lock held.
Admitted(t) == Gate!Open

\* Mutant: a pass begins whether the lock is free or not.
Enters_AnyTime(t) == pc[t] = "wait"

Enters(t) == pc[t] = "wait" /\ lock = "nobody"

BeginPass(t) ==
  /\ Enters(t)
  /\ Admitted(t)
  /\ lock' = t
  /\ source' = [source EXCEPT ![t] = 1]
  /\ Goto(t, "pass")
  /\ polled' = Nothing
  /\ UNCHANGED <<keys, service, project, last_errors, overrun>>

\* The daemon's cycle goes on with the next project, or ends.
NextProject ==
  IF project["daemon"] < Projects
  THEN /\ project' = [project EXCEPT !["daemon"] = @ + 1]
       /\ Goto("daemon", "wait")
  ELSE /\ Goto("daemon", "pause")
       /\ UNCHANGED project

\* Mutant: a project that fails ends the cycle.
AfterFailure_EndsCycle(t) ==
  IF t = "daemon"
  THEN /\ last_errors' = last_errors \cup {project[t]}
       /\ Goto(t, "pause")
       /\ UNCHANGED project
  ELSE Goto(t, "off") /\ UNCHANGED <<project, last_errors>>

\* observe_once has raised: the daemon notes it, a request answers with it.
AfterFailure(t) ==
  IF t = "daemon"
  THEN /\ last_errors' = last_errors \cup {project[t]}
       /\ NextProject
  ELSE Goto(t, "off") /\ UNCHANGED <<project, last_errors>>

AfterSuccess(t) ==
  IF t = "daemon"
  THEN /\ last_errors' = last_errors \ {project[t]}
       /\ NextProject
  ELSE Goto(t, "off") /\ UNCHANGED <<project, last_errors>>

\* ObservationBlocked: the daemon reads the state to report it.
PassRefused(t) ==
  /\ Enters(t)
  /\ ~Admitted(t)
  /\ Goto(t, IF t = "daemon" THEN "blocked" ELSE "off")
  /\ polled' = Nothing
  /\ UNCHANGED <<keys, service, project, source, lock, last_errors, overrun>>

\* get_state raises inside observe_once: a failure of the project like any other.
StateUnread(t) ==
  /\ Enters(t)
  /\ AfterFailure(t)
  /\ polled' = Nothing
  /\ UNCHANGED <<keys, service, source, lock, overrun>>

\* One source is observed and stored; the last one ends the pass.
ObserveSource(t) ==
  /\ pc[t] = "pass"
  /\ IF source[t] < Sources
     THEN /\ source' = [source EXCEPT ![t] = @ + 1]
          /\ UNCHANGED <<pc, project, lock, last_errors>>
     ELSE /\ lock' = "nobody"
          /\ AfterSuccess(t)
          /\ UNCHANGED source
  /\ polled' = IF t = "daemon" THEN <<project[t], source[t]>> ELSE Nothing
  /\ overrun' = IF Gate!Open THEN 0 ELSE overrun + 1
  /\ UNCHANGED <<keys, service>>

\* The observation of a source raises: the sources after it are not observed.
SourceRaises(t) ==
  /\ pc[t] = "pass"
  /\ <<project[t], source[t]>> \in Flaky
  /\ lock' = "nobody"
  /\ AfterFailure(t)
  /\ polled' = Nothing
  /\ UNCHANGED <<keys, service, source, overrun>>

-----------------------------------------------------------------------------
(* ObserverDaemon._run_forever and run_cycle.                              *)

DaemonStep(step) ==
  /\ Goto("daemon", step)
  /\ polled' = Nothing
  /\ UNCHANGED <<keys, service, source, lock, last_errors, overrun>>

\* Mutant: the loop looks at the stop event only before its first cycle.
Stopping_Never == FALSE

Stopping == service = "stopping"

\* The head of the loop; the task is done once the stop event is set.
CheckStop ==
  /\ pc["daemon"] = "check"
  /\ DaemonStep(IF Stopping THEN "off" ELSE "cycle")
  /\ UNCHANGED project

\* run_cycle reads the state once before it begins.
BeginCycle ==
  /\ pc["daemon"] = "cycle"
  /\ IF Gate!Open
     THEN DaemonStep("wait") /\ project' = [project EXCEPT !["daemon"] = 1]
     ELSE DaemonStep("pause") /\ UNCHANGED project

\* get_state raises where nothing catches it, and with it the task.
TaskFails ==
  /\ pc["daemon"] \in {"cycle", "blocked"}
  /\ DaemonStep("failed")
  /\ UNCHANGED project

\* The rest of the projects is skipped.
EndBlockedCycle ==
  /\ pc["daemon"] = "blocked"
  /\ DaemonStep("pause")
  /\ UNCHANGED project

\* poll_interval_seconds pass, or the stop event is set.
EndPause ==
  /\ pc["daemon"] = "pause"
  /\ DaemonStep("check")
  /\ UNCHANGED project

-----------------------------------------------------------------------------
(* The service.                                                            *)

\* ObserverDaemon.start, in a new process.
Start ==
  /\ service = "down"
  /\ service' = "up"
  /\ Goto("daemon", "check")
  /\ polled' = Nothing
  /\ UNCHANGED <<keys, project, source, lock, last_errors, overrun>>

\* POST /v1/projects/{project_id}/observe-once.
Request(t) ==
  /\ t # "daemon"
  /\ service = "up"
  /\ pc[t] = "off"
  /\ \E p \in 1..Projects : project' = [project EXCEPT ![t] = p]
  /\ Goto(t, "wait")
  /\ polled' = Nothing
  /\ UNCHANGED <<keys, service, source, lock, last_errors, overrun>>

\* ObserverDaemon.stop sets the event.
Shutdown ==
  /\ service = "up"
  /\ service' = "stopping"
  /\ polled' = Nothing
  /\ UNCHANGED <<keys, pc, project, source, lock, last_errors, overrun>>

\* What a new process begins with.
Gone ==
  /\ service' = "down"
  /\ pc' = [t \in Threads |-> "off"]
  /\ lock' = "nobody"
  /\ last_errors' = {}
  /\ polled' = Nothing
  /\ UNCHANGED <<keys, project, source, overrun>>

\* stop has awaited the task (and raises if it has), and no thread is left.
Exit ==
  /\ service = "stopping"
  /\ pc["daemon"] \in {"off", "failed"}
  /\ \A t \in Requests : pc[t] = "off"
  /\ Gone

Killed == service # "down" /\ Gone

\* An operator stops the controller or gives one of the two approvals.
Operate ==
  /\ Gate!Next
  /\ overrun' = IF Gate!Open THEN 0 ELSE overrun
  /\ polled' = Nothing
  /\ UNCHANGED <<service, pc, project, source, lock, last_errors>>

Next ==
  \/ \E t \in Threads : BeginPass(t) \/ PassRefused(t) \/ StateUnread(t)
                          \/ ObserveSource(t) \/ SourceRaises(t) \/ Request(t)
  \/ CheckStop \/ BeginCycle \/ TaskFails \/ EndBlockedCycle \/ EndPause
  \/ Start \/ Shutdown \/ Exit \/ Killed \/ Operate

Spec == Init /\ [][Next]_vars

-----------------------------------------------------------------------------
(* Fairness: threads run, an observation ends (every provider has a        *)
(* timeout), a thread that waits for the lock gets it, and the database    *)
(* answers again and again.  Nothing is assumed of operators and requests. *)

DaemonRuns ==
  CheckStop \/ BeginCycle \/ EndBlockedCycle \/ EndPause \/ PassRefused("daemon")

Fairness ==
  /\ WF_vars(DaemonRuns)
  /\ WF_vars(Exit)
  /\ \A t \in Threads : WF_vars(ObserveSource(t))
  /\ \A t \in Requests : WF_vars(PassRefused(t))
  /\ \A t \in Threads, p \in 1..Projects : SF_vars(BeginPass(t) /\ project[t] = p)

FairSpec == Spec /\ Fairness

-----------------------------------------------------------------------------
(* Properties.                                                             *)

\* Every variable keeps its type, and whoever goes over sources has the lock:
\* a manual observation and the polling of one service exclude each other.
TypeOK ==
  /\ keys \in 0..2
  /\ service \in {"down", "up", "stopping"}
  /\ pc \in [Threads -> Steps]
  /\ project \in [Threads -> 1..Projects]
  /\ source \in [Threads -> 1..Sources]
  /\ lock \in Threads \cup {"nobody"}
  /\ last_errors \subseteq 1..Projects
  /\ polled \in {Nothing} \cup ((1..Projects) \X (1..Sources))
  /\ overrun \in Nat
  /\ \A t \in Threads : pc[t] = "pass" <=> lock = t

\* A stop reaches the observers: after it at most the pass in progress goes on,
\* the daemon's or a request's, to the end of its one project.  The documents have
\* no provider called after a stop; observe_once reads the state once for all the
\* sources of a project, so this is the most the code keeps.
StopOverrunsOnePass == overrun <= Sources

\* The sources whose own observation and whose predecessors' never raise.
Clean == { x \in (1..Projects) \X (1..Sources) :
             \A s \in 1..x[2] : <<x[1], s>> \notin Flaky }

\* Every such source is observed again and again, whatever other projects and
\* manual requests do, unless the service or the controller is stopped again
\* and again or the polling task has died.  The sources after one that raises
\* are not: they wait for it to recover.
EverySourceIsPolled ==
  \A x \in Clean :
    []<>(polled = x \/ service # "up" \/ ~Gate!Open \/ pc["daemon"] = "failed")

\* A service that shuts down ends, with the pass in progress, and whether the
\* polling task lives or has died.
ShutdownEnds == service = "stopping" ~> service = "down"

=============================================================================
