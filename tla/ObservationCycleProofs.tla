----------------------- MODULE ObservationCycleProofs -----------------------
(***************************************************************************)
(* Theorems about ObservationCycle, for any projects, sources, failures    *)
(* and requests.  While the gate is shut, the pass in progress has         *)
(* observed, since it was shut, fewer sources than it has reached.         *)
(***************************************************************************)
EXTENDS ObservationCycle, TLAPS

\* What bounds the sources observed after a stop.
Lag ==
  /\ overrun <= Sources
  /\ ~Gate!Open /\ lock # "nobody" => overrun < source[lock]

\* A process begins with no thread at work.
Quiet == service = "down" => \A t \in Threads : pc[t] = "off"

IInv == TypeOK /\ Lag /\ Quiet

\* Sources and projects are positive; no thread is called "nobody".
LEMMA Constants ==
  /\ Projects \in Nat /\ Projects >= 1
  /\ Sources \in Nat /\ Sources >= 1
  /\ "daemon" \in Threads
  /\ "nobody" \notin Threads
  /\ "daemon" \notin Requests
  BY CycleAssumption DEF Threads

USE DEF Steps, Nothing, Goto

\* A thread that has failed or succeeded is out of its pass.
LEMMA MovesOn ==
  ASSUME TypeOK, NEW t \in Threads, AfterFailure(t) \/ AfterSuccess(t)
  PROVE  /\ pc' \in [Threads -> Steps]
         /\ pc'[t] # "pass"
         /\ \A u \in Threads \ {t} : pc'[u] = pc[u]
         /\ project' \in [Threads -> 1..Projects]
         /\ last_errors' \subseteq 1..Projects
<1> USE Constants DEF TypeOK, AfterFailure, AfterSuccess, NextProject
<1>1. last_errors' \subseteq 1..Projects
  <2>1. project[t] \in 1..Projects /\ last_errors \subseteq 1..Projects
    OBVIOUS
  <2>2. \/ last_errors' = last_errors \cup {project[t]}
        \/ last_errors' = last_errors \ {project[t]}
        \/ last_errors' = last_errors
    OBVIOUS
  <2> QED BY <2>1, <2>2
<1>2. CASE t # "daemon"
  BY <1>1, <1>2
<1>3. CASE t = "daemon" /\ project["daemon"] < Projects
  <2>1. project[t] + 1 \in 1..Projects
    BY <1>3
  <2>2. /\ project' = [project EXCEPT ![t] = @ + 1]
        /\ pc' = [pc EXCEPT ![t] = "wait"]
    BY <1>3
  <2> QED BY <1>1, <2>1, <2>2
<1>4. CASE t = "daemon" /\ ~(project["daemon"] < Projects)
  <2>1. project' = project /\ pc' = [pc EXCEPT ![t] = "pause"]
    BY <1>4
  <2> QED BY <1>1, <2>1
<1> QED BY <1>2, <1>3, <1>4

\* A pass takes the lock, or is refused, or cannot read the state.
LEMMA EnterKeeps ==
  ASSUME IInv, NEW t \in Threads, BeginPass(t) \/ PassRefused(t) \/ StateUnread(t)
  PROVE  IInv'
<1>1. lock = "nobody" /\ lock # t /\ pc[t] = "wait"
  BY Constants DEF BeginPass, PassRefused, StateUnread, Enters
<1>2. CASE BeginPass(t)
  BY <1>1, <1>2, Constants DEF BeginPass, Admitted, IInv, TypeOK, Lag, Quiet, Gate!Open
<1>3. CASE PassRefused(t)
  BY <1>1, <1>3, Constants DEF PassRefused, IInv, TypeOK, Lag, Quiet, Gate!Open
<1>4. CASE StateUnread(t)
  <2>1. AfterFailure(t) /\ polled' = Nothing
        /\ UNCHANGED <<keys, service, source, lock, overrun>>
    BY <1>4 DEF StateUnread
  <2> HIDE DEF Steps
  <2> QED BY <1>1, <2>1, MovesOn, Constants DEF IInv, TypeOK, Lag, Quiet, Gate!Open
<1> QED BY <1>2, <1>3, <1>4

\* A pass that ends frees the lock.
LEMMA LeaveKeeps ==
  ASSUME IInv, NEW t \in Threads, pc[t] = "pass", lock' = "nobody",
         AfterFailure(t) \/ AfterSuccess(t),
         UNCHANGED <<keys, service, source>>,
         overrun' \in 0..Sources,
         polled' \in {Nothing} \cup ((1..Projects) \X (1..Sources))
  PROVE  IInv'
<1> HIDE DEF Steps
<1>1. \A u \in Threads : pc'[u] = "pass" <=> lock' = u
  BY MovesOn, Constants DEF IInv, TypeOK
<1> QED BY <1>1, MovesOn, Constants DEF IInv, TypeOK, Lag, Quiet, Gate!Open

\* The holder of the lock gets on with its pass.
LEMMA ObserveKeeps ==
  ASSUME IInv, NEW t \in Threads, ObserveSource(t)
  PROVE  IInv'
<1>1. lock = t /\ pc[t] = "pass" /\ UNCHANGED <<keys, service>>
  BY DEF IInv, TypeOK, ObserveSource
<1>2. polled' \in {Nothing} \cup ((1..Projects) \X (1..Sources))
  BY DEF IInv, TypeOK, ObserveSource
<1>3. overrun' \in Nat /\ (~Gate!Open => overrun' <= source[t]) /\ (Gate!Open => overrun' = 0)
  BY <1>1, Constants DEF IInv, TypeOK, Lag, Quiet, ObserveSource
<1>4. CASE source[t] < Sources
  <2>1. /\ source' = [source EXCEPT ![t] = @ + 1]
        /\ UNCHANGED <<pc, project, lock, last_errors>>
    BY <1>4 DEF ObserveSource
  <2>2. source' \in [Threads -> 1..Sources] /\ source'[t] = source[t] + 1
    BY <1>4, <2>1, Constants DEF IInv, TypeOK
  <2>3. TypeOK'
    BY <1>1, <1>2, <1>3, <2>1, <2>2 DEF IInv, TypeOK
  <2>4. source[t] \in 1..Sources
    BY DEF IInv, TypeOK
  <2>5. overrun' <= Sources
    BY <1>3, <1>4, <2>4, Constants
  <2>6. ~(Gate!Open)' /\ lock' # "nobody" => overrun' < source'[lock']
    BY <1>1, <1>3, <2>1, <2>2, <2>4 DEF Gate!Open
  <2>7. Quiet'
    BY <1>1, <2>1 DEF IInv, Quiet
  <2> QED BY <2>3, <2>5, <2>6, <2>7 DEF IInv, Lag
<1>5. CASE ~(source[t] < Sources)
  <2>1. lock' = "nobody" /\ AfterSuccess(t) /\ UNCHANGED source
    BY <1>5 DEF ObserveSource
  <2>2. overrun' \in 0..Sources
    BY <1>3, Constants DEF IInv, TypeOK
  <2> QED BY <1>1, <1>2, <2>1, <2>2, LeaveKeeps
<1> QED BY <1>4, <1>5

\* A source that raises ends the pass.
LEMMA RaiseKeeps ==
  ASSUME IInv, NEW t \in Threads, SourceRaises(t)
  PROVE  IInv'
<1>1. overrun' \in 0..Sources
  BY Constants DEF IInv, TypeOK, Lag, Quiet, SourceRaises
<1> QED BY <1>1, LeaveKeeps DEF SourceRaises

\* Each step keeps the invariant.
LEMMA NextIInv == IInv /\ [Next]_vars => IInv'
<1> SUFFICES ASSUME IInv, [Next]_vars PROVE IInv'
  OBVIOUS
<1>1. ASSUME NEW t \in Threads, BeginPass(t) \/ PassRefused(t) \/ StateUnread(t)
      PROVE  IInv'
  BY <1>1, EnterKeeps
<1>2. ASSUME NEW t \in Threads, ObserveSource(t) PROVE IInv'
  BY <1>2, ObserveKeeps
<1>3. ASSUME NEW t \in Threads, SourceRaises(t) PROVE IInv'
  BY <1>3, RaiseKeeps
<1> USE Constants DEF IInv, TypeOK, Lag, Quiet, Gate!Open
<1>4. ASSUME NEW t \in Threads, Request(t) PROVE IInv'
  BY <1>4 DEF Request
<1>5. CASE CheckStop \/ TaskFails \/ EndBlockedCycle \/ EndPause
  BY <1>5 DEF CheckStop, TaskFails, EndBlockedCycle, EndPause, DaemonStep
<1>6. CASE BeginCycle
  <2>1. project' \in [Threads -> 1..Projects]
    BY <1>6 DEF BeginCycle
  <2>2. /\ \/ pc' = [pc EXCEPT !["daemon"] = "wait"]
           \/ pc' = [pc EXCEPT !["daemon"] = "pause"]
        /\ pc["daemon"] = "cycle"
        /\ polled' = Nothing
        /\ UNCHANGED <<keys, service, source, lock, last_errors, overrun>>
    BY <1>6 DEF BeginCycle, DaemonStep
  <2> QED BY <2>1, <2>2
<1>7. CASE Start \/ Shutdown
  <2>1. CASE Start
    BY <2>1 DEF Start
  <2>2. CASE Shutdown
    BY <2>2 DEF Shutdown
  <2> QED BY <1>7, <2>1, <2>2
<1>8. CASE Exit \/ Killed
  BY <1>8 DEF Exit, Killed, Gone
<1>9. CASE Operate
  <2>1. keys' \in 0..2 /\ overrun' \in {0, overrun}
    BY <1>9 DEF Operate, Gate!Next, Gate!Shut, Gate!Approve
  <2>2. keys = 2 => overrun' = 0
    BY <1>9 DEF Operate
  <2> QED BY <1>9, <2>1, <2>2 DEF Operate
<1>10. CASE UNCHANGED vars
  BY <1>10 DEF vars
<1> QED BY <1>1, <1>2, <1>3, <1>4, <1>5, <1>6, <1>7, <1>8, <1>9, <1>10 DEF Next

\* The invariant holds in every reachable state.
THEOREM InvariantHolds == Spec => []IInv
<1>1. Init => IInv
  BY Constants DEF Init, IInv, TypeOK, Lag, Quiet, Gate!Init
<1> QED BY <1>1, NextIInv, PTL DEF Spec

\* Every variable keeps its type, and passes exclude each other (the lock of
\* ObserverRunner), for any number of projects, sources and requests.
THEOREM PassesExclude == Spec => []TypeOK
<1>1. IInv => TypeOK
  BY DEF IInv
<1> QED BY <1>1, InvariantHolds, PTL

\* After a stop no more than the rest of one project's pass is observed,
\* whoever runs it.
THEOREM StopIsPrompt == Spec => []StopOverrunsOnePass
<1>1. IInv => StopOverrunsOnePass
  BY DEF IInv, Lag, StopOverrunsOnePass
<1> QED BY <1>1, InvariantHolds, PTL

=============================================================================
