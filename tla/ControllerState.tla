--------------------------- MODULE ControllerState ---------------------------
(***************************************************************************)
(* The global controller state: ControlService over the controller_state   *)
(* and control_events tables.                                              *)
(*                                                                         *)
(* Every request (API thread or CLI process) reads the state in one        *)
(* transaction, decides, and later asks the database for a transition from *)
(* the state it read.  Other requests run in between, and a caller may die *)
(* between its steps; a drain takes two such transitions.                  *)
(***************************************************************************)
EXTENDS Naturals, Sequences

CONSTANTS Callers,    \* threads and processes that send operator requests
          MaxCalls    \* bound: requests sent in a behaviour

ASSUME MaxCallsAssumption == MaxCalls \in Nat

States == {"ACTIVE", "DRAINING", "DRAINED", "EMERGENCY_STOP", "RECOVERING",
           "DEGRADED"}

LegalTransitions ==
  [ ACTIVE         |-> {"DRAINING", "EMERGENCY_STOP", "DEGRADED"},
    DRAINING       |-> {"DRAINED", "EMERGENCY_STOP", "DEGRADED"},
    DRAINED        |-> {"RECOVERING", "EMERGENCY_STOP"},
    EMERGENCY_STOP |-> {"RECOVERING"},
    RECOVERING     |-> States \ {"RECOVERING"},
    DEGRADED       |-> {"RECOVERING", "DRAINING", "EMERGENCY_STOP"} ]

Operations == {"drain", "emergency_stop", "clear_emergency_stop",
               "complete_recovery"}

Steps == {"idle", "read", "commit", "done", "crashed"}

\* A request answers a state, or raises: "rejected" by the checks on the state
\* it read, "conflict" by the database because the state had moved on.
Replies == States \cup {"none", "rejected", "conflict"}

Plans  == [from : States, to : States]
NoPlan == [from |-> "none", to |-> "none"]

VARIABLES
  controller,   \* the controller_state row
  audit,        \* the control_events rows, oldest first
  pc, op,       \* where each caller is, and in which request
  plan,         \* the transition it is about to ask the database for
  reply,        \* what its last request answered
  raced,        \* history: another caller's transition hit this request
  held,         \* history: the states in force during this request
  calls         \* requests sent so far

store == <<controller, audit>>
vars  == <<controller, audit, pc, op, plan, reply, raced, held, calls>>

Init ==
  /\ controller = "ACTIVE"
  /\ audit = << >>
  /\ pc = [c \in Callers |-> "idle"]
  /\ op = [c \in Callers |-> "drain"]
  /\ plan = [c \in Callers |-> NoPlan]
  /\ reply = [c \in Callers |-> "none"]
  /\ raced = [c \in Callers |-> FALSE]
  /\ held = [c \in Callers |-> {}]
  /\ calls = 0

InFlight(c) == pc[c] \in {"read", "commit"}

-----------------------------------------------------------------------------
(* One request, step by step.                                              *)

Begin(c, o) ==
  /\ pc[c] \in {"idle", "done"}
  /\ calls < MaxCalls
  /\ calls' = calls + 1
  /\ pc' = [pc EXCEPT ![c] = "read"]
  /\ op' = [op EXCEPT ![c] = o]
  /\ reply' = [reply EXCEPT ![c] = "none"]
  /\ raced' = [raced EXCEPT ![c] = FALSE]
  /\ held' = [held EXCEPT ![c] = {controller}]
  /\ UNCHANGED <<store, plan>>

\* Mutant: the answer leaves the planned transition behind.
Answer_KeepsPlan(c, r) ==
  /\ pc' = [pc EXCEPT ![c] = "done"]
  /\ reply' = [reply EXCEPT ![c] = r]
  /\ UNCHANGED plan

Answer(c, r) ==
  /\ pc' = [pc EXCEPT ![c] = "done"]
  /\ reply' = [reply EXCEPT ![c] = r]
  /\ plan' = [plan EXCEPT ![c] = NoPlan]

\* ControlService._transition up to its call of the database.
Transition(c, current, next) ==
  IF next \in LegalTransitions[current]
  THEN /\ pc' = [pc EXCEPT ![c] = "commit"]
       /\ plan' = [plan EXCEPT ![c] = [from |-> current, to |-> next]]
       /\ UNCHANGED reply
  ELSE Answer(c, "rejected")

Read(c, o) ==
  /\ pc[c] = "read"
  /\ op[c] = o
  /\ UNCHANGED <<store, op, raced, held, calls>>

\* Mutant: a drain that is under way counts as done.
ReadForDrain_TrustsDraining(c) ==
  /\ Read(c, "drain")
  /\ \/ controller \in {"DRAINED", "DRAINING"} /\ Answer(c, "DRAINED")
     \/ controller = "EMERGENCY_STOP" /\ Answer(c, "rejected")
     \/ /\ controller \notin {"DRAINED", "EMERGENCY_STOP", "DRAINING"}
        /\ Transition(c, controller, "DRAINING")

ReadForDrain(c) ==
  /\ Read(c, "drain")
  /\ \/ /\ controller = "DRAINED"
        /\ Answer(c, "DRAINED")
     \/ /\ controller = "EMERGENCY_STOP"
        /\ Answer(c, "rejected")
     \/ /\ controller = "DRAINING"
        /\ Transition(c, "DRAINING", "DRAINED")
     \/ /\ controller \notin {"DRAINED", "EMERGENCY_STOP", "DRAINING"}
        /\ Transition(c, controller, "DRAINING")

ReadForStop(c) ==
  /\ Read(c, "emergency_stop")
  /\ \/ /\ controller = "EMERGENCY_STOP"
        /\ Answer(c, "EMERGENCY_STOP")
     \/ /\ controller # "EMERGENCY_STOP"
        /\ Transition(c, controller, "EMERGENCY_STOP")

\* Mutant: a drained controller can be cleared without a stop.
ReadForClear_FromDrained(c) ==
  /\ Read(c, "clear_emergency_stop")
  /\ IF controller \in {"EMERGENCY_STOP", "DRAINED"}
     THEN Transition(c, controller, "RECOVERING")
     ELSE Answer(c, "rejected")

ReadForClear(c) ==
  /\ Read(c, "clear_emergency_stop")
  /\ \/ /\ controller # "EMERGENCY_STOP"
        /\ Answer(c, "rejected")
     \/ /\ controller = "EMERGENCY_STOP"
        /\ Transition(c, "EMERGENCY_STOP", "RECOVERING")

ReadForComplete(c) ==
  /\ Read(c, "complete_recovery")
  /\ \/ /\ controller # "RECOVERING"
        /\ Answer(c, "rejected")
     \/ /\ controller = "RECOVERING"
        /\ Transition(c, "RECOVERING", "ACTIVE")

-----------------------------------------------------------------------------
(* Database.transition_controller_state: one BEGIN IMMEDIATE transaction   *)
(* that compares, updates the row and inserts the event, or changes        *)
(* nothing.                                                                *)

\* Mutant: the second transition of a drain still starts from the state it read.
AfterTransition_StaleFrom(c) ==
  IF op[c] = "drain" /\ plan[c].to = "DRAINING"
  THEN /\ plan' = [plan EXCEPT ![c].to = "DRAINED"]
       /\ UNCHANGED <<pc, reply>>
  ELSE Answer(c, plan[c].to)

\* Mutant: a drain stops after its first transition.
AfterTransition_OneStep(c) == Answer(c, plan[c].to)

\* The drain's first transition is followed by its second one.
AfterTransition(c) ==
  IF op[c] = "drain" /\ plan[c].to = "DRAINING"
  THEN /\ plan' = [plan EXCEPT ![c] = [from |-> "DRAINING", to |-> "DRAINED"]]
       /\ UNCHANGED <<pc, reply>>
  ELSE Answer(c, plan[c].to)

\* Mutant: an UPDATE that does not compare the state with allowed_from.
CommitTransition_Blind(c) ==
  /\ pc[c] = "commit"
  /\ controller' = plan[c].to
  /\ audit' = Append(audit, [previous |-> plan[c].from, next |-> plan[c].to])
  /\ raced' = [d \in Callers |-> raced[d] \/ (d # c /\ InFlight(d))]
  /\ held' = [d \in Callers |->
                IF InFlight(d) THEN held[d] \cup {plan[c].to} ELSE held[d]]
  /\ AfterTransition(c)
  /\ UNCHANGED <<op, calls>>

CommitTransition(c) ==
  /\ pc[c] = "commit"
  /\ controller = plan[c].from
  /\ controller' = plan[c].to
  /\ audit' = Append(audit, [previous |-> controller, next |-> plan[c].to])
  /\ raced' = [d \in Callers |-> raced[d] \/ (d # c /\ InFlight(d))]
  /\ held' = [d \in Callers |->
                IF InFlight(d) THEN held[d] \cup {plan[c].to} ELSE held[d]]
  /\ AfterTransition(c)
  /\ UNCHANGED <<op, calls>>

RefuseTransition(c) ==
  /\ pc[c] = "commit"
  /\ controller # plan[c].from
  /\ Answer(c, "conflict")
  /\ UNCHANGED <<store, op, raced, held, calls>>

\* The caller's process dies between two transactions.
Crash(c) ==
  /\ InFlight(c)
  /\ pc' = [pc EXCEPT ![c] = "crashed"]
  /\ plan' = [plan EXCEPT ![c] = NoPlan]
  /\ UNCHANGED <<store, op, reply, raced, held, calls>>

Step(c) ==
  \/ ReadForDrain(c)
  \/ ReadForStop(c)
  \/ ReadForClear(c)
  \/ ReadForComplete(c)
  \/ CommitTransition(c)
  \/ RefuseTransition(c)

Next ==
  \E c \in Callers :
    \/ \E o \in Operations : Begin(c, o)
    \/ Step(c)
    \/ Crash(c)

Spec == Init /\ [][Next]_vars

\* A request that did not die runs to its end: it is a plain synchronous call.
FairSpec == Spec /\ \A c \in Callers : WF_vars(Step(c))

-----------------------------------------------------------------------------
(* Properties.                                                             *)

TransitionRecords == [previous : States, next : States]

\* Every variable keeps its type, and a caller has a planned transition
\* exactly while it is about to ask the database for it.
TypeOK ==
  /\ controller \in States
  /\ audit \in Seq(TransitionRecords)
  /\ pc \in [Callers -> Steps]
  /\ op \in [Callers -> Operations]
  /\ plan \in [Callers -> Plans \cup {NoPlan}]
  /\ reply \in [Callers -> Replies]
  /\ raced \in [Callers -> BOOLEAN]
  /\ held \in [Callers -> SUBSET States]
  /\ calls \in Nat
  /\ \A c \in Callers : pc[c] = "commit" <=> plan[c] # NoPlan

\* The audit trail explains the state: starting from ACTIVE, each control
\* event continues where the previous one ended, each is legal, and the last
\* one ends in the state in force, whatever the requests' interleaving.
AuditChain ==
  /\ audit = << >> => controller = "ACTIVE"
  /\ audit # << >> => /\ audit[1].previous = "ACTIVE"
                      /\ audit[Len(audit)].next = controller
  /\ \A i \in 1..(Len(audit) - 1) : audit[i].next = audit[i + 1].previous
  /\ \A i \in 1..Len(audit) :
       audit[i].next \in LegalTransitions[audit[i].previous]

\* The controller gets back to ACTIVE only straight after a cleared emergency
\* stop: however drains, stops, clears and completions interleave, a drained
\* controller never resumes without an explicit stop, clear and completion.
ResumesOnlyAfterClearedStop ==
  \A i \in 1..Len(audit) :
    audit[i].next = "ACTIVE" =>
      /\ i > 1
      /\ audit[i - 1] = [previous |-> "EMERGENCY_STOP", next |-> "RECOVERING"]

\* The audit trail explains the state, and every return to ACTIVE by a stop.
AuditExplainsTheState == AuditChain /\ ResumesOnlyAfterClearedStop

\* The state a request answers was in force at some moment of that request: no
\* caller is told of a stop or drain that did not happen while it waited.
RepliesWereInForce ==
  \A c \in Callers :
    pc[c] = "done" /\ reply[c] \in States => reply[c] \in held[c]

\* Only a race loses a request: a request that no other caller's transition
\* overlapped is never refused by the compare-and-set.
ConflictOnlyWhenRaced ==
  \A c \in Callers :
    pc[c] = "done" /\ reply[c] = "conflict" => raced[c]

\* A caller can believe its answer: a state was in force, a refusal had a rival.
AnswersAreTrue == RepliesWereInForce /\ ConflictOnlyWhenRaced

\* A controller that starts draining ends the drain (or is stopped), unless a
\* caller died between the drain's two transitions.
DrainSettles ==
  (controller = "DRAINING") ~>
    (controller # "DRAINING" \/ \E c \in Callers : pc[c] = "crashed")

\* The stop state seen as a gate that opens only with two approvals.
KeysOf(s) == CASE s = "ACTIVE"     -> 2
               [] s = "RECOVERING" -> 1
               [] OTHER            -> 0

Gate == INSTANCE TwoKeyGate WITH keys <- KeysOf(controller)

\* The controller implements the two-key gate the executor side relies on.
ImplementsGate == Gate!Spec
=============================================================================
