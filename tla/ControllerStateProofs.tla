------------------------ MODULE ControllerStateProofs ------------------------
(***************************************************************************)
(* Theorems about ControllerState, for any set of callers and any number   *)
(* of requests.                                                            *)
(***************************************************************************)
EXTENDS ControllerState, TLAPS

(***************************************************************************)
(* The inductive invariant.  What a caller is about to ask for decides     *)
(* everything: a planned transition is legal, leads to ACTIVE only from    *)
(* RECOVERING and to RECOVERING only from EMERGENCY_STOP; and as long as   *)
(* no other caller's transition hit the request, the state it planned from *)
(* is still in force.                                                      *)
(***************************************************************************)
PlanOK ==
  \A c \in Callers : pc[c] = "commit" =>
    /\ plan[c] \in Plans
    /\ plan[c].to \in LegalTransitions[plan[c].from]
    /\ plan[c].to = "ACTIVE" => plan[c].from = "RECOVERING"
    /\ plan[c].to = "RECOVERING" => plan[c].from = "EMERGENCY_STOP"
    /\ ~raced[c] => controller = plan[c].from

RecoveringOnlyFromStop ==
  \A i \in 1..Len(audit) :
    audit[i].next = "RECOVERING" => audit[i].previous = "EMERGENCY_STOP"

\* ACTIVE is entered only from RECOVERING, and never as the first event.
ActiveOnlyFromRecovering ==
  \A i \in 1..Len(audit) :
    audit[i].next = "ACTIVE" => i > 1 /\ audit[i].previous = "RECOVERING"

IInv ==
  /\ TypeOK
  /\ PlanOK
  /\ AuditChain
  /\ RecoveringOnlyFromStop
  /\ ActiveOnlyFromRecovering
  /\ ConflictOnlyWhenRaced

USE DEF States, Operations, Steps, Replies, Plans, NoPlan

-----------------------------------------------------------------------------
\* The initial state satisfies the invariant.
LEMMA InitIInv == Init => IInv
  BY DEF Init, IInv, TypeOK, PlanOK, AuditChain, RecoveringOnlyFromStop,
         ActiveOnlyFromRecovering, ConflictOnlyWhenRaced, TransitionRecords

\* A step that only moves one caller, to a plan that is legal and starts in the
\* state in force, or to an answer that no race forced, keeps the invariant.
LEMMA LocalStepIInv ==
  ASSUME IInv, NEW c \in Callers, UNCHANGED <<store, op, raced, held, calls>>,
         NEW s \in Steps, NEW p \in Plans \cup {NoPlan}, NEW r \in Replies,
         pc' = [pc EXCEPT ![c] = s],
         plan' = [plan EXCEPT ![c] = p],
         reply' = [reply EXCEPT ![c] = r],
         s = "commit" <=> p # NoPlan,
         s = "commit" => /\ p.from = controller
                         /\ p.to \in LegalTransitions[p.from]
                         /\ p.to = "ACTIVE" => p.from = "RECOVERING"
                         /\ p.to = "RECOVERING" => p.from = "EMERGENCY_STOP",
         r = "conflict" => raced[c]
  PROVE  IInv'
<1>1. TypeOK'
  BY DEF IInv, TypeOK, store
<1>2. PlanOK'
  BY DEF IInv, TypeOK, PlanOK, store
<1>3. (AuditChain /\ RecoveringOnlyFromStop /\ ActiveOnlyFromRecovering)'
  BY DEF IInv, AuditChain, RecoveringOnlyFromStop, ActiveOnlyFromRecovering,
         store
<1>4. ConflictOnlyWhenRaced'
  BY DEF IInv, TypeOK, ConflictOnlyWhenRaced, store
<1> QED BY <1>1, <1>2, <1>3, <1>4 DEF IInv

-----------------------------------------------------------------------------
\* ControlService._transition keeps the invariant when it starts from the state
\* that was read and the operation asks for ACTIVE or RECOVERING only from the
\* state that may lead there.
LEMMA TransitionIInv ==
  ASSUME IInv, NEW c \in Callers, NEW next \in States,
         UNCHANGED <<store, op, raced, held, calls>>,
         Transition(c, controller, next),
         next = "ACTIVE" => controller = "RECOVERING",
         next = "RECOVERING" => controller = "EMERGENCY_STOP"
  PROVE  IInv'
<1>1. controller \in States /\ pc \in [Callers -> Steps]
      /\ plan \in [Callers -> Plans \cup {NoPlan}] /\ reply \in [Callers -> Replies]
  BY DEF IInv, TypeOK
<1>2. CASE next \in LegalTransitions[controller]
  <2> DEFINE p == [from |-> controller, to |-> next]
  <2>1. p \in Plans /\ p # NoPlan
    BY <1>1
  <2>2. /\ pc' = [pc EXCEPT ![c] = "commit"]
        /\ plan' = [plan EXCEPT ![c] = p]
        /\ reply' = reply
    BY <1>2 DEF Transition
  <2>3. TypeOK'
    BY <2>1, <2>2 DEF IInv, TypeOK, store
  <2>4. PlanOK'
    BY <1>1, <1>2, <2>1, <2>2 DEF IInv, PlanOK, store
  <2>5. (AuditChain /\ RecoveringOnlyFromStop /\ ActiveOnlyFromRecovering)'
    BY DEF IInv, AuditChain, RecoveringOnlyFromStop,
           ActiveOnlyFromRecovering, store
  <2>6. ConflictOnlyWhenRaced'
    BY <1>1, <2>2 DEF IInv, ConflictOnlyWhenRaced, store
  <2> QED BY <2>3, <2>4, <2>5, <2>6 DEF IInv
<1>3. CASE next \notin LegalTransitions[controller]
  <2>1. Answer(c, "rejected")
    BY <1>3 DEF Transition
  <2> QED BY <2>1, LocalStepIInv DEF Answer
<1> QED BY <1>2, <1>3

\* Every read of the state, with the decision taken on it, keeps the invariant.
LEMMA ReadIInv ==
  ASSUME IInv, NEW c \in Callers,
         \/ ReadForDrain(c) \/ ReadForStop(c)
         \/ ReadForClear(c) \/ ReadForComplete(c)
  PROVE  IInv'
<1>0. controller \in States
  BY DEF IInv, TypeOK
<1>1. ASSUME NEW r \in Replies, Answer(c, r), r # "conflict",
             UNCHANGED <<store, op, raced, held, calls>>
      PROVE  IInv'
  BY <1>1, LocalStepIInv DEF Answer
<1>2. CASE ReadForDrain(c)
  <2>1. CASE Answer(c, "DRAINED") \/ Answer(c, "rejected")
    BY <1>1, <1>2, <2>1 DEF ReadForDrain, Read
  <2>2. CASE Transition(c, controller, "DRAINED") \/ Transition(c, controller, "DRAINING")
    BY <1>0, <1>2, <2>2, TransitionIInv DEF ReadForDrain, Read
  <2> QED BY <1>2, <2>1, <2>2 DEF ReadForDrain
<1>3. CASE ReadForStop(c)
  <2>1. CASE Answer(c, "EMERGENCY_STOP")
    BY <1>1, <1>3, <2>1 DEF ReadForStop, Read
  <2>2. CASE Transition(c, controller, "EMERGENCY_STOP")
    BY <1>0, <1>3, <2>2, TransitionIInv DEF ReadForStop, Read
  <2> QED BY <1>3, <2>1, <2>2 DEF ReadForStop
<1>4. CASE ReadForClear(c)
  <2>1. CASE Answer(c, "rejected")
    BY <1>1, <1>4, <2>1 DEF ReadForClear, Read
  <2>2. CASE controller = "EMERGENCY_STOP" /\ Transition(c, controller, "RECOVERING")
    BY <1>0, <1>4, <2>2, TransitionIInv DEF ReadForClear, Read
  <2> QED BY <1>4, <2>1, <2>2 DEF ReadForClear
<1>5. CASE ReadForComplete(c)
  <2>1. CASE Answer(c, "rejected")
    BY <1>1, <1>5, <2>1 DEF ReadForComplete, Read
  <2>2. CASE controller = "RECOVERING" /\ Transition(c, controller, "ACTIVE")
    BY <1>0, <1>5, <2>2, TransitionIInv DEF ReadForComplete, Read
  <2> QED BY <1>5, <2>1, <2>2 DEF ReadForComplete
<1> QED BY <1>2, <1>3, <1>4, <1>5

-----------------------------------------------------------------------------
\* The compare-and-set keeps the audit trail a chain of legal transitions.
LEMMA CommitAudit ==
  ASSUME IInv, NEW c \in Callers, CommitTransition(c)
  PROVE  (AuditChain /\ RecoveringOnlyFromStop /\ ActiveOnlyFromRecovering)'
<1> DEFINE e == [previous |-> controller, next |-> plan[c].to]
<1>1. /\ plan[c] \in Plans
      /\ plan[c].to \in LegalTransitions[controller]
      /\ plan[c].to = "ACTIVE" => controller = "RECOVERING"
      /\ plan[c].to = "RECOVERING" => controller = "EMERGENCY_STOP"
  BY DEF IInv, PlanOK, CommitTransition
<1>2. /\ audit \in Seq(TransitionRecords) /\ controller \in States
      /\ e \in TransitionRecords
  BY <1>1 DEF IInv, TypeOK, TransitionRecords
<1>3. /\ audit' = Append(audit, e) /\ controller' = e.next
      /\ Len(audit') = Len(audit) + 1 /\ Len(audit) \in Nat
      /\ audit'[Len(audit) + 1] = e
      /\ \A i \in 1..Len(audit) : audit'[i] = audit[i]
  BY <1>2 DEF CommitTransition
<1>4. /\ audit = << >> <=> Len(audit) = 0
      /\ audit' # << >>
  BY <1>2, <1>3
<1>5. e.previous = IF Len(audit) = 0 THEN "ACTIVE" ELSE audit[Len(audit)].next
  BY <1>4 DEF IInv, AuditChain
<1>6. AuditChain'
  <2>1. audit'[1].previous = "ACTIVE" /\ audit'[Len(audit')].next = controller'
    BY <1>3, <1>4, <1>5 DEF IInv, AuditChain
  <2>2. \A i \in 1..(Len(audit') - 1) : audit'[i].next = audit'[i + 1].previous
    <3> TAKE i \in 1..(Len(audit') - 1)
    <3>1. CASE i = Len(audit)
      BY <1>3, <1>5, <3>1
    <3>2. CASE i # Len(audit)
      <4>1. i \in 1..(Len(audit) - 1) /\ i + 1 \in 1..Len(audit)
        BY <1>3, <3>2
      <4> QED BY <1>3, <4>1 DEF IInv, AuditChain
    <3> QED BY <3>1, <3>2
  <2>3. \A i \in 1..Len(audit') :
          audit'[i].next \in LegalTransitions[audit'[i].previous]
    BY <1>1, <1>3 DEF IInv, AuditChain
  <2> QED BY <1>4, <2>1, <2>2, <2>3 DEF AuditChain
<1>7. RecoveringOnlyFromStop'
  BY <1>1, <1>3 DEF IInv, RecoveringOnlyFromStop
<1>8. ActiveOnlyFromRecovering'
  <2>1. e.next = "ACTIVE" => Len(audit) + 1 > 1 /\ e.previous = "RECOVERING"
    BY <1>1, <1>3, <1>5
  <2> QED BY <1>3, <2>1 DEF IInv, ActiveOnlyFromRecovering
<1> QED BY <1>6, <1>7, <1>8

\* The whole transaction, with what its caller does next.
LEMMA CommitIInv ==
  ASSUME IInv, NEW c \in Callers, CommitTransition(c)
  PROVE  IInv'
<1>1. /\ controller' = plan[c].to /\ plan[c] \in Plans
      /\ pc[c] = "commit" /\ op' = op /\ calls' = calls
      /\ raced' = [d \in Callers |-> raced[d] \/ (d # c /\ InFlight(d))]
  BY DEF IInv, PlanOK, CommitTransition
<1>2. audit' \in Seq(TransitionRecords) /\ held' \in [Callers -> SUBSET States]
  BY <1>1 DEF IInv, TypeOK, TransitionRecords, CommitTransition
<1>3. \A d \in Callers : d # c /\ pc[d] = "commit" => raced'[d]
  BY <1>1 DEF InFlight
<1>4. raced' \in [Callers -> BOOLEAN] /\ \A d \in Callers : raced[d] => raced'[d]
  BY <1>1 DEF IInv, TypeOK, InFlight
<1>5. CASE op[c] = "drain" /\ plan[c].to = "DRAINING"
  <2> DEFINE p == [from |-> "DRAINING", to |-> "DRAINED"]
  <2>1. pc' = pc /\ reply' = reply /\ plan' = [plan EXCEPT ![c] = p]
    BY <1>5 DEF CommitTransition, AfterTransition
  <2>2. p \in Plans /\ p # NoPlan /\ p.to \in LegalTransitions[p.from]
    BY DEF LegalTransitions
  <2>3. TypeOK'
    BY <1>1, <1>2, <1>4, <2>1, <2>2 DEF IInv, TypeOK
  <2>4. PlanOK'
    BY <1>1, <1>3, <1>5, <2>1, <2>2 DEF IInv, TypeOK, PlanOK
  <2>5. ConflictOnlyWhenRaced'
    BY <1>4, <2>1 DEF IInv, TypeOK, ConflictOnlyWhenRaced
  <2> QED BY <2>3, <2>4, <2>5, CommitAudit DEF IInv
<1>6. CASE ~(op[c] = "drain" /\ plan[c].to = "DRAINING")
  <2>1. /\ pc' = [pc EXCEPT ![c] = "done"]
        /\ reply' = [reply EXCEPT ![c] = plan[c].to]
        /\ plan' = [plan EXCEPT ![c] = NoPlan]
    BY <1>6 DEF CommitTransition, AfterTransition, Answer
  <2>2. TypeOK'
    BY <1>1, <1>2, <1>4, <2>1 DEF IInv, TypeOK
  <2>3. PlanOK'
    BY <1>1, <1>3, <2>1 DEF IInv, TypeOK, PlanOK
  <2>4. ConflictOnlyWhenRaced'
    BY <1>1, <1>4, <2>1 DEF IInv, TypeOK, ConflictOnlyWhenRaced
  <2> QED BY <2>2, <2>3, <2>4, CommitAudit DEF IInv
<1> QED BY <1>5, <1>6

\* Every step keeps the invariant.
LEMMA NextIInv == IInv /\ [Next]_vars => IInv'
<1> SUFFICES ASSUME IInv, [Next]_vars PROVE IInv'
  OBVIOUS
<1>1. ASSUME NEW c \in Callers, NEW o \in Operations, Begin(c, o)
      PROVE  IInv'
  <2>1. /\ store' = store /\ plan' = plan /\ pc[c] \in {"idle", "done"}
        /\ pc' = [pc EXCEPT ![c] = "read"] /\ op' = [op EXCEPT ![c] = o]
        /\ reply' = [reply EXCEPT ![c] = "none"]
        /\ raced' = [raced EXCEPT ![c] = FALSE]
        /\ held' = [held EXCEPT ![c] = {controller}] /\ calls' = calls + 1
    BY <1>1 DEF Begin
  <2>2. TypeOK'
    BY <2>1 DEF IInv, TypeOK, store
  <2>3. PlanOK'
    BY <2>1 DEF IInv, TypeOK, PlanOK, store
  <2>4. ConflictOnlyWhenRaced'
    BY <2>1 DEF IInv, TypeOK, ConflictOnlyWhenRaced
  <2>5. (AuditChain /\ RecoveringOnlyFromStop /\ ActiveOnlyFromRecovering)'
    BY <2>1 DEF IInv, AuditChain, RecoveringOnlyFromStop,
                ActiveOnlyFromRecovering, store
  <2> QED BY <2>2, <2>3, <2>4, <2>5 DEF IInv
<1>2. ASSUME NEW c \in Callers, Step(c)
      PROVE  IInv'
  <2>1. CASE CommitTransition(c)
    BY <2>1, CommitIInv
  <2>2. CASE RefuseTransition(c)
    <3>1. raced[c]
      BY <2>2 DEF RefuseTransition, IInv, PlanOK
    <3> QED BY <2>2, <3>1, LocalStepIInv DEF RefuseTransition, Answer
  <2> QED BY <1>2, <2>1, <2>2, ReadIInv DEF Step
<1>3. ASSUME NEW c \in Callers, Crash(c)
      PROVE  IInv'
  <2>1. /\ store' = store /\ op' = op /\ raced' = raced /\ held' = held
        /\ calls' = calls /\ reply' = reply
        /\ pc' = [pc EXCEPT ![c] = "crashed"] /\ plan' = [plan EXCEPT ![c] = NoPlan]
    BY <1>3 DEF Crash
  <2>2. TypeOK'
    BY <2>1 DEF IInv, TypeOK, store
  <2>3. (PlanOK /\ ConflictOnlyWhenRaced)'
    BY <2>1 DEF IInv, TypeOK, PlanOK, ConflictOnlyWhenRaced, store
  <2>4. (AuditChain /\ RecoveringOnlyFromStop /\ ActiveOnlyFromRecovering)'
    BY <2>1 DEF IInv, AuditChain, RecoveringOnlyFromStop,
                ActiveOnlyFromRecovering, store
  <2> QED BY <2>2, <2>3, <2>4 DEF IInv
<1>4. CASE UNCHANGED vars
  BY <1>4 DEF vars, IInv, TypeOK, PlanOK, AuditChain, RecoveringOnlyFromStop,
              ActiveOnlyFromRecovering, ConflictOnlyWhenRaced
<1> QED BY <1>1, <1>2, <1>3, <1>4 DEF Next

\* The invariant holds in every reachable state.
THEOREM InvariantHolds == Spec => []IInv
  BY InitIInv, NextIInv, PTL DEF Spec

\* Type correctness, for any callers.
THEOREM TypeCorrect == Spec => []TypeOK
<1>1. IInv => TypeOK
  BY DEF IInv
<1> QED BY <1>1, InvariantHolds, PTL

\* The control events are at all times a chain of legal transitions from ACTIVE
\* to the state in force.
THEOREM AuditTrailExplainsState == Spec => []AuditChain
<1>1. IInv => AuditChain
  BY DEF IInv
<1> QED BY <1>1, InvariantHolds, PTL

\* No interleaving of requests makes the controller ACTIVE again without a
\* stop that was cleared and a recovery that was completed, in that order.
THEOREM ResumeNeedsClearedStop == Spec => []ResumesOnlyAfterClearedStop
<1>1. IInv => ResumesOnlyAfterClearedStop
  <2> SUFFICES ASSUME IInv, NEW i \in 1..Len(audit), audit[i].next = "ACTIVE"
               PROVE  /\ i > 1
                      /\ audit[i - 1] = [previous |-> "EMERGENCY_STOP",
                                         next |-> "RECOVERING"]
    BY DEF ResumesOnlyAfterClearedStop
  <2>1. i > 1 /\ audit[i].previous = "RECOVERING"
    BY DEF IInv, ActiveOnlyFromRecovering
  <2>2. audit \in Seq(TransitionRecords) /\ Len(audit) \in Nat
    BY DEF IInv, TypeOK
  <2>3. i - 1 \in 1..(Len(audit) - 1) /\ i - 1 \in 1..Len(audit) /\ (i - 1) + 1 = i
    BY <2>1, <2>2
  <2>4. audit[i - 1].next = "RECOVERING"
    BY <2>1, <2>3 DEF IInv, AuditChain
  <2>5. audit[i - 1].previous = "EMERGENCY_STOP"
    BY <2>3, <2>4 DEF IInv, RecoveringOnlyFromStop
  <2>6. audit[i - 1] \in TransitionRecords
    BY <2>2, <2>3
  <2> QED BY <2>1, <2>4, <2>5, <2>6 DEF TransitionRecords
<1> QED BY <1>1, InvariantHolds, PTL

\* The audit trail explains the state in force and each return to ACTIVE.
THEOREM AuditExplains == Spec => []AuditExplainsTheState
<1>1. AuditChain /\ ResumesOnlyAfterClearedStop => AuditExplainsTheState
  BY DEF AuditExplainsTheState
<1> QED BY <1>1, AuditTrailExplainsState, ResumeNeedsClearedStop, PTL

\* A request is refused by the compare-and-set only when another caller's
\* transition was committed during it.
THEOREM OnlyRacesLoseRequests == Spec => []ConflictOnlyWhenRaced
<1>1. IInv => ConflictOnlyWhenRaced
  BY DEF IInv
<1> QED BY <1>1, InvariantHolds, PTL

-----------------------------------------------------------------------------
\* The controller implements the two-key gate: it starts open, and every step
\* shuts the gate, turns one key, or leaves it alone.
THEOREM GateImplemented == Spec => ImplementsGate
<1>1. Init => Gate!Init
  BY DEF Init, Gate!Init, KeysOf
<1>2. IInv /\ [Next]_vars => [Gate!Next]_(KeysOf(controller))
  <2> SUFFICES ASSUME IInv, [Next]_vars
               PROVE  [Gate!Next]_(KeysOf(controller))
    OBVIOUS
  <2>1. ASSUME NEW c \in Callers, CommitTransition(c)
        PROVE  [Gate!Next]_(KeysOf(controller))
    <3>1. /\ controller = plan[c].from /\ controller' = plan[c].to
          /\ plan[c] \in Plans
          /\ plan[c].to = "ACTIVE" => plan[c].from = "RECOVERING"
          /\ plan[c].to = "RECOVERING" => plan[c].from = "EMERGENCY_STOP"
      BY <2>1 DEF CommitTransition, IInv, PlanOK
    <3>2. CASE plan[c].to = "ACTIVE"
      BY <3>1, <3>2 DEF KeysOf, Gate!Next, Gate!Approve
    <3>3. CASE plan[c].to = "RECOVERING"
      BY <3>1, <3>3 DEF KeysOf, Gate!Next, Gate!Approve
    <3>4. CASE plan[c].to \notin {"ACTIVE", "RECOVERING"}
      <4>1. KeysOf(controller) \in 0..2 /\ KeysOf(controller') = 0
        BY <3>1, <3>4 DEF KeysOf
      <4> QED BY <4>1 DEF KeysOf, Gate!Next, Gate!Shut
    <3> QED BY <3>2, <3>3, <3>4
  <2>2. CASE controller' = controller
    BY <2>2 DEF KeysOf
  <2>3. \/ controller' = controller
        \/ \E c \in Callers : CommitTransition(c)
    BY DEF Next, vars, store, Begin, Step, Crash, Read, ReadForDrain,
           ReadForStop, ReadForClear, ReadForComplete, RefuseTransition
  <2> QED BY <2>1, <2>2, <2>3
<1> QED BY <1>1, <1>2, InvariantHolds, PTL DEF ImplementsGate, Spec, Gate!Spec

-----------------------------------------------------------------------------
\* While a request runs, the state in force is among those it has seen held; a
\* request that answered a state saw that state held.
HeldInv ==
  /\ RepliesWereInForce
  /\ \A c \in Callers : InFlight(c) => controller \in held[c]

\* A request that stays in flight, or answers the state in force, keeps HeldInv.
LEMMA LocalStepHeld ==
  ASSUME TypeOK, HeldInv, NEW c \in Callers, InFlight(c),
         UNCHANGED <<store, held>>,
         NEW s \in Steps, NEW r \in Replies,
         pc' = [pc EXCEPT ![c] = s],
         reply' = [reply EXCEPT ![c] = r],
         s = "done" /\ r \in States => r = controller
  PROVE  HeldInv'
<1>1. RepliesWereInForce'
  BY DEF TypeOK, HeldInv, RepliesWereInForce, store, InFlight
<1>2. (\A d \in Callers : InFlight(d) => controller \in held[d])'
  BY DEF TypeOK, HeldInv, store, InFlight
<1> QED BY <1>1, <1>2 DEF HeldInv

\* Every step keeps HeldInv.
LEMMA NextHeld == IInv /\ HeldInv /\ [Next]_vars => HeldInv'
<1> SUFFICES ASSUME IInv, HeldInv, [Next]_vars PROVE HeldInv'
  OBVIOUS
<1>t. TypeOK
  BY DEF IInv
<1>1. ASSUME NEW c \in Callers, NEW o \in Operations, Begin(c, o)
      PROVE  HeldInv'
  BY <1>t, <1>1 DEF Begin, TypeOK, HeldInv, RepliesWereInForce, InFlight, store
<1>2. ASSUME NEW c \in Callers, Step(c), ~CommitTransition(c)
      PROVE  HeldInv'
  <2>1. InFlight(c) /\ UNCHANGED <<store, held>>
    BY <1>2 DEF Step, Read, ReadForDrain, ReadForStop, ReadForClear,
                ReadForComplete, RefuseTransition, InFlight
  <2>2. \/ \E r \in {controller, "rejected", "conflict"} : Answer(c, r)
        \/ /\ pc' = [pc EXCEPT ![c] = "commit"]
           /\ UNCHANGED reply
    BY <1>2 DEF Step, Read, ReadForDrain, ReadForStop, ReadForClear,
                ReadForComplete, RefuseTransition, Transition
  <2>3. reply = [reply EXCEPT ![c] = reply[c]] /\ reply[c] \in Replies
    BY <1>t DEF TypeOK
  <2>4. controller \in States
    BY <1>t DEF TypeOK
  <2>5. CASE \E r \in {controller, "rejected", "conflict"} : Answer(c, r)
    BY <1>t, <2>1, <2>4, <2>5, LocalStepHeld DEF Answer
  <2>6. CASE pc' = [pc EXCEPT ![c] = "commit"] /\ UNCHANGED reply
    BY <1>t, <2>1, <2>3, <2>6, LocalStepHeld
  <2> QED BY <2>2, <2>5, <2>6
<1>3. ASSUME NEW c \in Callers, CommitTransition(c)
      PROVE  HeldInv'
  <2>1. /\ pc[c] = "commit" /\ controller' = plan[c].to
        /\ held' = [d \in Callers |->
                      IF InFlight(d) THEN held[d] \cup {plan[c].to} ELSE held[d]]
        /\ \/ pc' = pc /\ reply' = reply
           \/ /\ pc' = [pc EXCEPT ![c] = "done"]
              /\ reply' = [reply EXCEPT ![c] = plan[c].to]
    BY <1>3 DEF CommitTransition, AfterTransition, Answer
  <2>2. RepliesWereInForce'
    BY <1>t, <2>1 DEF TypeOK, HeldInv, RepliesWereInForce, InFlight
  <2>3. (\A d \in Callers : InFlight(d) => controller \in held[d])'
    BY <1>t, <2>1 DEF TypeOK, HeldInv, InFlight
  <2> QED BY <2>2, <2>3 DEF HeldInv
<1>4. ASSUME NEW c \in Callers, Crash(c)
      PROVE  HeldInv'
  BY <1>t, <1>4, LocalStepHeld DEF Crash, TypeOK, InFlight, store, HeldInv, RepliesWereInForce
<1>5. CASE UNCHANGED vars
  BY <1>5 DEF vars, HeldInv, RepliesWereInForce, InFlight
<1> QED BY <1>1, <1>2, <1>3, <1>4, <1>5 DEF Next

\* What a request answers was true at some moment of the request.
THEOREM RepliesAreTrue == Spec => []RepliesWereInForce
<1>1. Init => HeldInv
  BY DEF Init, HeldInv, RepliesWereInForce, InFlight
<1>2. HeldInv => RepliesWereInForce
  BY DEF HeldInv
<1> QED BY <1>1, <1>2, NextHeld, InvariantHolds, PTL DEF Spec

\* A caller can believe its answer, be it a state or a refusal.
THEOREM CallersAreToldTheTruth == Spec => []AnswersAreTrue
<1>1. RepliesWereInForce /\ ConflictOnlyWhenRaced => AnswersAreTrue
  BY DEF AnswersAreTrue
<1> QED BY <1>1, RepliesAreTrue, OnlyRacesLoseRequests, PTL
=============================================================================
