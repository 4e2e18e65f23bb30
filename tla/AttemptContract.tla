--------------------------- MODULE AttemptContract ---------------------------
(***************************************************************************)
(* What the task runner relies on about one call of TaskExecutor.execute:  *)
(* the call decides on one classification, "blocked" only at a moment when *)
(* the stop gate is shut, and ends with it.  Between the decision and the  *)
(* end it may still turn into an infrastructure error, when the workspace  *)
(* cannot be removed, and into nothing else.  Until it ends the call may   *)
(* be abandoned by an exception or by the death of its process.            *)
(***************************************************************************)
EXTENDS Naturals

CONSTANT Outcomes       \* the classifications

VARIABLES keys,         \* the TwoKeyGate
          phase,        \* "idle", "running", "decided", "ended" or "abandoned"
          outcome       \* the classification decided on

Gate == INSTANCE TwoKeyGate

Init == Gate!Init /\ phase = "idle" /\ outcome = "none"

Begin == /\ phase = "idle"
         /\ phase' = "running"
         /\ UNCHANGED <<keys, outcome>>

Settle(c, reached) == /\ phase = "running"
                      /\ c = "blocked" => ~Gate!Open
                      /\ phase' = reached
                      /\ outcome' = c
                      /\ UNCHANGED keys

\* The loop settles on an outcome it has yet to return with.
Decide(c) == Settle(c, "decided")

\* The call settles on an outcome by returning with it.
Answer(c) == Settle(c, "ended")

End == /\ phase = "decided"
       /\ phase' = "ended"
       /\ outcome' \in {outcome, "infrastructure_error"}
       /\ UNCHANGED keys

Abandon == /\ phase \in {"running", "decided"}
           /\ phase' = "abandoned"
           /\ UNCHANGED <<keys, outcome>>

Operate == Gate!Next /\ UNCHANGED <<phase, outcome>>

Next == \/ Begin
        \/ \E c \in Outcomes : Decide(c) \/ Answer(c)
        \/ End
        \/ Abandon
        \/ Operate

Spec == Init /\ [][Next]_<<keys, phase, outcome>>
=============================================================================
