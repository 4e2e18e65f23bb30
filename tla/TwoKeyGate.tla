----------------------------- MODULE TwoKeyGate -----------------------------
(***************************************************************************)
(* What the rest of the controller may rely on about the global stop       *)
(* state, with everything but the admission question left out.             *)
(*                                                                         *)
(* Work is admitted only while the gate is open.  Anybody may shut it at   *)
(* any moment, in one step.  It opens again only after two separate        *)
(* operator approvals given since it was last shut: clearing the emergency *)
(* stop, then completing the recovery.                                     *)
(*                                                                         *)
(* ControllerState implements this specification; TaskRunner and Executor  *)
(* use it as their environment.                                            *)
(***************************************************************************)
EXTENDS Naturals

VARIABLE keys      \* approvals given since the gate was last shut, 0..2

Open == keys = 2

Init == keys = 2

Shut == /\ keys > 0
        /\ keys' = 0

Approve == /\ keys < 2
           /\ keys' = keys + 1

Next == Shut \/ Approve

Spec == Init /\ [][Next]_keys
=============================================================================
