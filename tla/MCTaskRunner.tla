---------------------------- MODULE MCTaskRunner ----------------------------
(* Constants of TaskRunner for TLC.  Requests of one template differ only   *)
(* in their idempotency key.                                                *)
EXTENDS TaskRunner, TLC

CONSTANTS strict     \* the request whose template has the lower threshold

OneAttempt  == [q \in Requests |-> 1]
TwoAttempts == [q \in Requests |-> 2]
Threshold1  == [q \in Requests |-> 1]
Mixed       == [q \in Requests |-> IF q = strict THEN 1 ELSE 2]
Cooldown1   == [q \in Requests |-> 1]

AnyRequest  == [Runners -> Requests]
Distinct    == {w \in AnyRequest : \A r, s \in Runners : r # s => w[r] # w[s]}

\* Runs that look for one behaviour leave stops and crashes out.
Undisturbed == keys = 2 /\ \A r \in Runners : pc[r] # "crashed"

RunnerSymmetry == Permutations(Runners)
=============================================================================
