SPECIFICATION Spec
CONSTANTS
  Runners = {r1, r2, r3, r4}
  Requests = {q1, q2, q3, q4}
  strict = q1
  MaxAttempts <- OneAttempt
  Threshold <- Threshold1
  Cooldown <- Cooldown1
  Workloads <- Distinct
  MaxTime = 2
SYMMETRY RunnerSymmetry
INVARIANT OneHalfOpenProbe
CONSTRAINT Undisturbed
CHECK_DEADLOCK FALSE
