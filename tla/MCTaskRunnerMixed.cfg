SPECIFICATION Spec
CONSTANTS
  Runners = {r1, r2}
  Requests = {q1, q2}
  strict = q1
  MaxAttempts <- OneAttempt
  Threshold <- Mixed
  Cooldown <- Cooldown1
  Workloads <- AnyRequest
  MaxTime = 0
INVARIANT TrippedCircuitCanCool
CHECK_DEADLOCK FALSE
