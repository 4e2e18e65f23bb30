SPECIFICATION Spec
CONSTANTS
  Runners = {r1, r2}
  Requests = {q1}
  strict = q1
  MaxAttempts <- OneAttempt
  Threshold <- Threshold1
  Cooldown <- Cooldown1
  Workloads <- AnyRequest
  MaxTime = 0
INVARIANT OneActiveTaskPerKey
CHECK_DEADLOCK FALSE
