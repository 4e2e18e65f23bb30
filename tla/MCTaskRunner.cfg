SPECIFICATION FairSpec
CONSTANTS
  Runners = {r1, r2}
  Requests = {q1, q2}
  strict = q1
  MaxAttempts <- TwoAttempts
  Threshold <- Threshold1
  Cooldown <- Cooldown1
  Workloads <- AnyRequest
  MaxTime = 1
INVARIANTS
  TypeOK
  AttemptLedger
  RepeatReturnsStoredOutcome
  CircuitIsBacked
  TrippedCircuitCanCool
PROPERTIES
  TerminalIsFinal
  ProbeIsAnswered
CHECK_DEADLOCK FALSE
