SPECIFICATION FairSpec
CONSTANTS
  Callers = {c1, c2, c3}
  MaxCalls = 4
INVARIANTS
  TypeOK
  AuditExplainsTheState
  AnswersAreTrue
PROPERTIES
  ImplementsGate
  DrainSettles
CHECK_DEADLOCK FALSE
