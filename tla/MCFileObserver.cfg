SPECIFICATION Spec
CONSTANTS
  Observers = {service, cli}
  OneShot = {cli}
  Inodes = {1, 2}
  Errors = {1, 2}
  Poison = {}
  MaxLines = 2
  MaxReplacements = 1
  MaxRuns = 2
INVARIANTS
  TypeOK
  LinesOnceInOrder
  CursorSkipsNothing
  CursorTellsTheEvents
  IncidentTalliesErrors
CHECK_DEADLOCK FALSE
