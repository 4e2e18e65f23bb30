SPECIFICATION FairSpec
INVARIANTS
  TypeOK
  ResultTellsTheExit
  NothingIsStranded
PROPERTIES
  ImplementsContract
  StopReachesTheProcess
CHECK_DEADLOCK FALSE
