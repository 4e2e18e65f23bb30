SPECIFICATION FairSpec
CONSTANTS
  Projects = 2
  Sources = 3
  Flaky <- OneFlaky
  Requests = {r1}
INVARIANTS
  TypeOK
  StopOverrunsOnePass
PROPERTIES
  EverySourceIsPolled
  ShutdownEnds
