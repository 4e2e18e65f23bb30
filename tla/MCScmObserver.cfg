SPECIFICATION Spec
CONSTANTS
  Heads = {h1, h2}
  Trees = {t1, t2}
  GitErrors = {timeout, missing}
  Checks = {c1}
  Conclusions = {x1, x2}
  MaxFailed = 1
  Others = {"failure", "success"}
  Heartbeat = 1
  Resets = {0, 2}
  AuthDelay = 2
  BaseDelay = 1
  MaxDelay = 2
  Doublings = 1
SYMMETRY Symmetry
INVARIANTS
  TypeOK
  EventsTellTheRows
PROPERTIES
  CiReportsAreReal
  IntervalsAreKept
