SPECIFICATION FairSpec
CONSTANTS
  Observers = {service}
  OneShot = {}
  Inodes = {1, 2}
  Errors = {1, 2}
  Poison = {3}
  MaxLines = 3
  MaxReplacements = 1
  MaxRuns = 1
PROPERTY LinesGetRecorded
CHECK_DEADLOCK FALSE
