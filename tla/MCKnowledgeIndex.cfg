SPECIFICATION Spec
CONSTANTS
  Paths = 2
  Documents <- SomeDocuments
  Builders = {b1, b2}
  Readers = {r1}
  Limit = 1
  MaxEdits = 1
INVARIANTS
  TypeOK
  IndexTellsTheFiles
PROPERTIES
  IndexNeverGoesBack
  MatchTellsOneIndex
