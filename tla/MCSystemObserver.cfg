SPECIFICATION Spec
CONSTANTS
  Units = {u1, u2, u3, u4}
  States = {"running", "exited"}
  Healths = {"none", "healthy"}
  Errors = {missing, denied}
  Snapshots <- AllSnapshots
  Heartbeat = 2
  OnAttach = 1
  Limit = 2
  Window = 2
  MaxTime = 2
  MaxLines = 4
SYMMETRY Symmetry
INVARIANTS
  TypeOK
  EventsTellTheRow
  NoLineIsSkipped
PROPERTIES
  HeartbeatsFillSilence
  LinesOnce
