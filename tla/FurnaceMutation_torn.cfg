SPECIFICATION Spec
CONSTANTS
  p1 = p1
  p2 = p2
  None = None
  Procs = {p1, p2}
  OwnRollback = {}
  FaultKinds = {"signal"}
CONSTRAINT WritesAfter
CHECK_DEADLOCK FALSE
INVARIANTS
  NoTornExit
