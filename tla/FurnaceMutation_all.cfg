SPECIFICATION Spec
CONSTANTS
  p1 = p1
  p2 = p2
  None = None
  Procs = {p1, p2}
  OwnRollback = {p2}
  FaultKinds = {"throw", "signal", "again", "io", "slow", "state"}
CONSTRAINT OneSignalled
CHECK_DEADLOCK FALSE
INVARIANTS
  TypeOK
  RestoredOrMarked
  HandlerRestoresOrMarks
  OneRestorer
  RestoreUnderLock
PROPERTIES
  SignalEnds
