SPECIFICATION Spec
CONSTANTS
  N = 2
  Missing = {}
  Overlap = {}
  FaultKinds = {"signal", "io"}
CHECK_DEADLOCK FALSE
INVARIANTS
  QueueTellsTruth
