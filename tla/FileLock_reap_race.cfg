SPECIFICATION Spec
CONSTANTS
  a1 = a1
  a2 = a2
  a3 = a3
  None = None
  Attempts = {a1, a2, a3}
  Pids = {a1, a2, a3}
  PidOf <- OneEach
  FaultKinds = {"crash"}
SYMMETRY Interchangeable
CHECK_DEADLOCK FALSE
INVARIANTS
  MutualExclusion
