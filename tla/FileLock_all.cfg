SPECIFICATION Spec
CONSTANTS
  a1 = a1
  a2 = a2
  a3 = a3
  None = None
  Attempts = {a1, a2, a3}
  Pids = {a1, a3}
  PidOf <- TwoInOne
  FaultKinds = {"crash", "signal", "stall", "io"}
CONSTRAINT OneKindOfFault
CHECK_DEADLOCK FALSE
INVARIANTS
  TypeOK
  NeverDiscardsLiveRecord
PROPERTIES
  KeepsPromise
  DeadOwnerReclaimed
