SPECIFICATION Spec
CONSTANTS
  r1 = r1
  r2 = r2
  w1 = w1
  w2 = w2
  None = None
  Readers = {r1, r2}
  Writers = {w1, w2}
  FaultKinds = {"crash", "signal", "io"}
CONSTRAINT TwoInTrouble
CHECK_DEADLOCK FALSE
INVARIANTS
  WriterAlone
  HoldKept
PROPERTIES
  NoNewcomers
  WriterServed
