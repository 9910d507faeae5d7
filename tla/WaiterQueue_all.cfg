SPECIFICATION Spec
CONSTANTS
  w1 = w1
  w2 = w2
  w3 = w3
  None = None
  Waiters = {w1, w2, w3}
  NameRank <- Names
  MaxClock = 1
  FaultKinds = {"crash", "suspend", "registry"}
CONSTRAINT OneInTrouble
CHECK_DEADLOCK FALSE
INVARIANTS
  NoOvertaking
  TicketKept
PROPERTIES
  NotStranded
