SPECIFICATION Spec
CHECK_DEADLOCK FALSE
CONSTANTS
  Patches = {p1, p2, p3}
  p1 = p1
  p2 = p2
  p3 = p3
  Listed <- QueueStart
  Slug <- SharedSlugs
  MaxOrder = 4
  MaxCommands = 1
  MaxFaults = 1
  MaxCrashes = 0
INVARIANTS
  FailedRestores
