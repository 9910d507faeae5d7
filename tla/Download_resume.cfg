SPECIFICATION Spec
CHECK_DEADLOCK FALSE
CONSTANTS
  MaxCommands = 3
  MaxFaults = 2
  MaxAttempts = 2
INVARIANTS
  FurnaceFollows
