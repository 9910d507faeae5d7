SPECIFICATION EngineSpec
SYMMETRY Symmetry
CHECK_DEADLOCK FALSE
CONSTANTS
  N = 3
  Missing = {2}
  Overlap = {3}
  FaultKinds = {"signal", "slow", "crash", "io"}
  Procs = {p1, p2}
  Nobody = Nobody
  MaxEdits = 1
  MaxCommands = 3
  MaxKills = 1
  Workers = {w1, w2}
  MaxDispatches = 2
  MaxHelpers = 1
  MaxFaults = 2
INVARIANTS
  EngineTypes
  SessionKeepsUp
  DrainHolds
  StampsTrue
  VerdictTrue
  BytesKept
  EditsSurvive
  NothingLeft
  SparesOthers
PROPERTIES
  NeverReapplied
  SessionOutlivesWork
