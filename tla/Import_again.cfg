SPECIFICATION WorkspaceSpec
CHECK_DEADLOCK FALSE
CONSTANTS
  Procs = {s1, s2}
  NoProc = noproc
  Fields = {brand, base}
  NoField = nofield
  MaxUpdates = 0
  Patches = {p1, p2, p3}
  p1 = p1
  p2 = p2
  p3 = p3
  p4 = p4
  ImportPatches = {p1, p2, p3, p4}
  Listed <- QueueStart
  Slug <- OwnSlugs
  MaxOrder = 4
  MaxCommands = 0
  MaxFaults = 0
  MaxCrashes = 0
  PatchFiles = {f1, f2}
  Created = {f2}
  Hunks = {k1, k2}
  Labels = {l1, l2}
  MaxEdits = 0
  MaxStops = 0
  f = f
  g = g
  n = n
  h1 = h1
  h2 = h2
  h3 = h3
  stale = stale
  edit = edit
  whole = whole
  EngineFiles = {f, g, n}
  Order <- ImportQueue
  Added = {n}
  Changes = {h1, h2, h3, stale, edit, whole}
  Edits = {edit}
  New = whole
  Needs <- HunkNeeds
  Clashes <- HunkClashes
  Never = {stale}
  Starts <- StartBodies
  NoPatch = nopatch
  MaxImports = 3
  MaxChanges = 2
  MaxGitFaults = 0
  MaxAttempts = 2
  Entries = {e1, e2}
  MaxWrites = 0
  MaxCreates = 0
INVARIANTS
  ReimportIsNoOp
