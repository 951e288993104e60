SPECIFICATION Spec
CONSTANTS
  Processes = {p1, p2}
  Callers = {p1}
  Paths = {f1, f2}
  Contents = {c1, c2}
  None = None
  Margin = 1
  BatchSize = 1
  FaultKinds = {"crash", "unreadable", "timeout", "upsert", "replace", "rename", "clean", "scoped"}
  MaxFaults = 1
  MaxEdits = 1
  MaxTime = 1
INVARIANTS
  SkipSound
  SymbolsAgree
PROPERTIES
  LeavesTree
SYMMETRY Symmetry
CHECK_DEADLOCK FALSE
