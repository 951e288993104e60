SPECIFICATION Spec
CONSTANTS
  Procs = {p1, p2}
  Memories = {m1, m2}
  Texts = {x, y}
  None = None
  Retention = 1
  Interval = 1
  MaxRows = 2
  BatchSize = 1
  MaxUses = 1
  MaxTime = 3
SYMMETRY Symmetry
INVARIANTS
  PassInv
  NeverLost
PROPERTIES
  OnlyOldLeave
CHECK_DEADLOCK FALSE
