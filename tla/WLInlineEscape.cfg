SPECIFICATION Spec
CONSTANTS
  None = None
  Processes = {p1, p2}
  Slots = {s1, s2}
  FaultKinds = {}
  MaxFaults = 0
SYMMETRY Symmetric
INVARIANTS
  SectionsExclusive
CHECK_DEADLOCK FALSE
