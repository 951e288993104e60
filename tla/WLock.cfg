SPECIFICATION FairSpec
CONSTANTS
  None = None
  Processes = {p1, p2}
  Slots = {s1, s2}
  FaultKinds = {"crash", "stall"}
  MaxFaults = 3
INVARIANTS
  LockInv
  OneHolder
PROPERTIES
  FreshLockKept
  EveryCallReturns
CHECK_DEADLOCK FALSE
