SPECIFICATION FairSpec
CONSTANTS
  None = None
  Memories = {m1}
  Standards = {}
  Tasks = {}
  Files = {f1}
  Contents = {c1, c2}
  Processes = {p1}
  BatchSize = 2
  LeaseTicks = 1
  PoisonThreshold = 2
  BackoffBase = 1
  BackoffMax = 1
  DoneTtl = 1
  PoisonTtl = 1
  BackfillGate = 3
  UserOps = {"create", "update", "delete", "archive"}
  MaxEdits = 3
  FaultKinds = {"crash", "busy", "overrun", "abortCycle", "abortSweep"}
  MaxFaults = 2
PROPERTIES
  Converges
  Drains
CHECK_DEADLOCK FALSE
