SPECIFICATION Spec
CONSTANTS
  None = None
  Memories = {}
  Standards = {s1}
  Tasks = {t1}
  Files = {}
  Contents = {c1, c2}
  Processes = {p1, p2}
  BatchSize = 2
  LeaseTicks = 1
  PoisonThreshold = 3
  BackoffBase = 1
  BackoffMax = 2
  DoneTtl = 1
  PoisonTtl = 1
  BackfillGate = 2
  UserOps = {"create", "update", "updateTask", "standard", "cancel", "delete", "retry", "clear"}
  MaxEdits = 2
  FaultKinds = {"crash", "busy", "overrun", "abortCycle", "abortSweep"}
  MaxFaults = 1
SYMMETRY ProcessSymmetry
INVARIANTS
  HeldSnapshot
  AttemptsMatchStatus
PROPERTIES
  DoneIsEarned
  AttemptsSurvive
  ImplementsLeasedQueue
CHECK_DEADLOCK FALSE
