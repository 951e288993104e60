SPECIFICATION FairSpec
CONSTANTS
  None = None
  Memories = {m1}
  Standards = {}
  Tasks = {t1}
  Files = {}
  Contents = {c1, c2}
  Processes = {p1}
  BatchSize = 2
  LeaseTicks = 1
  PoisonThreshold = 2
  BackoffBase = 1
  BackoffMax = 1
  DoneTtl = 1
  PoisonTtl = 1
  BackfillGate = 2
  UserOps = {"create", "update", "updateTask", "cancel", "delete", "retry", "clear", "archive", "reopen", "unqueued"}
  MaxEdits = 3
  FaultKinds = {"crash", "busy", "overrun", "abortCycle"}
  MaxFaults = 2
PROPERTIES
  DedupSound
  RevivedIsCurrent
  Repairs
CHECK_DEADLOCK FALSE
