SPECIFICATION FairSpec
CONSTANTS
  None = None
  Tasks = {t1, t2, t3}
  Timed = {t1, t2}
  Workers = {w1, w2, w3}
  FirstWorkers = {w1, w2}
  CrashLimit = 2
INVARIANTS
  PoolInv
  SizeKept
PROPERTIES
  SettledOnce
  OwnReply
  EveryTaskSettles
  CloseResolves
CHECK_DEADLOCK FALSE
