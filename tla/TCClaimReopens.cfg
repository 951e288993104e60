SPECIFICATION Spec
CONSTANTS
  t1 = t1
  t2 = t2
  a1 = a1
  a2 = a2
  p1 = p1
  p2 = p2
  None = None
  Keep = Keep
  Tasks = {t1, t2}
  Processes = {p1, p2}
  Calls <- ThreeCalls
  Handed = {t1}
  Agents = {a1, a2}
  FirstStatuses = {"in_progress"}
  Asked <- ThreeCallsAsk
PROPERTIES
  ClaimLeavesCompleted
CHECK_DEADLOCK FALSE
