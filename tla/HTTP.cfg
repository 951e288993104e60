SPECIFICATION FairSpec
CONSTANTS
  Sessions = {s1, s2}
  MaxRequests = 3
  MaxMessages = 3
  Ttl = 1
  SseIdle = 1
  BufferMax = 1
  Recovery = TRUE
INVARIANTS
  HttpInv
  InOrder
PROPERTIES
  NotSweptInUse
  EveryRequestEnds
  Reclaimed
