SPECIFICATION FairSpec
CONSTANTS
  None = None
  Starts = {start1, start2}
  Stops = {stop1}
  Workers = {w1, w2}
INVARIANTS
  NeverWedged
  StatusIsTrue
PROPERTIES
  StopStops
CHECK_DEADLOCK FALSE
