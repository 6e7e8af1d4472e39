SPECIFICATION Spec
CONSTANTS
  w1 = w1
  w2 = w2
  Workers = {w1, w2}
  Capacity = 2
  CounterSize = 2
  Site = "site1"
  FailOpen = TRUE
  PathMask = 3
  FallbackMark = 1
  MaxPaths = 8
  Messages <- Documents
INVARIANT ProcessInv
PROPERTIES
  IsChannel
  PolicyNeverRolledBack
  StopEnds
