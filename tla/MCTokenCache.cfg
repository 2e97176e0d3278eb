SPECIFICATION Spec
CONSTANTS
  Callers = {c1, c2, c3}
  RefreshBefore = 1
  Nobody = nobody
  MaxClock = 3
INVARIANTS
  TypeOK
  NeverStale
  RefreshShared
PROPERTIES
  EveryCallEnds
CHECK_DEADLOCK FALSE
