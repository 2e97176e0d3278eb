SPECIFICATION Spec
CONSTANTS
  Pairs = {p1, p2}
  Discovered = {p2}
  NoWindow = NoWindow
  Backoff <- ExponentialBackoff
  BackoffBase = 1
  BackoffMax = 10
  Requests = {r1, r2}
  MaxEdits = 1
  MaxHups = 2
INVARIANTS
  TypeOK
  UnracedMarksKept
PROPERTIES
  HupServed
CHECK_DEADLOCK FALSE
