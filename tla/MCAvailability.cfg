SPECIFICATION Spec
CONSTANTS
  Pairs = {p1, p2}
  NoWindow = NoWindow
  Backoff <- ExponentialBackoff
  BackoffBase = 1
  BackoffMax = 10
  RetryInstants = {0, 3}
  MaxWindow = 10
  MaxFailures = 5
  LastMark = 2
INVARIANTS
  TypeOK
  RecordCoherent
  WindowBounded
PROPERTIES
  WindowNeverRetreats
  WindowLength
CHECK_DEADLOCK FALSE
