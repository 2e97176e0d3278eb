SPECIFICATION Spec
CONSTANTS
  p1 = p1
  p2 = p2
  NoWindow = NoWindow
  Pairs <- MCPairs
  Candidates <- MCCandidates
  Adapter <- MCAdapter
  Backoff <- ExponentialBackoff
  BackoffBase = 1
  BackoffMax = 10
  Requests = {r1, r2}
  MaxEvents = 2
  MaxClock = 2
INVARIANTS
  TypeOK
  OutcomesReported
  LogTellsTruth
PROPERTIES
  ClientSeesOneAnswer
  Answered
CHECK_DEADLOCK FALSE
