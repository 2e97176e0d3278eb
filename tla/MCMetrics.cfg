SPECIFICATION Spec
CONSTANTS
  Requests = {r1, r2, r3, r4, r5}
  Endpoints = {"chat_completions"}
  Codes = {"rate_limited", "upstream_error"}
  ClassOf <- MCClassOf
  Latencies = {1, 2, 5}
  Size = 3
  Percents = {1, 33, 34, 50, 66, 67, 95, 99, 100}
SYMMETRY Symmetry
INVARIANTS
  RingHoldsLatest
  PercentilesRight
  CountedOnce
CHECK_DEADLOCK FALSE
