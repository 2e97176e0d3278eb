SPECIFICATION Spec
CONSTANTS
  a = a
  b = b
  m = m
  Stranger = x
  Models = {m, n}
  Providers <- MCProviders
  Configured <- MCConfigured
  Vision <- MCVision
  Alias <- MCAlias
  Strategy = "first_available"
  Requests = {r1, r2}
  MaxChanges = 2
SYMMETRY Symmetry
INVARIANTS
  CandidatesUsable
  NoneOverlooked
  ErrorCodesTell
PROPERTIES
  CatalogStable
CHECK_DEADLOCK FALSE
