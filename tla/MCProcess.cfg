SPECIFICATION Spec
CONSTANTS
  Requests = {r1, r2}
  Files <- MCFiles
  Configs <- MCConfigs
  Discoveries <- MCDiscoveries
  Environment <- MCEnvironment
INVARIANTS
  CommentsStripped
  AcceptedServes
  CleanExit
PROPERTIES
  StopsWhenTold
CHECK_DEADLOCK FALSE
