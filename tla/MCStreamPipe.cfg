SPECIFICATION Spec
CONSTANTS
  Adapters = {"openai_compatible", "codex_responses"}
  Endpoints = {"chat", "responses"}
  MaxReads = 4
INVARIANTS
  TextFlows
  SuccessIsWhole
  NothingAbandoned
PROPERTIES
  LifecycleKept
  NothingLeftRunning
CHECK_DEADLOCK FALSE
