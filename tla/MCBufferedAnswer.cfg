SPECIFICATION AnswerSpec
CONSTANTS
  NoWindow = NoWindow
  Pairs = {p1}
  Backoff <- ExponentialBackoff
  BackoffBase = 1
  BackoffMax = 10
  Adapters = {"openai_compatible", "codex_responses"}
  Documents <- MCDocuments
  Responses <- MCResponses
  Now = 2
  MaxLines = 5
INVARIANTS
  ConversationCarried
  WholeAnswer
  RejectionUnderstood
CHECK_DEADLOCK FALSE
