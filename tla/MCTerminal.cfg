CONSTANTS
  Intents = {i1}
  NoIntent = NoIntent
  Qty = 1
  MaxOpenOrders = 1
  MaxRevision = 4
  CancelOnHalt = TRUE
  NeedsHeartbeat = FALSE
  MalformedReplies = FALSE
  RequestTimeouts = FALSE
  OperatorCancels = TRUE
  QueueCapacity = 1
  MaxRestarts = 0
SPECIFICATION Spec
PROPERTIES
  TerminalStaysTerminal
CHECK_DEADLOCK FALSE
