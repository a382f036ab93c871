CONSTANTS
  Intents = {i1, i2}
  NoIntent = NoIntent
  Qty = 1
  MaxOpenOrders = 2
  MaxRevision = 2
  CancelOnHalt = FALSE
  NeedsHeartbeat = FALSE
  MalformedReplies = TRUE
  RequestTimeouts = FALSE
  OperatorCancels = TRUE
  QueueCapacity = 1
  MaxRestarts = 0
SPECIFICATION Spec
PROPERTIES
  StopsWhenUnproven
CHECK_DEADLOCK FALSE
