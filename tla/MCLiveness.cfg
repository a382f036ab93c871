CONSTANTS
  Intents = {i1}
  NoIntent = NoIntent
  Qty = 1
  MaxOpenOrders = 1
  MaxRevision = 3
  CancelOnHalt = FALSE
  NeedsHeartbeat = FALSE
  MalformedReplies = FALSE
  RequestTimeouts = FALSE
  OperatorCancels = TRUE
  QueueCapacity = 1
  MaxRestarts = 1
SPECIFICATION FairSpec
PROPERTIES
  StartupEnds
  BacklogEnds
CHECK_DEADLOCK FALSE
