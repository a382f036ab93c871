CONSTANTS
  Intents = {i1}
  NoIntent = NoIntent
  Qty = 1
  MaxOpenOrders = 1
  MaxRevision = 5
  CancelOnHalt = FALSE
  NeedsHeartbeat = FALSE
  MalformedReplies = FALSE
  RequestTimeouts = FALSE
  OperatorCancels = TRUE
  QueueCapacity = 1
  MaxRestarts = 1
SPECIFICATION Spec
INVARIANTS
  
  SingleSend
PROPERTIES
  OperatorReleasesHalt
  ImplementsJournal
CHECK_DEADLOCK FALSE
