CONSTANTS
  Intents = {i1}
  NoIntent = NoIntent
  Qty = 2
  MaxOpenOrders = 1
  MaxRevision = 3
  CancelOnHalt = TRUE
  NeedsHeartbeat = FALSE
  MalformedReplies = TRUE
  RequestTimeouts = FALSE
  OperatorCancels = TRUE
  QueueCapacity = 1
  MaxRestarts = 0
SPECIFICATION Spec
INVARIANTS
  CancelWaitsForSubmission
  NoForgottenOrder
  NoPhantomFill
PROPERTIES
  CoordinatorKeepsContract
CHECK_DEADLOCK FALSE
