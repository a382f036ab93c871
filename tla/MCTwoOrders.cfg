CONSTANTS
  Intents = {i1, i2}
  NoIntent = NoIntent
  Qty = 1
  MaxOpenOrders = 1
  MaxRevision = 3
  CancelOnHalt = FALSE
  NeedsHeartbeat = FALSE
  MalformedReplies = FALSE
  RequestTimeouts = FALSE
  OperatorCancels = TRUE
  QueueCapacity = 2
  MaxRestarts = 0
SPECIFICATION Spec
SYMMETRY IntentSymmetry
INVARIANTS
  ExposureWithinLimit
CHECK_DEADLOCK FALSE
