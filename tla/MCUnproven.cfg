CONSTANTS
  Intents = {i1, i2}
  NoIntent = NoIntent
  Qty = 1
  MaxOpenOrders = 2
  MaxRevision = 4
  CancelOnHalt = FALSE
  NeedsHeartbeat = TRUE
  MalformedReplies = FALSE
  RequestTimeouts = TRUE
  OperatorCancels = FALSE
  QueueCapacity = 1
  MaxRestarts = 1
SPECIFICATION Spec
SYMMETRY IntentSymmetry
INVARIANTS
  CoordTypeOK
  EnqueueIsServed
PROPERTIES
  StopsWhenUnproven
  NoSubmissionUnderFinding
CHECK_DEADLOCK FALSE
