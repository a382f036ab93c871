CONSTANTS
  Intents = {i1, i2}
  Qty = 2
  MaxOpenOrders = 1
  MaxRevision = 2
SPECIFICATION StoreSpec
SYMMETRY IntentSymmetry
INVARIANTS
  StoreTypeOK
  JournalsAgree
  FillsFollowOutcome
  BookedWithinOrder
PROPERTY
  NeverSubmittableAgain
