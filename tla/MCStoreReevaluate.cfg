CONSTANTS
  Intents = {i1}
  Qty = 1
  MaxOpenOrders = 1
  MaxRevision = 2
SPECIFICATION StoreSpec
INVARIANT
  CanBeEvaluatedAgain
