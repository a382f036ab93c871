CONSTANTS
  i1 = i1
  i2 = i2
  Intents = {i1, i2}
  NoIntent = NoIntent
  Qty = 2
  MaxOpenOrders = 2
  MaxRevision = 1
  Tokens = {"yes"}
  Scenarios <- MCScenarios
  TickCount = 3
  FeeNum = 1
  FeeDen = 2
  MaxEvents = 3
SPECIFICATION PaperSpec
INVARIANTS
  PaperTypeOK
  ReservationsBacked
  LedgerConserves
  NeverOverdrawn
  PriceProtected
  PaperFillsBookedOnce
  NoForgottenPaperOrder
PROPERTIES
  
  CleanRunBooksFills
  PaperImplementsVenue
CHECK_DEADLOCK FALSE
