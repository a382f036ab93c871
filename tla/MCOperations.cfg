CONSTANTS
  r1 = r1
  r2 = r2
  Requests = {r1, r2}
  None = None
  Scenarios <- MCScenarios
  LiveMode = TRUE
  EventRetention = 1
  ReplayLimit = 2
  ChannelCapacity = 2
  MaxSequence = 6
  OperationSlots = 1
  MaxRestarts = 1
SPECIFICATION OperationsSpec
INVARIANTS
  OperationsTypeOK
  StreamInOrder
  NoSilentGap
  OneEffectPerKey
  ReplayIsExact
  PrunedIsInABackup
PROPERTIES
  BackupsEnd
CHECK_DEADLOCK FALSE
