SPECIFICATION FairSpec
CONSTANTS
  Workers = {w1, w2}
  UI = UI
  NoThread = NoThread
  PortCount <- MCPortCount
  Bound <- MCBound
  MaxResults = 2
  MaxIndex = 1
  StateCount = 2
  SpawnWaits = TRUE
  Dialogs = {"manual"}
  FramesArrive = FALSE
INVARIANTS
  TypeOK
  OneFramer
  FramingIsManualTest
  RequestsWithdrawn
  StoppedIsQuiet
  SentInTest
PROPERTIES
  ImplementsSession
  StopDuringUpdateReturns
CHECK_DEADLOCK FALSE
