SPECIFICATION ReceiveFairSpec
CONSTANTS
  Workers = {w1}
  UI = UI
  NoThread = NoThread
  PortCount <- MCOnePort
  Bound <- MCSmvBound
  MaxResults = 1
  MaxIndex = 1
  StateCount = 1
  SpawnWaits = TRUE
  Dialogs = {"manual", "sequence"}
  FramesArrive = TRUE
PROPERTIES
  ReceptionEnds
CHECK_DEADLOCK FALSE
