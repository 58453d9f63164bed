SPECIFICATION Spec
CONSTANTS
  Workers = {w1, w2}
  UI = UI
  NoThread = NoThread
  PortCount <- MCOnePort
  Bound <- MCOneBound
  MaxResults = 2
  MaxIndex = 1
  StateCount = 2
  SpawnWaits = TRUE
  Dialogs = {"manual"}
  FramesArrive = FALSE
INVARIANTS
  TestOver
SYMMETRY WorkerSymmetry
CHECK_DEADLOCK FALSE
