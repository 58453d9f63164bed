SPECIFICATION FairSpec
CONSTANTS
  Workers = {w1, w2}
  UI = UI
  NoThread = NoThread
  PortCount <- MCPortCount
  Bound <- MCBound
  MaxResults = 2
  MaxIndex = 1
  StateCount = 2
  SpawnWaits = TRUE
  Dialogs = {"sequence"}
  FramesArrive = FALSE
INVARIANTS
  SequenceExclusive
  AllStatesHaveResults
  NoTestIsQuiet
PROPERTIES
  ImplementsSequence
  StopSequenceReturns
CHECK_DEADLOCK FALSE
