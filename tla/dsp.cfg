SPECIFICATION Spec
CONSTANTS
  Batch = 2
  LostPointMode = TRUE
  LinkDepth = 1
  MaxRequests = 2
  MaxSamples = 6
  MaxPage = 1
  MaxLoad = 6
  PageCommands = {"RESET_SMV", "TIME_DATA"}
INVARIANTS
  TypeOK
  OwnCommand
  BatchIntact
  OwnWaveform
  NoStall
  LossEnds
  EveryFlagCounted
PROPERTIES
  OneRelease
  ImplementsService
CHECK_DEADLOCK FALSE
