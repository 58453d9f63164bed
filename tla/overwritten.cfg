SPECIFICATION Spec
CONSTANTS
  Batch = 1
  LostPointMode = TRUE
  LinkDepth = 1
  MaxRequests = 1
  MaxSamples = 5
  MaxPage = 0
  MaxLoad = 5
  PageCommands = {}
INVARIANTS
  CommandKept
CHECK_DEADLOCK FALSE
