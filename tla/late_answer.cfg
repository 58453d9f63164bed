SPECIFICATION Spec
CONSTANTS
  Batch = 2
  LostPointMode = TRUE
  LinkDepth = 1
  MaxRequests = 2
  MaxSamples = 0
  MaxPage = 0
  MaxLoad = 2
  PageCommands = {}
INVARIANTS
  ResultOfRequest
CHECK_DEADLOCK FALSE
