SPECIFICATION FairSpec
CONSTANTS
  Receivers = {r1, r2}
  NoOwner = NoOwner
  Capacity = 2
  MaxBatch = 1
  FreeSpace = {6}
  MaxRecordings = 2
  UserIsSlow = TRUE
INVARIANTS
  TypeOK
  RecordingServed
  
PROPERTIES
  StopWithPendingReturns
CHECK_DEADLOCK FALSE
