SPECIFICATION Spec
CONSTANTS
  Items = {a, b}
  None = None
  Kinds = {"SMV", "GOOSE"}
  Rate = 3
  MaxBatch = 2
  MaxLoss = 1
  MaxFaults = 1
  MaxPublished = 3
  MaxKeys = 3
  ReceiveFirst = TRUE
SYMMETRY Symmetry
INVARIANTS
  TypeOK
  NoFalseAlarm
  LossesNoticed
  ErrorsWithinFrames
CHECK_DEADLOCK FALSE
