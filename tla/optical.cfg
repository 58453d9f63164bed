SPECIFICATION FairSpec
CONSTANTS
  Gatherers = {t1, t2, t3}
  Resettable = TRUE
  BeginFails = TRUE
INVARIANTS
  OneGatherer
PROPERTIES
  StopAnswered
  LoneStopReturns
