SPECIFICATION FairSpec
CONSTANTS
  MaxBatchSize = 2
  MaxPendingBatches = 2
  MaxResults = 5
CHECK_DEADLOCK FALSE
INVARIANTS
  NoHoleInQueue
  FullBatchIsSignalled
PROPERTIES
  UploadsInOrder
  ResultsLeave
  CloseReturns
