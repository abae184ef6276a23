SPECIFICATION UploadsSpec
CONSTANTS
  MaxBatchSize = 2
  MaxPendingBatches = 1
  MaxResults = 3
  StreakCap = 2
  Network = {"ok", "rejected", "retryable", "answer_lost"}
  Handlers = {h1, h2}
  NoHandler = NoHandler
CHECK_DEADLOCK FALSE
INVARIANTS
  UploadsTypeOK
  EvidenceIsNewest
