SPECIFICATION UploadsSpec
CONSTANTS
  MaxBatchSize = 2
  MaxPendingBatches = 2
  MaxResults = 5
  StreakCap = 2
  Network = {"ok", "answer_lost"}
  Handlers = {h1}
  NoHandler = NoHandler
CHECK_DEADLOCK FALSE
INVARIANTS
  DownVoteNeedsTwoResults
