SPECIFICATION Spec
CONSTANTS
  None = None
  Requests = {1, 2, 3}
  Batches <- EditBatches
  WorkerIds = {"w1"}
  RecordIds = {}
INVARIANT LastWriteWins
CHECK_DEADLOCK FALSE
