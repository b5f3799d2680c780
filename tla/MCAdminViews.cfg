SPECIFICATION ServerSpec
CONSTANTS
  None = None
  Requests = {1, 2, 3}
  Batches <- MCBatches
  WorkerIds = {"w1", "w2"}
  RecordIds = {"a1", "a2", "c1"}
  AttemptIds = {"a1", "a2"}
  CertificateIds = {"c1"}
  Kinds <- MCKinds
  Callers <- MCCallers
  ByName <- MCByName
  Newest <- MCNewest
  PageSize = 1
  Retries = 2
  MaxTraffic = 3
INVARIANTS IInv AcceptedIsStored OnlyPassingFlawsPass OnlyNewWorkersFailViews ShownIsInScope PagesMissNobody
PROPERTIES SoloBatchIsSequential OnlyOverlapLosesEdits BatchesEnd
CHECK_DEADLOCK FALSE
