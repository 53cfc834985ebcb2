SPECIFICATION MCSpec
CONSTANTS
  Flow <- MCFlow
  LabelOf <- MCLabelOf
  MaxRetries = 0
  MaxServerBatch = 2
  BatchSize = 2
  DedupCapacity = 2
  MaxSegments = 1
  MaxRows = 1
  VerifierAuthorised = FALSE
  MaxOther = 0
INVARIANTS
  CaptureRunsUntilStopped
CHECK_DEADLOCK FALSE
