SPECIFICATION MCSpec
CONSTANTS
  Flow <- MCFlow
  LabelOf <- MCLabelOf
  MaxRetries = 1
  MaxServerBatch = 2
  BatchSize = 2
  DedupCapacity = 1
  MaxSegments = 2
  MaxRows = 3
  VerifierAuthorised = TRUE
  MaxOther = 1
INVARIANTS
  SessionTypeOK
  VerifiedIsExact
  VerifiedHasNoDuplicate
  VerifiedCountsAlerts
  CompletedIsComplete
PROPERTIES
  SessionEnds
CHECK_DEADLOCK FALSE
