SPECIFICATION MCSpec
CONSTANTS
  Flow <- MCFlow
  LabelOf <- MCLabelOf
  MaxRetries = 1
  MaxServerBatch = 2
  BatchSize = 2
  MaxRows = 4
  MaxOther = 1
INVARIANTS
  TypeOK
  CompletedIsExact
PROPERTIES
  AtLeastOnce
CHECK_DEADLOCK FALSE
