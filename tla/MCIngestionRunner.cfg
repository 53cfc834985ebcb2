SPECIFICATION Spec
CONSTANTS
  Flow <- MCFlow
  LabelOf <- MCLabelOf
  MaxRetries = 1
  MaxServerBatch = 2
  BatchSize = 2
  MaxRows = 3
  Feature <- MCFeature
  Normal <- MCNormal
  Alias <- MCAlias
  Artifact <- MCArtifact
  MetadataField <- MCMetadataField
  Identity <- MCIdentity
  V3Source <- MCV3Source
  Headers <- MCHeaders
  Row <- MCRow
INVARIANTS
  SuccessIsComplete
  OnlyRetriesDuplicate
  HeaderVerdictHolds
  AcceptedIsPrepared
  AdaptersAgree
CHECK_DEADLOCK FALSE
