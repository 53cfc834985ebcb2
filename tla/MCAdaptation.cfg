SPECIFICATION Spec
CONSTANTS
  NumSessions = 7
  ClassOf <- MCClassOf
  Validation = {5, 6, 7}
  Datasets <- MCDatasets
  Rank <- MCRank
  SessionCap = 1
  MaxExtractions = 2
  MaxCleans = 2
INVARIANTS
  StrategiesNested
  FitIsAuditedPlan
CHECK_DEADLOCK FALSE
