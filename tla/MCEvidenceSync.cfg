SPECIFICATION Spec
CONSTANTS
  Version = {v1, v2}
  EvidenceVersion = v1
  Api = {p1}
  Sync = {s1, s2}
  A = A
  C = C
  tuned = tuned
  report = report
  classes = classes
  dataset = dataset
  understanding = understanding
  AllExperiments <- MCAll
  DATASET = dataset
  Understanding = understanding
  DocsOf <- MCDocsOf
  ClassSource <- MCClassSource
  LinksModel = A
  Digest = {d1, d2}
  NoDigest = none
SYMMETRY Digests
INVARIANTS
  TypeOK
  SnapshotIsWhole
  ServedIsActive
  ReportedIsServedOrNewer
PROPERTY
  ImplementsSnapshot
CHECK_DEADLOCK FALSE
