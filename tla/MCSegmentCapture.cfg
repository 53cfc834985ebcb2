SPECIFICATION SegmentSpec
CONSTANTS
  MaxInterrupts = 2
INVARIANTS
  SegmentTypeOK
  CutOffIsRefused
  NoOrphan
  InterruptHeard
PROPERTIES
  CaptureEnds
CHECK_DEADLOCK FALSE
