SPECIFICATION Spec
CONSTANTS
  Publisher = {c1, c2}
  Counts <- MCCounts
  MaxFits = 3
  MaxRuns = 4
  MaxBusy = 2
INVARIANTS
  LoadedIsDeclared
  PublishedIsWhole
  AcceptedIsNamed
SYMMETRY Symmetry
CHECK_DEADLOCK FALSE
