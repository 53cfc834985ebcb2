SPECIFICATION Spec
CONSTANTS
  Eval = {e1, e2}
  MaxCleans = 2
SYMMETRY Symmetry
INVARIANTS
  TypeOK
  OneShot
  PassIsWhole
  PredictsPinned
  OneSwapIsNoticed
PROPERTIES
  PassIsFrozenFirst
CHECK_DEADLOCK FALSE
