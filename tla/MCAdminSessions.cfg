SPECIFICATION AdminSpec
CONSTANTS
  Browser = {b1}
  User = {u1, u2}
  Alert = {a1}
  Token = {t1, t2}
  MaxTimeouts = 1
  MaxAcks = 2
  None = None
INVARIANTS
  AdminTypeOK
  DroppedStaysDead
PROPERTIES
  SettledIsFinal
  StalePageLeaves
CHECK_DEADLOCK FALSE
