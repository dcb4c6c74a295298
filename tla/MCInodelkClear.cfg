SPECIFICATION Spec
CONSTANTS
  Lock = {"whole", "tail", "try"}
  attr <- MCattr
  Client = {"c1", "c2"}
  Owner = {"o1", "o2"}
  Domain = {"d"}
  Thread = {t1, t2}
  ClearLocks = {{"granted"}}
  Revocation = TRUE
  ClearAll = TRUE
  MaxBlocked = 1
INVARIANTS AnsweredOnce NoneStranded
SYMMETRY ThreadSymmetry
CHECK_DEADLOCK FALSE
