SPECIFICATION FairSpec
CONSTANTS
  Lock = {"whole", "nested", "shared"}
  attr <- MCattr
  Client = {"c1", "c2"}
  Owner = {"o1", "o2"}
  Domain = {"d"}
  Thread = {t1, t2}
  ClearLocks = {}
  Revocation = FALSE
  ClearAll = FALSE
  MaxBlocked = 0
INVARIANTS
  TypeOK
  Exclusive
  RefExact
  DestroyedHoldsNothing
  CursorLive
PROPERTIES
  NestedNotBlocked
  ImplementsService
  Answered
CHECK_DEADLOCK FALSE
