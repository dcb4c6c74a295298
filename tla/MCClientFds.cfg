CONSTANTS
  Fd = {f, g}
  MaxSession = 2
  MaxAttempts = 1
SPECIFICATION HandshakenSpec
INVARIANTS RemoteFdFresh HeldOnce 
 
CHECK_DEADLOCK FALSE
