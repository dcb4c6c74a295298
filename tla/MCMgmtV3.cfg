\* A snapshot on one glusterd against a volume command on another
SPECIFICATION FairSpec
CONSTANTS
  Node = {"a", "b"}
  Key = {"v", "s"}
  VolKey = {"v"}
  Txn = {"t1", "t2"}
  MaxFault = 1
  NoNode = NoNode
  NoTxn = NoTxn
  origin <- MCorigin
  flow <- MCflow
  keys <- MCkeys
  
PROPERTIES CommitUnderLock EveryoneAnswered
CHECK_DEADLOCK FALSE
