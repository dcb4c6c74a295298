CONSTANTS
  Cases <- Crowded
  MaxFault = 1
  MaxShort = 1
  FileEnd = 5
  AggregateSize = 2
  PageSize = 2
SPECIFICATION Spec
INVARIANTS ReadSees
CHECK_DEADLOCK FALSE
