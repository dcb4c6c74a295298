CONSTANTS
  Cases <- Mixed
  MaxFault = 1
  MaxShort = 1
  FileEnd = 4
  AggregateSize = 2
  PageSize = 2
SPECIFICATION OrderlySpec
INVARIANTS FlushStores ReadSees NoOverlapInFlight AnsweredOnce HeldWhileUsed 
CHECK_DEADLOCK FALSE
