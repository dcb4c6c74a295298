CONSTANTS
  ChildCount = 3
  Client = {c1}
  Shd = {s1, c1}
  Free = free
  MaxFaults = 1
SPECIFICATION FairSpec
INVARIANTS OneHeal NoLeak
PROPERTY EveryoneFinishes
