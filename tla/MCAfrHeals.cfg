CONSTANTS
  c1 = c1  c2 = c2  w1 = w1
  ChildCount = 2
  QuorumCount = 2147483647
  Client = {c1}
  Shd = {shd}
  Write = {w1}
  Writer <- OneWriter
  MaxFaults = 2
  Free = free
SPECIFICATION FairSpec
PROPERTY HealDrains
CHECK_DEADLOCK FALSE
