CONSTANTS
  c1 = c1  c2 = c2  w1 = w1
  ChildCount = 2
  QuorumCount = 2147483647
  Client = {c1}
  Shd = {shd}
  Write = {w1, w2}
  Writer <- OneWriter
  MaxFaults = 3
  Free = free
SPECIFICATION EnvSpec
INVARIANTS CountsNonNegative SourcesHaveAcked AckedSurvives CleanIsEqual
CHECK_DEADLOCK FALSE
