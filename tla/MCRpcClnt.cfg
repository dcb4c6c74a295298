SPECIFICATION Spec
CONSTANTS
  App = {x}
  Ping = {p}
  Sock = {s1, s2}
  NoSock = NoSock
CHECK_DEADLOCK FALSE
INVARIANTS AnsweredOnce RefCovers NoFreedTimer AnswersBeforeDown ChainAlive
