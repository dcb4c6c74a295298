SPECIFICATION FairSpec
CONSTANTS
  App = {x}
  Ping = {p}
  Sock = {s1}
  NoSock = NoSock
CHECK_DEADLOCK FALSE
PROPERTIES Answered SilenceNoticed
