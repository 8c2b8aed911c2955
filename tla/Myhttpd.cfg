CONSTANTS
  Threads = {t1, t2}
  Size = 2
  Sockets = {s1, s2}
  Silent = {s2}
  PageSizes = {3}
  NoSock = NoSock
  Main = Main
  Nobody = Nobody
  MaxCommands = 2
SPECIFICATION MyhttpdFairSpec
INVARIANTS MyhttpdTypeOK ReportsGrow ShutdownOrder
PROPERTIES ShutdownEnds CommandsAnswered Served
CHECK_DEADLOCK FALSE
