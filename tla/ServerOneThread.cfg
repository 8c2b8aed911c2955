CONSTANTS
  Threads = {t1}
  Size = 1
  Sockets = {s1}
  Silent = {}
  PageSizes = {3}
  NoSock = NoSock
  Main = Main
  Nobody = Nobody
SPECIFICATION FairSpec
PROPERTY Served
CHECK_DEADLOCK FALSE
