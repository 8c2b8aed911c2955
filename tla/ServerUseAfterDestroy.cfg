CONSTANTS
  Threads = {t1, t2}
  Size = 2
  Sockets = {s1}
  Silent = {}
  PageSizes = {3}
  NoSock = NoSock
  Main = Main
  Nobody = Nobody
SPECIFICATION Spec
PROPERTY NoPopAfterDestroy
CHECK_DEADLOCK FALSE
