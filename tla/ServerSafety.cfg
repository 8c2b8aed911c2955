CONSTANTS
  Threads = {t1, t2, t3}
  Size = 3
  Sockets = {s1, s2, s3}
  Silent = {s3}
  PageSizes = {3}
  NoSock = NoSock
  Main = Main
  Nobody = Nobody
SPECIFICATION Spec
SYMMETRY Symmetry
INVARIANTS TypeOK LockDiscipline SocketsConserved NoLostWakeup AcceptorWakeup StatsAccounted
PROPERTY ImplementsService
CHECK_DEADLOCK FALSE
