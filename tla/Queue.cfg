CONSTANTS
  Size = 4
  Sockets = {s1, s2, s3}
  NoSock = NoSock
SPECIFICATION QueueSpec
INVARIANT QueueTypeOK
PROPERTY ImplementsFifo
