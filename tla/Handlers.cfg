\* Every handler, under every choice of the peer, the network and the timers.
CONSTANTS
  Program <- MCProgram
  Excuses <- MCExcuses
  MaxTasks = 6
  MaxStrays = 1
  MaxMessages = 3
SPECIFICATION Spec
INVARIANTS
  TypeOK
  SocketsClosed
  ReadsInOrder
  PeerWaitsTimed
  LocksRespected
CHECK_DEADLOCK FALSE
