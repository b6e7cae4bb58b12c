\* handleTcpSend by itself: a path on which its socket is not closed.
CONSTANTS
  Program <- TcpProgram
  Excuses <- NoExcuses
  MaxTasks = 6
  MaxStrays = 1
  MaxMessages = 3
SPECIFICATION Spec
INVARIANT SocketsClosed
CHECK_DEADLOCK FALSE
