SPECIFICATION FairSpec
CONSTANTS
  MaxTyped = 2
  MaxLines = 3
  Typed = {"cmd", "bad"}
  Lines = {"PING", "LS sasl", "ACK", "+", "376"}
  Channels = 2
  MayLose = TRUE
INVARIANTS
  ChainSerializes
  CommandsInOrder
  LockReleased
PROPERTY PingsAnswered
