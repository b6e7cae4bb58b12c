SPECIFICATION Spec
CONSTANTS
  MsgSizes = {1}
  MaxMsgs = 2
  MaxProduced = 1
  InHWM = 2
  OutHWM = 0
  WsMax = 1
  ReadMax = 1
INVARIANTS
  DrainBeforeClose
CHECK_DEADLOCK FALSE
