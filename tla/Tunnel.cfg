SPECIFICATION FairSpec
CONSTANTS
  MsgSizes = {1, 2}
  MaxMsgs = 3
  MaxProduced = 3
  InHWM = 2
  OutHWM = 0
  WsMax = 1
  ReadMax = 2
INVARIANTS
  InboundBounded
  QueueAccounting
  CleanupDrains
  OutboundBounded
PROPERTIES
  UpstreamIsStream
  DownstreamIsStream
  DownstreamComplete
  TornDown
CHECK_DEADLOCK FALSE
