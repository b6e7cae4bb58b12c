\* The user types against a window the server opens little by little, while
\* the server uses the local window to the end; the event loop is fair.
CONSTANTS
  MsgSizes = {1, 3}
  MaxTyped = 4
  QueueMax = 3
  Grants = {0, 1, 3}
  MaxGranted = 4
  MaxPkt = 2
  LocalWindow = 3
  LowWater = 2
  Refill = 3
  DataSizes = {1, 2}
  MaxData = 4
  MaxTransit = 2
  MaxResizes = 1
SPECIFICATION FairSpec
INVARIANTS
  WindowRespected
  WindowExact
  NoLostWakeup
  DataAfterClose
  LocalWindowServed
PROPERTIES
  InputIsStream
  InputFlows
  SessionEnds
CHECK_DEADLOCK FALSE
