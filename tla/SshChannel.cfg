CONSTANTS
  SendSizes = {1, 3}
  MaxSent = 4
  LocalMax = 3
  RemoteMax = 2
  Grants = {0, 2}
  MaxGranted = 4
  LocalWindow = 3
  LowWater = 2
  Refill = 2
  DataSizes = {1, 2}
  MaxData = 3
  MaxTransit = 2
  MaxAsides = 1
SPECIFICATION FairSpec
INVARIANTS
  WindowRespected
PROPERTIES
  OutputIsStream
  InputIsStream
  CallsSettle
  CloseShuts
CHECK_DEADLOCK FALSE
