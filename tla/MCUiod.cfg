SPECIFICATION Spec
CONSTANTS
  UScenes <- MCUScenes
  NumPackets = 5
  SScenes <- MCSScenes
  Addrs = {20, 22, 23, 31}
  HalfZero = {20}
  Macs = {1, 2, 3}
  TabSize = 2
  MaxAge = 2
  TimeRange = 4
  MaxRx = 3
  MaxRetry = 2
  MaxWaits = 2
  MaxDiscover = 2
  MaxRequest = 1
  MaxSol = 2
  MaxDhcp6 = 2
  MaxAddr6 = 3
  MaxNeigh = 2
INVARIANTS DeviceAccounted AnswersTrue ArpFresh
PROPERTIES Settles
CHECK_DEADLOCK FALSE
