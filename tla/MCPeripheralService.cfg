SPECIFICATION FairSpec
CONSTANTS
  Request <- MCRequests
  Left = {{}, {25}}
  MaxRequests = 3
  UartDepth = 1
  Foreign <- MCForeign
  Contents <- MCContents
INVARIANTS
  RepliesAreFresh
  SpiBytesInStep
  BusesReleased
  PwmOutputIsAPair
  DrivenAsRequested
  LinuxBitsKept
  BringUpInOrder
  BootedClean
PROPERTIES
  EveryRequestEnds
