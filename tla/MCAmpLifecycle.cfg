SPECIFICATION FairSpec
CONSTANTS
  Priority = {0, 1}
  RingCapacity = 2
  WORD = 3
  ImageSize = 1
  MaxOpen = 1
  Builds <- ProductAndHostile
INVARIANTS
  ActiveMeansPeerReady
  StopReadyIsGenuine
  RearmNotBlocked
  WatchdogsLive
PROPERTIES
  ImplementsSession
  PhaseResolves
  OffIsNoticed
