SPECIFICATION FairSpec
CONSTANTS
  Priority = {0}
  RingCapacity = 2
  QUOTA = 2
  Faults = {}
PROPERTIES
  FallbackScanning
