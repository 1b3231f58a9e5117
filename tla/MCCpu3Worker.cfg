SPECIFICATION FairSpec
CONSTANTS
  Priority = {0, 1}
  RingCapacity = 2
  QUOTA = 2
  Faults = {1}
INVARIANTS
  NoLostWakeup
PROPERTIES
  EveryDoorbellIsServed
