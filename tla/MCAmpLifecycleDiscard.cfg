SPECIFICATION Spec
CONSTANTS
  Priority = {0}
  RingCapacity = 2
  WORD = 3
  ImageSize = 1
  MaxOpen = 1
  Builds <- ProductOnly
PROPERTIES
  BusinessNeverDiscarded
