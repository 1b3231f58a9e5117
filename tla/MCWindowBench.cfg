SPECIFICATION BenchFairSpec
CONSTANTS
  Capacity = 4
  Modulus = 6
  MaxSequence = 6
  Windows = {2, 5}
INVARIANTS
  NoReplyRefused
  HealthyRunPasses
  SuccessMeansExecuted
PROPERTIES
  BenchEnds
