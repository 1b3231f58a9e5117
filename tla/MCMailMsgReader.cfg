SPECIFICATION ReaderFairSpec
CONSTANTS
  File = {f1, f2, f3}
  NonBlock = {f3}
  RingCapacity = 2
INVARIANTS
  NobodySleepsOnWork
  OneReader
PROPERTIES
  SleeperWakes
  OfflineCallReturns
