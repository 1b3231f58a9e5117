SPECIFICATION MCSpec
CONSTANTS
  SLOTS = 3
  Payload = {a}
  Garbled = Garbled
  NoCrc = NoCrc
  MaxSend = 5
  Fields = {"wake_count", "drain_count"}
  MaxUpdates = 3
INVARIANTS
  DeliveredInOrder
  NeverIncomplete
  CountsUnreleased
  SnapshotIsRecent
  QuietReadIsExact
PROPERTY
  ImplementsFifo
