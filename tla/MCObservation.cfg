SPECIFICATION ObservationSpec
CONSTANTS
  Fields = {"wake_count", "drain_count"}
  MaxUpdates = 3
INVARIANT
  StableSnapshot
