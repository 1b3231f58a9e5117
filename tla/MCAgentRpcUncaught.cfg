SPECIFICATION Spec
CONSTANTS
  Capacity = 7
  Modulus = 16
  MaxSequence = 3
  Agent = {a1}
  Call <- MCIncrements
  Setups <- MCSetups
INVARIANTS
  FailuresAreReported
