SPECIFICATION Spec
CONSTANTS
  Capacity = 2
  Modulus = 16
  MaxSequence = 3
  Agent = {a1, a2}
  Call <- MCCalls
  Setups <- MCSetups
INVARIANTS
  AcceptedIsGenuine
  AcceptedIsOwn
  ClassTellsEffect
SYMMETRY MCSymmetry
