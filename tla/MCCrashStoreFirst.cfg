CONSTANTS
  Order <- MCOrder
  Payloads = {"x", "y"}
  MaxGeneration = 3
SPECIFICATION Spec
INVARIANT FirstCommitRollsBack
