CONSTANTS
  Requests = {"r1", "r2", "x", "o"}
  Foreign = {"x"}
  Own = {"o"}
  Amount <- MCAmount
  Limit = 3
  MaxDepth = 2
  ChunkUnits = 2
  MaxFrames = 2
  MaxPending = 2
SPECIFICATION Spec
INVARIANT
  StoredProofReadable
