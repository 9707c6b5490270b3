CONSTANTS
  SessionIds = {"s1", "s2"}
  StateHashes = {"a1", "b1", "z1"}
  Creds = {1, 2, 3, 4}
  Merchants = {"m1", "m2"}
  Transition <- MCTransition
  Credential <- MCCredential
  Supply = 5
  U64Max = 5
  Amounts = {1, 3}
  MaxSessionDuration = 1
  ClaimGracePeriod = 1
  MaxBranchDepth = 2
  MaxTime = 7
SPECIFICATION Spec
INVARIANTS
  TypeOK
  OneActiveSession
  LiabilityBacked
  ReserveExact
  SuccessesExact
CHECK_DEADLOCK FALSE
