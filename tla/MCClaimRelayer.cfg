CONSTANTS
  SessionIds = {"s1"}
  StateHashes = {"a1", "a2"}
  Creds = {1, 2, 3}
  Merchants = {"m1", "m2"}
  Transition <- MCTransition
  Credential <- MCCredential
  Supply = 6
  U64Max = 20
  Amounts = {}
  MaxSessionDuration = 1
  ClaimGracePeriod = 1
  MaxBranchDepth = 2
  MaxTime = 1
  Relayed = {2}
  Requests = {"r1", "r2"}
  MaxConcurrent = 1
  RateLimit = 1
  MaxFaults = 1
SPECIFICATION ReadyFairSpec
INVARIANTS
  RelayTypeOK
  AnswersAreTrue
  PlanFitsProgram
PROPERTIES
  ClaimsLand
CHECK_DEADLOCK FALSE
