CONSTANTS
  SessionIds = {"s1"}
  StateHashes = {"a1", "a2", "b1", "c1", "d1", "x2"}
  Creds = {1, 2, 3, 4, 5, 6, 7}
  Merchants = {"m1", "m2"}
  Transition <- MCTransition
  Credential <- MCCredential
  Supply = 6
  U64Max = 20
  Amounts = {2, 6}
  MaxSessionDuration = 1
  ClaimGracePeriod = 1
  MaxBranchDepth = 2
  MaxTime = 4
SPECIFICATION ReadyFairSpec
INVARIANTS
  ClaimListSorted
  RepresentativeIsSmallest
  ExposureExact
  ForkExact
  ClassificationExact
  FrozenCountersFinal
  AllocationExact
  PaymentsExact
  ReconciliationMirrorsChain
  LocalWarningsConfirmed
PROPERTIES
  AllocationIsFinal
  SessionsClose
  ClaimsResolve
CHECK_DEADLOCK FALSE
