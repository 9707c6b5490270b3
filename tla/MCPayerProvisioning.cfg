CONSTANTS
  Devices = {"d1", "d2"}
  MaxSessions = 3
  MaxFaults = 2
CHECK_DEADLOCK FALSE
SPECIFICATION FairSpec
INVARIANTS
  ProvisioningTypeOK
  OfflineReadyIsBacked
  OneOpenSession
PROPERTY
  PayerReturns
