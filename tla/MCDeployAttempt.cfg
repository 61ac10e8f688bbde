CONSTANTS
  Sites = {a, b, c}
  Movable = {c}
  MaxSerial = 2
  MaxDeployAttempts = 2
  UnchangedLimit = 2
  MaxFaults = 1
SPECIFICATION FairSpec
INVARIANTS
  RetryKeepsQuota
  AttemptsBounded
  FailedSiteRemembered
  HealthyServeAdopted
  ReportedOnce
  SameCertBounded
PROPERTIES
  RoundsAccountedFor
  PartialSettles
