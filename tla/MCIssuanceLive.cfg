CONSTANTS
  k1 = k1
  k2 = k2
  f0 = f0
  OwnKeys = {k1, k2}
  OtherKeys = {f0}
  ApiKeys = {}
  FirstKey = f0
  NoKey = NoKey
  MaxIssueRetries = 1
  MaxFaults = 1
SPECIFICATION FairSpec
INVARIANT AttemptsBounded
PROPERTIES
  AcceptedIsSettled
  CleanupCompletes
