CONSTANTS
  k1 = k1
  k2 = k2
  f0 = f0
  f1 = f1
  OwnKeys = {k1, k2}
  OtherKeys = {f0, f1}
  ApiKeys = {f1}
  FirstKey = f0
  NoKey = NoKey
  MaxIssueRetries = 2
  MaxFaults = 1
SYMMETRY OwnKeySymmetry
SPECIFICATION Spec
INVARIANTS
  AcceptedKeyRecoverable
  SubmitStartsClean
PROPERTIES
  IssuedIsDeployedFirst
  ClosedIsFinal
  KeepsLifeCycle
