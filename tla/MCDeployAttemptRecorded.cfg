CONSTANTS
  Sites = {a, b}
  Movable = {}
  MaxSerial = 2
  MaxDeployAttempts = 2
  UnchangedLimit = 2
  MaxFaults = 0
SPECIFICATION Spec
INVARIANT HealthyServeRecorded
