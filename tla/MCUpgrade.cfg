CONSTANTS
  Updaters = {u1, u2}
  Absent = Absent
  Torn = Torn
  Unlisted = Unlisted
  Unsigned = Unsigned
  MaxVersion = 3
  MaxUpdates = 3
  MaxFaults = 4
SPECIFICATION Spec
SYMMETRY Symmetry
INVARIANTS
  OnlyVerified
  Startable
  LastCopyKept
PROPERTIES
  SuccessInstalled
  UpdatesAtomically
