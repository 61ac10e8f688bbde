CONSTANTS
  Tasks = {t1}
  Checks = {}
  Dialogs = {}
  Setups = {s1}
  LockFiles = {f1, f2}
  NoFile = NoFile
  OldFile = FALSE
  MaxDone = 1
  MaxEdits = 2
  MaxFaults = 0
SPECIFICATION Spec
PROPERTY SetupReopens
