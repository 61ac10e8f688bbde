CONSTANTS
  Tasks = {t1}
  Checks = {c1}
  Dialogs = {}
  Setups = {}
  LockFiles = {f1, f2}
  NoFile = NoFile
  OldFile = FALSE
  MaxDone = 1
  MaxEdits = 0
  MaxFaults = 0
SPECIFICATION Spec
PROPERTY RecordKept
