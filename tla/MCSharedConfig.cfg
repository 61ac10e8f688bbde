CONSTANTS
  Tasks = {t1}
  Checks = {c1, c2}
  Dialogs = {d1}
  Setups = {s1}
  LockFiles = {f1, f2}
  NoFile = NoFile
  OldFile = TRUE
  MaxDone = 1
  MaxEdits = 1
  MaxFaults = 1
SYMMETRY Symmetry
SPECIFICATION Spec
INVARIANTS
  RunsExclusive
  FileWhole
  StatusMatchesReport
PROPERTY SavesAtomically
