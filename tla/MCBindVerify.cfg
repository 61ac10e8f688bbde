CONSTANTS
  s = s
  m = m
  n = n
  Callers = {p, q}
  Certs = {s, m, n}
  HomeStore <- MCHomeStore
  Params = {known, other}
  Writable = {known}
  ReadsStore = FALSE
  MaxTasks = 3
  MaxMisreads = 1
  NoBinding = NoBinding
  Unknown = Unknown
SPECIFICATION Spec
SYMMETRY Symmetry
CHECK_DEADLOCK FALSE
INVARIANTS
  SurvivesOneFault
  SettingsKept
  LossReported
PROPERTIES
  KeepsPromise
