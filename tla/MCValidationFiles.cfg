CONSTANTS
  N = 2
  Sites = {1, 2}
  Roots <- MCRoots
  Contents = {x, y}
  None = None
  Admin = Admin
  MaxOrders = 2
  MaxEdits = 1
  MaxFaults = 1
SPECIFICATION FairSpec
INVARIANTS
  NoTokenAstray
PROPERTIES
  ForeignFilesKept
  PlacedEverywhere
  StalledTokensGo
