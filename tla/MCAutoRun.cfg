CONSTANTS
  N = 3
  Limit = 2
  Order <- MCOrder
  Cred <- MCCred
  Endpoints = {"shared", "own1", "own2", "own3"}
  Claims <- MCClaims
  Windows = {1, 2}
  Life = 3
  FirstExpiry = {1, 3}
  MaxDay = 2
  MaxEdits = 1
  MaxFaults = 1
SPECIFICATION FairSpec
INVARIANTS
  RefusedOnce
  OthersStillAsked
  OneWriterPerRun
PROPERTIES
  BatchFilled
  NobodyOvertaken
  LatestCallbackWins
  EveryEntryHandled
