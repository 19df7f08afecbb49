SPECIFICATION MockSpec
CONSTANTS
  Cassettes <- MCCassettes
  StaticFiles <- MCStatic
  Calls <- MCCalls
  SetPaths <- MCSetPaths
  MaxRequests = 3
  MaxUpdates = 2
INVARIANTS StartChecksHold DropTells NoUpdateLost
CHECK_DEADLOCK FALSE
