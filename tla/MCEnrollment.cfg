CONSTANTS
  NONE = NONE
  Servers <- MCServers
  Names <- MCNames
  Endpoints <- MCEndpoints
  Wanted <- MCWanted
  MaxFaults = 2
SPECIFICATION FairSpec
INVARIANTS OneIdentity
PROPERTIES StopsOnlyAfterHealthy 
CHECK_DEADLOCK FALSE
