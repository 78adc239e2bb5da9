CONSTANTS
  Routers <- MCRouters
  Sessions <- MCSessions
  RouterOf <- MCRouterOf
  Packets <- MCPackets
  Offsets <- MCOffsets
  Tolerance = 1
  DayLength = 2
  MaxTime = 2
  MaxRecords = 2
  MaxFaults = 2
SPECIFICATION FairSpec
INVARIANTS  NothingIsLost
PROPERTIES OnlyRefusalsWait
