CONSTANTS
  Routers <- MCRouters
  Sessions <- MCSessions
  RouterOf <- MCRouterOf
  Packets <- MCPackets
  Offsets <- MCOffsets
  Tolerance = 0
  DayLength = 2
  MaxTime = 2
  MaxRecords = 1
  MaxFaults = 1
  KeepLatest = 1
  DailyDays = 2
  MaxPaid = 1
SPECIFICATION BackupSpec
INVARIANTS RestoreLosesNothing ArchiveVerifies RecoveryPoints
