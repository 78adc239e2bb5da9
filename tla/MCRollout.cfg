CONSTANTS
  Workers = {"worker"}
  Schedulers = {"main-beat", "beat", "beat2"}
  Local = {"main-beat"}
  Fresh = 1
  Drain = 2
  MaxFaults = 2
  NONE = NONE
SPECIFICATION FairSpec
INVARIANTS  AstrayIsShort
PROPERTIES LeaderReturns
