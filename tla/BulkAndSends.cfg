SPECIFICATION BulkSpec
CONSTANTS
  r1 = r1
  r2 = r2
  NoRun = NoRun
  Requests = {r1, r2}
  Runs <- AllRuns
  Definitions <- Four
  HasDB = TRUE
  Asks <- ManyAsks
  JobTests = {1}
INVARIANTS SendsKeepLimits StatisticsAddUp 
PROPERTY RequestsConclude
CHECK_DEADLOCK FALSE
