SPECIFICATION FairSpec
CONSTANTS
  MaxDuration = 3
  Users = {u1, u2, u3}
  Scenarios <- UpAndDown
  BucketS = 2
  SpareThreads = 0
  MinThreads = 1
  ThinkTime = TRUE
  MaxCancels = 2
  MaxRecords = 2
  MaxTime = 4
  u1 = u1
  u2 = u2
  u3 = u3
INVARIANT NoRecordLost BucketsCloseOnce NothingRunsAfterwards TimelineFollowsPhases
PROPERTY FinalIsFinal TaskEnds CancelledJobSaysSo
CHECK_DEADLOCK FALSE
