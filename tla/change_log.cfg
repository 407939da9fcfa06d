SPECIFICATION FairSpec
CONSTANTS
  Producers = {1, 2, 3}
  k1 = k1
  k2 = k2
  Keys = {k1, k2}
  NoKey = NoKey
  Schedules <- MCSchedules
  MaxFlushRows = 2
  MinFlushChanges = 4
  MaxSequence = 2
  MaxChangeId = 3
INVARIANTS LogOrdered LogAddsUp FlushNeverAborts
PROPERTIES IsScheduleFeed RowsLeaveLog
