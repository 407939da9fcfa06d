SPECIFICATION LateSpec
CONSTANTS
  Producers = {1, 2, 3, 4, 5, 6, 7}
  InitialVotes <- SecondMissing
  MainCount = 2
  MinBackup = 3
  MaxBackups = {4}
  MinVotes = {1, 2}
  Keys = {k1, k2}
  k1 = k1
  k2 = k2
  NoKey = NoKey
  MaxVotes = 2
  MaxList = 1
INVARIANTS QueueRows ScheduleMembersAreTop VotesNeverRefused ScheduleConsistent
