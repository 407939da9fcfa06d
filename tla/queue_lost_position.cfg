SPECIFICATION Spec
CONSTANTS
  Producers = {1, 2, 3, 4, 5, 6}
  InitialVotes <- ThirdMissing
  MainCount = 2
  MinBackup = 3
  MaxBackups = {3, 4}
  MinVotes = {1, 2}
  Keys = {k1}
  k2 = k2
  k1 = k1
  NoKey = NoKey
  MaxVotes = 1
  MaxList = 1
CONSTRAINT OnlyThirdLeaves
INVARIANTS TailPositionsFound
