SPECIFICATION Spec
CONSTANTS
  alice = alice
  bob = bob
  Names = {1, 2, 3}
  Bidders = {alice, bob}
  OldBids <- MCBids
  OldRefunds <- MCRefunds
  Day = 1
  LaunchDelay = 2
  Producers = {p1, p2}
  MainTotal = 12
  BackupTotal = 6
  Period = 3
  Minute = 1
  ClaimInterval = 3
  Ratios = {1}
  RatioBoost = 2
  Contributions = {1, 2}
  Times = {3}
  Amounts = {1, 3}
  MaxTime = 6
INVARIANTS RewardsConserved WithinTotals HalvedRewardsLast
PROPERTY HighestClosedFirst
CHECK_DEADLOCK FALSE
CONSTRAINT MCApart
SYMMETRY MCSymmetry
ACTION_CONSTRAINT MCSettle
