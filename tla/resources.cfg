SPECIFICATION Spec
CONSTANTS
  a = a
  b = b
  Accounts = {a, b}
  Unlimited = {b}
  Blacklisted = {}
  Stake = stake
  RamAccount = ramacc
  FeeAccount = feeacc
  Funds <- MCFunds
  InitialQuote = 4
  InitialSize = 12
  RamSizes = {12, 16}
  RamRates = {0, 3}
  GiftBytes = 1
  FeeParts = 3
  RefundDelay = 1
  Amounts = {0, 1}
  Quants = {4}
  Bytes = {5}
  Limits = {3}
  Unmanaged = Unmanaged
  MaxElapsed = 1
INVARIANTS StakesAddUp StakesCovered LimitsFollowTotals RamConserved RamStakeSuffices
CONSTRAINT MCBound
CHECK_DEADLOCK FALSE
