SPECIFICATION Spec
CONSTANTS
  admin = admin
  miner = miner
  fund = fund
  oooo = oooo
  one = one
  two = two
  ido = ido
  Accounts = {admin, miner, fund, oooo, one, two, ido}
  FirstIssuer = admin
  Admin = admin
  Miners = {miner}
  One = one
  Two = two
  Ido = ido
  Hole = oooo
  Reserved = fund
  System = admin
  Degov = {oooo}
  Listable = {miner}
  Openers = {miner}
  MaxSupply = 3
  Amounts = {1, 2}
  NoRow = NoRow
  NoConf = NoConf
  SwapAmounts = {1, 2}
  AdsAmount = 2
  Remains = {1, 3}
  Swap <- MCSwap
  SwapAds <- MCSwapAds
  Rewards <- MCRewards
  Prices = {2, 4}
  PriceUnit = 3
  MinBuy = 1
  MaxOrders = 2
INVARIANT SupplyHeld
PROPERTY PaidAgainstRemained
CONSTRAINT Apart
