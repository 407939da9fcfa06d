SPECIFICATION XTokenSpec
CONSTANTS
  issuer = issuer
  a = a
  b = b
  Accounts = {issuer, a, b}
  Issuer = issuer
  MaxSupply = 5
  RatioBoost = 5
  Ratios = {0, 1, 4}
  MinFees = {1, 2}
  Amounts = {1, 3, 4}
  NoAccount = NoAccount
  NoRow = NoRow
INVARIANT FeesConserve
PROPERTY StoppedAccountsKeep
SYMMETRY MCSymmetry
