SPECIFICATION FairStakingSpec
CONSTANTS
  Voters = {v1, v2}
  v2 = v2
  Producers = {p1}
  Reward = reward
  VoteAccount = amaxvote
  Other = {amaxvote}
  Admins = {v1}
  Payer = nobody
  Precision = 2
  Funds <- Tokens2
  MaxVotes = 2
  Factor = 1
  VoteInterval = 1
  RefundDelay = 2
  MaxList = 2
  MaxElected = 4
  LegacyVoting = TRUE
INVARIANTS StakesBacked
PROPERTY RefundPaid
