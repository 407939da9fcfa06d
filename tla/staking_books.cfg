SPECIFICATION StakingSpec
CONSTANTS
  Voters = {v1, v2}
  v2 = v2
  Producers = {p1, p2}
  Reward = reward
  VoteAccount = amaxvote
  Other = {amaxvote}
  Admins = {}
  Payer = p1
  Precision = 4
  Funds <- Tokens3
  MaxVotes = 2
  Factor = 1
  VoteInterval = 0
  RefundDelay = 1
  MaxList = 2
  MaxElected = 10
  LegacyVoting = FALSE
INVARIANTS ContractsAgree ElectedVotesAddUp StakesBacked VotesCanBeTakenBack RewardTypeOK BooksBalance RewardsCovered Solvent ClaimNeverRefused
PROPERTY EarnedByPaymentsOnly
CONSTRAINT OnlyPayerLeaves
