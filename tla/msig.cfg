SPECIFICATION Spec
CONSTANTS
  a = a
  b = b
  c = c
  delayed = delayed
  prompt = prompt
  Names = {1}
  Levels <- MCLevels
  Transactions = {delayed, prompt}
  Enough <- MCEnough
  Delay <- MCDelay
  Expiration <- MCExpiration
  NoProposal = NoProposal
  NoHash = NoHash
  MaxTime = 4
  MaxSent = 1
INVARIANTS  DelayServed
CONSTRAINT FewSent
SYMMETRY MCSymmetry
