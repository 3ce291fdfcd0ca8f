\* Two people, two proposals, an atomic or a partial plan of two actions.
SPECIFICATION FairGovernanceSpec
CONSTANTS
  mia = mia
  ned = ned
  shares = shares
  tok = tok
  orc = orc
  NoToken = NoToken
  Person = {mia, ned}
  FirstMembers = {mia}
  FirstAdmin = ned
  Admins = {mia}
  CreditTokens = {tok}
  Oracles = {orc}
  FirstObeying = {tok}
  VotingTokens = {shares}
  FirstHoldings <- Shares
  TransferAmounts = {1}
  MaxWeight = 1
  FirstConfig <- Strict
  Configs <- Changes
  ShortestVote = 1
  LongestVote = 1
  LongestTimelock = 1
  MostActive = 2
  ActionLists <- Plans
  MaxProposals = 2
  MaxCalls = 2
  MaxTime = 3
INVARIANTS
  SlotsAreOpenProposals
  NothingPassesUnsupported
PROPERTIES
  ExecutionIsReported
  ImplementsProposalLife
  EveryVoteEnds
CHECK_DEADLOCK FALSE
