CONSTANTS
  v1 = v1
  v2 = v2
  c1 = c1
  Voter = {v1, v2}
  Governor = governor
  Guardian = v2
  NoAccount = NoAccount
  Overseer = {v2}
  CoreGovernor = {}
  QuorumVotes = 2
  ProposalThreshold = 1
  VotingDelay = 1
  VotingPeriod = 1
  MinDelay = 1
  MaxDelay = 2
  FirstDelay = 1
  GracePeriod = 1
  Call = {c1}
  Payloads <- VotePayloads
  Supply = 3
  Distributions <- MCDistributions
  Heirs = {}
  OtherActions <- MCOtherActions
  LastMove = 4
  MaxProposals = 2
  MaxUndecided = 0
  MaxBlock = 7
  BlockTimes = {1}
SPECIFICATION Spec
INVARIANTS TallyIsSnapshot OneLiveProposal QueuedIsBacked
