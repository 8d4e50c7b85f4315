CONSTANTS
  v1 = v1
  v2 = v2
  c1 = c1
  Voter = {v1}
  Governor = governor
  Guardian = v2
  NoAccount = NoAccount
  Overseer = {v2}
  CoreGovernor = {v2}
  QuorumVotes = 2
  ProposalThreshold = 1
  VotingDelay = 1
  VotingPeriod = 1
  MinDelay = 1
  MaxDelay = 1
  FirstDelay = 1
  GracePeriod = 1
  Call = {c1}
  Payloads <- OversightPayloads
  Supply = 3
  Distributions <- OneDistribution
  Heirs = {v1}
  OtherActions <- MCOtherActions
  LastMove = 0
  MaxProposals = 1
  MaxUndecided = 1
  MaxBlock = 7
  BlockTimes = {1, 2}
SPECIFICATION Spec
INVARIANT OnlyPassedProposalsAct
PROPERTY KeepsLifecycle
