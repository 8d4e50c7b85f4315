CONSTANTS
  User = {u1}
  Governor = {gov}
  Admin = {adm}
  Guardian = {}
  SCALE_FACTOR = 2
  ACC_TRIBE_PRECISION = 2
  FirstReward = 3
  Funding = 0
  RewardData <- OneLock
  Locks = {0}
  Multipliers = {}
  AllocPoints = {2}
  Rewards = {3}
  Amounts = {1}
  TribeAmounts = {0}
  MaxPools = 2
  MaxDeposits = 1
  MaxBlock = 2
  ScheduledRewards <- OneReward
  rewardsSchedule <- DueAfterFirst
  tribalChiefRewardIndex = 1
SPECIFICATION SyncSpec
INVARIANTS AllocPointsAddUp EmissionKeepsRate DistributorIsFunded
