CONSTANTS
  User = {u1, u2}
  Governor = {}
  Admin = {adm}
  Guardian = {}
  SCALE_FACTOR = 2
  ACC_TRIBE_PRECISION = 2
  FirstReward = 2
  Funding = 6
  RewardData <- OneBonus
  Locks = {0, 1}
  Multipliers = {}
  AllocPoints = {1}
  Rewards = {}
  Amounts = {1, 2}
  TribeAmounts = {}
  MaxPools = 1
  MaxDeposits = 2
  MaxBlock = 4
SYMMETRY Users
SPECIFICATION Spec
INVARIANT DebtIsCovered
