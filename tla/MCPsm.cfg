CONSTANTS
  Account = {psm, boss}
  Governor = {}
  Admin = {boss}
  Guardian = {boss}
  RoleAdmin = {boss}
  Minter = {psm, boss}
  MaxRate = 1
  FirstRate = 1
  FirstCap = 4
  FirstMaxRate = 1
  FirstMaxCap = 3
  Modulus112 = 8
  Caps = {2}
  Rates = {1}
  Amounts = {2}
  MaxTime = 2
  Psm = psm
  PsmAdmin = {boss}
  ParameterAdmin = {boss}
  PCVController = {boss}
  Deposit = {d1, d2}
  BASE = 2
  Granularity = 4
  MaxFee = 1
  Fees = {1, 2}
  Prices = {2, 5}
  PsmMaxRate = 1
  PsmRate = 1
  PsmCap = 2
  Sizes = {2}
  Wealth = 2
SYMMETRY Deposits
SPECIFICATION Spec
PROPERTIES TradesNeverLose FeiComesFromBuffer SalesAreBucket SalesFollowPurchases
