CONSTANTS
  Account = {m1, m2, boss}
  Governor = {boss}
  Admin = {}
  Guardian = {}
  RoleAdmin = {boss}
  Minter = {m1, m2}
  MaxRate = 1
  FirstRate = 0
  FirstCap = 2
  FirstMaxRate = 1
  FirstMaxCap = 1
  Modulus112 = 3
  Caps = {1, 3}
  Rates = {1}
  Amounts = {1}
  MaxTime = 3
SPECIFICATION Spec
INVARIANTS TypeOK GlobalLimitHolds IndividualLimitHolds
PROPERTIES GlobalIsBucket IndividualsAreBuckets
