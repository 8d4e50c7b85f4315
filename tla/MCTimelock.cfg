CONSTANTS
  dao = dao
  guardian = guardian
  c1 = c1
  Account = {dao, guardian}
  NoAccount = NoAccount
  FirstAdmin = dao
  Overseer = {guardian}
  CoreGovernor = {guardian}
  Dao = dao
  MinDelay = 1
  MaxDelay = 2
  FirstDelay = 1
  GracePeriod = 1
  RollbackDeadline = 1
  Call = {c1}
  Payloads <- MCPayloads
  Etas = {1, 3}
  MaxTime = 3
SPECIFICATION Spec
INVARIANTS ExecutedOnce ConfigWaitedOut
PROPERTIES DelayRespected PausedIsInert
