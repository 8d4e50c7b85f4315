CONSTANTS
  Account = {a1, a2}
  NoAccount = NoAccount
  Holder = a1
  FirstMinter = a2
  InitialSupply = 1
  Max96 = 2
  Amounts = {1}
  Allowances = {}
  MaxBlock = 4
  Signer = {}
  Nonces = {0}
  MaxSigned = 0
SPECIFICATION Spec
INVARIANTS TypeOK PriorVotesCorrect CheckpointsOrdered NoTokenVotesTwice
PROPERTY KeepsLedger
