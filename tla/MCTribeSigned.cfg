CONSTANTS
  Account = {a1, a2}
  NoAccount = NoAccount
  Holder = a1
  FirstMinter = a1
  InitialSupply = 2
  Max96 = 2
  Amounts = {1}
  Allowances = {1}
  MaxBlock = 2
  Signer = {a1}
  Nonces = {0}
  MaxSigned = 2
SPECIFICATION Spec
INVARIANTS SignatureUsedOnce VotesAreDelegatedBalances
