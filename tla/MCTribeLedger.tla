---------------------------- MODULE MCTribeLedger ----------------------------
(* TRIBE keeps the promise of VoteLedger, with the record read back as a     *)
(* governor reads it, by getPriorVotes.                                      *)
EXTENDS Tribe

Ledger == INSTANCE VoteLedger WITH
  Supply <- Max96,
  votes <- [a \in Account |-> GetCurrentVotes(checkpoints[a])],
  past <- [b \in 1 .. block - 1 |-> [a \in Account |-> GetPriorVotes(a, b)]]

(* Tribe.sol:249-396.  Transfers, mints and delegations move current votes   *)
(* only; a block that ends records them for ever.                            *)
KeepsLedger == Ledger!Spec
=============================================================================
