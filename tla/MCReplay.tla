------------------------------ MODULE MCReplay -------------------------------
(* The executed proposals, in one order in which they can be executed. *)
EXTENDS Replay, History

MCUpgrades == Proposals
MCGenesis == ChainAtFirst
MCMeanwhile == BetweenProposals
MCNames == NamesAtFirst

\* What the proofs ask of the upgrades
ASSUME HandoverAssumption == \E h \in DOMAIN Upgrades : HandsOver(h)
ASSUME OrderAssumption == OrderlyUpgrades
=============================================================================
