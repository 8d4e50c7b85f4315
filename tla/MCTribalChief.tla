---------------------------- MODULE MCTribalChief ----------------------------
(* A scale of 2, so that a multiplier of 3 is 1.5 and odd amounts round. *)
EXTENDS TribalChief, TLC

(* Lock-ups of no block and of one, the second with a bonus *)
OneBonus == {[lock \in Locks |-> 2 + lock]}

Users == Permutations(User)
=============================================================================
