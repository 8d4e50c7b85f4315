------------------------------ MODULE VoteLedger ------------------------------
(***************************************************************************)
(* What a governor relies on in the governance token: the votes of an      *)
(* account in the current block may change at will, within the supply, but *)
(* the votes it had at the end of a finished block are a fixed record.     *)
(***************************************************************************)
EXTENDS Integers, Sequences, Functions

CONSTANTS
  Account,
  Supply            \* no more votes than this exist

VARIABLES
  block,
  votes,            \* the votes of each account now
  past              \* past[b]: the votes of each account when block b ended

vars == <<block, votes, past>>

Init ==
  /\ block = 1
  /\ votes \in [Account -> 0 .. Supply]
  /\ SumFunction(votes) <= Supply
  /\ past = <<>>

MoveVotes ==
  /\ votes' \in [Account -> 0 .. Supply]
  /\ SumFunction(votes') <= Supply
  /\ UNCHANGED <<block, past>>

FinishBlock ==
  /\ block' = block + 1
  /\ past' = Append(past, votes)
  /\ UNCHANGED votes

Next == MoveVotes \/ FinishBlock

Spec == Init /\ [][Next]_vars
=============================================================================
