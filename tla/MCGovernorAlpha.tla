--------------------------- MODULE MCGovernorAlpha ---------------------------
(* Two voters who share three votes, of which two make a quorum. *)
EXTENDS GovernorAlpha

CONSTANTS v1, v2, c1

do(kind, arg) == [kind |-> kind, arg |-> arg]

(* The votes start with v1 and may move to v2 and back. *)
MCDistributions ==
  {[v \in Voter |-> IF v = v1 THEN 2 ELSE 1],
   [v \in Voter |-> IF v = v1 THEN 1 ELSE 2]}

OneDistribution == {[v \in Voter |-> IF v = v1 THEN 2 ELSE 1]}

(* For the votes: equal actions in two proposals, and twice in one. *)
VotePayloads ==
  {<<do("call", c1)>>,
   <<do("call", c1), do("call", c1)>>}

(* For the oversight: an action the guardian can also queue, and a delay that *)
(* is out of range.                                                           *)
OversightPayloads ==
  {<<do("setPendingAdmin", v1), do("call", c1)>>,
   <<do("setDelay", 3)>>}

(* Another admin queues what the proposals and the guardian queue, too, and *)
(* may offer the governor its role back.                                    *)
MCOtherActions == {do("call", c1), do("setPendingAdmin", Governor)}
=============================================================================
