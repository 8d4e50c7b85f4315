---------------------------- MODULE MCChiefSync ----------------------------
(* One step of the schedule, due after the first block. *)
EXTENDS ChiefSync

OneLock == {[lock \in Locks |-> 2]}
OneReward == <<2>>
DueAfterFirst == [reward \in {2} |-> 1]
=============================================================================
