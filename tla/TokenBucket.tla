----------------------------- MODULE TokenBucket -----------------------------
(***************************************************************************)
(* What a rate limit promises: a bucket that holds no more than its cap,   *)
(* is refilled every second at its rate, and pays for what is spent.       *)
(***************************************************************************)
EXTENDS Integers

VARIABLES level, cap, rate

vars == <<level, cap, rate>>

Lesser(m, n) == IF m <= n THEN m ELSE n

Full == cap \in Nat /\ rate \in Nat /\ level = cap

Spend == level' \in 0 .. level /\ UNCHANGED <<cap, rate>>

Refill == level' = Lesser(level + rate, cap) /\ UNCHANGED <<cap, rate>>

(* New limits never raise the level. *)
Adjust == cap' \in Nat /\ rate' \in Nat /\ level' = Lesser(level, cap')

Replenish == level' \in level .. cap /\ UNCHANGED <<cap, rate>>

(* The bucket is taken away, or a new one given out full. *)
Close == level' = 0 /\ cap' = 0 /\ rate' = 0
Open == level = 0 /\ cap = 0 /\ Full'

Limit == Spend \/ Refill \/ Adjust
Leased == Limit \/ Close \/ Open

Spec == Full /\ [][Limit]_vars
ReplenishedSpec == Full /\ [][Limit \/ Replenish]_vars
=============================================================================
