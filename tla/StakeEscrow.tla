----------------------------- MODULE StakeEscrow -----------------------------
(***************************************************************************)
(* What a staking pool promises about the tokens themselves: it holds      *)
(* exactly what its users staked, each user gets back only what is theirs, *)
(* and nothing that is still locked.                                       *)
(***************************************************************************)
EXTENDS Integers, Functions

CONSTANT Users

VARIABLES
  held,         \* the tokens the pool holds
  stake,        \* what each user has in it
  free          \* how much of it each user may take now

vars == <<held, stake, free>>

Init == held = 0 /\ stake = [u \in Users |-> 0] /\ free = [u \in Users |-> 0]

Holds == held = SumFunctionOnSet(stake, Users)

Put(u) ==
  /\ stake'[u] > stake[u]
  /\ free'[u] - free[u] \in {0, stake'[u] - stake[u]}
  /\ \A v \in Users \ {u} : stake'[v] = stake[v] /\ free'[v] = free[v]

Take(u) ==
  /\ stake'[u] < stake[u]
  /\ stake[u] - stake'[u] = free[u] - free'[u]
  /\ free'[u] >= 0
  /\ \A v \in Users \ {u} : stake'[v] = stake[v] /\ free'[v] = free[v]

(* Stakes become free as time goes by, and all are locked and unlocked by   *)
(* the owner of the pool.                                                    *)
Unlock == UNCHANGED <<held, stake>> /\ free' \in [Users -> 0 .. held]

Next == Holds' /\ (Unlock \/ \E u \in Users : Put(u) \/ Take(u))

Spec == Init /\ [][Next]_vars
=============================================================================
