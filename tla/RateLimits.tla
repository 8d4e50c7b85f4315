------------------------------ MODULE RateLimits ------------------------------
(***************************************************************************)
(* The arithmetic of a rate limit (contracts/utils/RateLimited.sol, and    *)
(* the same again per address in MultiRateLimited.sol).  A limit stores    *)
(* what its buffer held when it was last used; what the buffer holds now   *)
(* is computed when it is asked for.                                       *)
(***************************************************************************)
EXTENDS Integers

Limit == [stored : Nat, cap : Nat, rate : Nat, last : Nat]

Lesser(m, n) == IF m <= n THEN m ELSE n

(* Faulty: fills up beyond the cap. *)
BufferUncapped(b, now) == b.stored + b.rate * (now - b.last)

Buffer(b, now) == Lesser(b.stored + b.rate * (now - b.last), b.cap)

Updated(b, now) ==
  [stored |-> Buffer(b, now), cap |-> b.cap, rate |-> b.rate, last |-> now]

SetCap(b, now, cap) == [Updated(b, now) EXCEPT !.cap = cap]

(* Faulty: the new rate counts for the seconds gone by, too. *)
SetRateUnaccrued(b, now, rate) == [b EXCEPT !.rate = rate]

SetRate(b, now, rate) == [Updated(b, now) EXCEPT !.rate = rate]

(* Without doPartialAction: an empty buffer refuses even a use of nothing. *)
CanDeplete(b, now, amount) == Buffer(b, now) # 0 /\ amount <= Buffer(b, now)

(* Faulty: the seconds since the last use are paid out again. *)
DepleteKeepsTime(b, now, amount) == [b EXCEPT !.stored = Buffer(b, now) - amount]

Deplete(b, now, amount) == [Updated(b, now) EXCEPT !.stored = @ - amount]

Replenish(b, now, amount) ==
  IF Buffer(b, now) = b.cap THEN b
  ELSE [Updated(b, now) EXCEPT !.stored = Lesser(@ + amount, b.cap)]
=============================================================================
