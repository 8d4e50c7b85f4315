------------------------------ MODULE MCTimelock ------------------------------
(* A small timelock: two admins in turn, one of them a guardian, the other a *)
(* governor; payloads that reach every kind of action and one batch of two.  *)
EXTENDS Timelock

CONSTANTS dao, guardian, c1

do(kind, arg) == [kind |-> kind, arg |-> arg]

(* A batch that offers the role of admin and then pauses, and another delay. *)
MCPayloads ==
  {<<do("setPendingAdmin", guardian), do("pause", NoAccount)>>,
   <<do("setDelay", 2)>>}
=============================================================================
