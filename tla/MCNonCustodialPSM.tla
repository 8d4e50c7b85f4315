-------------------------- MODULE MCNonCustodialPSM --------------------------
(* Prices and a fee at which every division rounds; two deposits, which      *)
(* nothing but their balances tells apart.                                   *)
EXTENDS NonCustodialPSM, TLC

Deposits == Permutations(Deposit)
=============================================================================
