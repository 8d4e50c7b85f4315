--------------------------- MODULE NonCustodialPSM ---------------------------
(***************************************************************************)
(* The peg stability module (contracts/peg/NonCustodialPSM.sol): anybody   *)
(* buys FEI with the underlying token and sells it back at the oracle      *)
(* price less a fee.  Bought FEI comes from what the module holds and then *)
(* from the GlobalRateLimitedMinter; the underlying is kept by a PCV       *)
(* deposit.  Sales use up a rate limit of the module, purchases refill it. *)
(*                                                                         *)
(* Calls that revert in the oracle, the deposit or FEI, or because the     *)
(* price is worse than the caller asked for, are calls that are not made.  *)
(***************************************************************************)
EXTENDS RateLimits

CONSTANTS
  Account, Governor, Admin, Guardian, RoleAdmin, Minter, MaxRate,
  FirstRate, FirstCap, FirstMaxRate, FirstMaxCap, Modulus112,
  Caps, Rates, Amounts, MaxTime,
  Psm,              \* the address of this contract, one of Minter
  PsmAdmin, ParameterAdmin, PCVController,
  Deposit,          \* the PCV deposits it may use
  BASE,             \* one, as a Decimal
  Granularity,      \* BASIS_POINTS_GRANULARITY
  MaxFee,           \* MAX_FEE
  Fees, Prices,
  PsmMaxRate, PsmRate, PsmCap,
  Sizes,            \* the amounts that are traded
  Wealth            \* the underlying that buyers have at first

ASSUME PsmAssumption ==
  /\ Psm \in Minter /\ Deposit # {}
  /\ BASE \in Nat \ {0} /\ Granularity \in Nat \ {0} /\ MaxFee \in 0 .. Granularity
  /\ Fees \subseteq Nat /\ Prices \subseteq Nat \ {0}
  /\ PsmMaxRate \in Nat /\ PsmRate \in 0 .. PsmMaxRate /\ PsmCap \in Nat
  /\ Sizes \subseteq Nat /\ Wealth \in Nat
  /\ FirstRate \in Nat /\ FirstCap \in Nat
  /\ Caps \subseteq Nat /\ Rates \subseteq Nat /\ Amounts \subseteq Nat

VARIABLES
  now, global, individual, individualMaxRateLimitPerSecond, individualMaxBufferCap,
  paused, start, due,
  limit,            \* the rate limit on sales to this contract
  halted,           \* which of its functions are paused
  mintFeeBasisPoints, redeemFeeBasisPoints,
  pcvDeposit,
  price,            \* FEI per underlying, as the oracle reports it
  pcv,              \* the underlying held by each deposit
  wallet,           \* the underlying held by anybody else
  held,             \* the FEI held by this contract
  circulating       \* the FEI held by anybody else

minterVars == <<global, individual, individualMaxRateLimitPerSecond,
                individualMaxBufferCap, paused, start, due>>
settings == <<halted, mintFeeBasisPoints, redeemFeeBasisPoints, pcvDeposit>>
money == <<pcv, wallet, held, circulating>>
vars == <<now, minterVars, limit, settings, price, money>>

rateLimitedMinter == INSTANCE GlobalRateLimitedMinter

----------------------------------------------------------------------------
Init ==
  /\ rateLimitedMinter!Init
  /\ start = 1               \* the minter's own history is not observed here
  /\ limit = [stored |-> PsmCap, cap |-> PsmCap, rate |-> PsmRate, last |-> now]
  /\ halted = {}
  /\ mintFeeBasisPoints \in {f \in Fees : f <= MaxFee}
  /\ redeemFeeBasisPoints \in {f \in Fees : f <= MaxFee}
  /\ pcvDeposit \in Deposit
  /\ price \in Prices
  /\ pcv = [d \in Deposit |-> 0]
  /\ wallet = Wealth
  /\ held = 0
  /\ circulating = 0

(* Every division rounds down. *)
GetMintAmountOut(amountIn) ==
  ((price * amountIn * (Granularity - mintFeeBasisPoints)) \div Granularity) \div BASE

(* Faulty: the division by the price rounds up. *)
GetRedeemAmountOutUp(amountFeiIn) ==
  (((amountFeiIn * (Granularity - redeemFeeBasisPoints)) \div Granularity) * BASE
     + price - 1) \div price

GetRedeemAmountOut(amountFeiIn) ==
  (((amountFeiIn * (Granularity - redeemFeeBasisPoints)) \div Granularity) * BASE)
    \div price

(* Faulty: mints all that is bought, though part of it is held. *)
FeiToMintAll(amountFeiOut) == amountFeiOut

FeiToMint(amountFeiOut) == amountFeiOut - Lesser(held, amountFeiOut)

Mint(amountIn) ==
  LET amountFeiOut == GetMintAmountOut(amountIn)
      minted == FeiToMint(amountFeiOut)
  IN /\ halted \cap {"all", "mint"} = {}
     /\ amountIn <= wallet
     /\ wallet' = wallet - amountIn
     /\ pcv' = [pcv EXCEPT ![pcvDeposit] = @ + amountIn]
     /\ held' = held - Lesser(held, amountFeiOut)
     /\ circulating' = circulating + amountFeiOut
     /\ IF minted # 0 THEN rateLimitedMinter!Mint(Psm, minted)
        ELSE UNCHANGED <<now, minterVars>>
     /\ limit' = Replenish(limit, now, amountFeiOut)
     /\ UNCHANGED <<settings, price>>

Redeem(amountFeiIn) ==
  LET amountOut == GetRedeemAmountOut(amountFeiIn)
  IN /\ halted \cap {"all", "redeem"} = {}
     /\ CanDeplete(limit, now, amountFeiIn)
     /\ limit' = Deplete(limit, now, amountFeiIn)
     /\ amountFeiIn <= circulating
     /\ circulating' = circulating - amountFeiIn
     /\ held' = held + amountFeiIn
     /\ amountOut <= pcv[pcvDeposit]
     /\ pcv' = [pcv EXCEPT ![pcvDeposit] = @ - amountOut]
     /\ wallet' = wallet + amountOut
     /\ UNCHANGED <<now, minterVars, settings, price>>

(* withdrawERC20 for the FEI that was sold to the contract. *)
WithdrawERC20(caller, amount) ==
  /\ caller \in PCVController
  /\ amount <= held
  /\ held' = held - amount
  /\ circulating' = circulating + amount
  /\ UNCHANGED <<now, minterVars, limit, settings, price, pcv, wallet>>

SetMintFee(caller, fee) ==
  /\ caller \in Governor \cup ParameterAdmin
  /\ fee <= MaxFee
  /\ mintFeeBasisPoints' = fee
  /\ UNCHANGED <<now, minterVars, limit, halted, redeemFeeBasisPoints, pcvDeposit,
                 price, money>>

SetRedeemFee(caller, fee) ==
  /\ caller \in Governor \cup ParameterAdmin
  /\ fee <= MaxFee
  /\ redeemFeeBasisPoints' = fee
  /\ UNCHANGED <<now, minterVars, limit, halted, mintFeeBasisPoints, pcvDeposit,
                 price, money>>

SetPCVDeposit(caller, newTarget) ==
  /\ caller \in Governor \cup PsmAdmin
  /\ pcvDeposit' = newTarget
  /\ UNCHANGED <<now, minterVars, limit, halted, mintFeeBasisPoints,
                 redeemFeeBasisPoints, price, money>>

SetRateLimitPerSecond(caller, rate) ==
  /\ caller \in Governor \cup PsmAdmin
  /\ rate <= PsmMaxRate
  /\ limit' = SetRate(limit, now, rate)
  /\ UNCHANGED <<now, minterVars, settings, price, money>>

SetBufferCap(caller, cap) ==
  /\ caller \in Governor \cup PsmAdmin
  /\ limit' = SetCap(limit, now, cap)
  /\ UNCHANGED <<now, minterVars, settings, price, money>>

(* pause reverts when it is in force, pauseRedeem and pauseMint do not. *)
Pause(caller, what) ==
  /\ caller \in Guardian \cup Governor
  /\ what = "all" => what \notin halted
  /\ halted' = halted \cup {what}
  /\ UNCHANGED <<now, minterVars, limit, mintFeeBasisPoints, redeemFeeBasisPoints,
                 pcvDeposit, price, money>>

Unpause(caller, what) ==
  /\ caller \in Guardian \cup Governor
  /\ what = "all" => what \in halted
  /\ halted' = halted \ {what}
  /\ UNCHANGED <<now, minterVars, limit, mintFeeBasisPoints, redeemFeeBasisPoints,
                 pcvDeposit, price, money>>

(* External: the oracle reports another price. *)
UpdateOracle ==
  /\ price' \in Prices
  /\ UNCHANGED <<now, minterVars, limit, settings, money>>

(* External: a PCV controller moves underlying from a deposit. *)
WithdrawPCV(caller, d, amount) ==
  /\ caller \in PCVController
  /\ amount <= pcv[d]
  /\ pcv' = [pcv EXCEPT ![d] = @ - amount]
  /\ UNCHANGED <<now, minterVars, limit, settings, price, wallet, held, circulating>>

(* What happens on the minter without this contract: another minter mints,  *)
(* time goes by, the limits are changed.                                    *)
MinterSteps ==
  \/ \E caller \in Minter \ {Psm}, n \in Amounts :
       /\ rateLimitedMinter!Mint(caller, n)
       /\ circulating' = circulating + n
       /\ UNCHANGED <<limit, settings, price, pcv, wallet, held>>
  \/ /\ \/ rateLimitedMinter!AdvanceTime
        \/ \E caller \in Account :
             \/ \E c \in Caps : rateLimitedMinter!SetBufferCap(caller, c)
             \/ \E a \in Minter :
                  \/ rateLimitedMinter!AddAddressAsMinter(caller, a)
                  \/ rateLimitedMinter!RemoveAddress(caller, a)
     /\ UNCHANGED <<limit, settings, price, money>>

Next ==
  \/ \E n \in Sizes : Mint(n) \/ Redeem(n)
  \/ \E caller \in Account :
       \/ \E n \in Sizes : \/ WithdrawERC20(caller, n)
                           \/ \E d \in Deposit : WithdrawPCV(caller, d, n)
       \/ \E f \in Fees : SetMintFee(caller, f) \/ SetRedeemFee(caller, f)
       \/ \E d \in Deposit : SetPCVDeposit(caller, d)
       \/ \E r \in Rates : SetRateLimitPerSecond(caller, r)
       \/ \E c \in Caps : SetBufferCap(caller, c)
       \/ \E what \in {"all", "redeem", "mint"} :
            Pause(caller, what) \/ Unpause(caller, what)
  \/ UpdateOracle
  \/ MinterSteps

Spec == Init /\ [][Next]_vars

----------------------------------------------------------------------------
TypeOK ==
  /\ rateLimitedMinter!TypeOK
  /\ limit \in Limit
  /\ halted \subseteq {"all", "redeem", "mint"}
  /\ {mintFeeBasisPoints, redeemFeeBasisPoints} \subseteq 0 .. MaxFee
  /\ pcvDeposit \in Deposit
  /\ price \in Prices
  /\ pcv \in [Deposit -> Nat]
  /\ {wallet, held, circulating} \subseteq Nat

Surplus == pcv[pcvDeposit] * price - circulating * BASE

(* NonCustodialPSM.sol:302-331.  No trade costs the protocol: at the price of *)
(* the trade, the PCV gains at least the FEI that enters circulation and pays *)
(* at most what leaves it, so no sequence of trades at a price makes a profit. *)
TradesNeverLose ==
  [][(\E n \in Sizes : Mint(n) \/ Redeem(n)) => Surplus' >= Surplus]_vars

(* NonCustodialPSM.sol:246-263.  FEI appears only against the common buffer of *)
(* the minter, whoever mints it, and a sale destroys none.                     *)
FeiComesFromBuffer ==
  [][now' = now /\ global'.cap = global.cap =>
       (held + circulating)' - (held + circulating)
         = Buffer(global, now) - Buffer(global, now)']_vars

(* NonCustodialPSM.sol:219, 263.  The limit on sales is a bucket that refills  *)
(* with time and with purchases, and never beyond its cap.                     *)
Sales == INSTANCE TokenBucket WITH
  level <- Buffer(limit, now), cap <- limit.cap, rate <- limit.rate
SalesAreBucket == Sales!ReplenishedSpec

(* NonCustodialPSM.sol:207-210, 263.  Within a second, what may be sold grows    *)
(* by no more than the FEI that went out, and shrinks with what is sold.         *)
SalesFollowPurchases ==
  [][now' = now /\ limit'.cap = limit.cap =>
       Buffer(limit, now)' - Buffer(limit, now) <= circulating' - circulating]_vars
=============================================================================
