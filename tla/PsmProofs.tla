------------------------------ MODULE PsmProofs ------------------------------
(***************************************************************************)
(* Proofs about the peg stability module for any prices, fees, amounts and *)
(* limits.  That no trade costs the protocol is a matter of the direction  *)
(* in which each division rounds; that FEI comes from the common buffer    *)
(* and that sales follow purchases is one of what happens to a buffer.     *)
(***************************************************************************)
EXTENDS NonCustodialPSM, ArithmeticProofs

(* What the properties need to know of every state. *)
IInv ==
  /\ now \in Nat
  /\ global \in Limit /\ now >= global.last
  /\ limit \in Limit /\ now >= limit.last
  /\ mintFeeBasisPoints \in 0 .. MaxFee /\ redeemFeeBasisPoints \in 0 .. MaxFee
  /\ pcvDeposit \in Deposit /\ price \in Prices
  /\ pcv \in [Deposit -> Nat]
  /\ wallet \in Nat /\ held \in Nat /\ circulating \in Nat

----------------------------------------------------------------------------
(* Amounts and fees. *)

(* A fee takes a part of an amount. *)
LEMMA LessFee ==
  ASSUME NEW x \in Nat, NEW fee \in 0 .. Granularity
  PROVE  /\ (x * (Granularity - fee)) \div Granularity \in Nat
         /\ (x * (Granularity - fee)) \div Granularity <= x
<1> DEFINE rest == Granularity - fee
           q == (x * rest) \div Granularity
<1>1. rest \in Nat /\ rest <= Granularity /\ Granularity \in Nat \ {0}
  BY PsmAssumption
<1> HIDE DEF rest
<1>2. x * rest \in Nat /\ x * Granularity \in Nat
  BY <1>1, ProductType
<1>3. x * rest <= x * Granularity
  <2>1. rest * x <= Granularity * x
    BY <1>1, ProductMonotonic
  <2> QED
    BY <1>1, <2>1, Distributes
<1>4. q \in Nat /\ q * Granularity <= x * rest
  BY <1>1, <1>2, DivBounds
<1> HIDE DEF q
<1>5. q * Granularity <= x * Granularity
  <2>1. q * Granularity \in Nat
    BY <1>1, <1>4, ProductType
  <2> QED
    BY <1>2, <1>3, <1>4, <2>1
<1>6. q <= x
  BY <1>1, <1>4, <1>5, ProductCancels
<1> QED
  BY <1>4, <1>6 DEF q, rest

(* NonCustodialPSM.sol:302-315.  FEI is worth at most what is paid for it. *)
LEMMA MintAmount ==
  ASSUME IInv, NEW n \in Nat
  PROVE  /\ GetMintAmountOut(n) \in Nat
         /\ GetMintAmountOut(n) * BASE <= n * price
<1> DEFINE q == (price * n * (Granularity - mintFeeBasisPoints)) \div Granularity
<1>1. price \in Nat /\ BASE \in Nat \ {0} /\ mintFeeBasisPoints \in 0 .. Granularity
  BY PsmAssumption DEF IInv
<1>2. price * n \in Nat /\ price * n = n * price
  BY <1>1, ProductType, Distributes
<1>3. q \in Nat /\ q <= price * n
  BY <1>1, <1>2, LessFee
<1> HIDE DEF q
<1>4. q \div BASE \in Nat /\ (q \div BASE) * BASE <= q
  BY <1>1, <1>3, DivBounds
<1>5. GetMintAmountOut(n) = q \div BASE
  BY DEF GetMintAmountOut, q
<1>6. (q \div BASE) * BASE \in Nat
  BY <1>1, <1>4, ProductType
<1> QED
  BY <1>2, <1>3, <1>4, <1>5, <1>6

(* NonCustodialPSM.sol:318-331.  What is paid for FEI is worth at most as much. *)
LEMMA RedeemAmount ==
  ASSUME IInv, NEW n \in Nat
  PROVE  /\ GetRedeemAmountOut(n) \in Nat
         /\ GetRedeemAmountOut(n) * price <= n * BASE
<1> DEFINE q == (n * (Granularity - redeemFeeBasisPoints)) \div Granularity
<1>1. price \in Nat \ {0} /\ BASE \in Nat \ {0} /\ redeemFeeBasisPoints \in 0 .. Granularity
  BY PsmAssumption DEF IInv
<1>2. q \in Nat /\ q <= n
  BY <1>1, LessFee
<1> HIDE DEF q
<1>3. q * BASE \in Nat /\ n * BASE \in Nat /\ q * BASE <= n * BASE
  BY <1>1, <1>2, ProductType, ProductMonotonic
<1>4. (q * BASE) \div price \in Nat /\ ((q * BASE) \div price) * price <= q * BASE
  BY <1>1, <1>3, DivBounds
<1>5. GetRedeemAmountOut(n) = (q * BASE) \div price
  BY DEF GetRedeemAmountOut, q
<1>6. ((q * BASE) \div price) * price \in Nat
  BY <1>1, <1>4, ProductType
<1> QED
  BY <1>3, <1>4, <1>5, <1>6

(* A trade that moves `paid` underlying in, or out, against FEI worth no less,   *)
(* or no more.                                                                  *)
LEMMA TradeKeepsSurplus ==
  ASSUME IInv, NEW paid \in Int, NEW given \in Int,
         given * BASE <= paid * price,
         pcv' = [pcv EXCEPT ![pcvDeposit] = @ + paid],
         circulating' = circulating + given,
         UNCHANGED <<pcvDeposit, price>>
  PROVE  Surplus' >= Surplus
<1> DEFINE stock == pcv[pcvDeposit]
<1>1. price \in Int /\ BASE \in Int /\ stock \in Int /\ circulating \in Int
  BY PsmAssumption DEF IInv
<1>2. pcv'[pcvDeposit'] = stock + paid
  BY DEF IInv
<1> HIDE DEF stock
<1>3. (stock + paid) * price = stock * price + paid * price
  BY <1>1, Distributes
<1>4. (circulating + given) * BASE = circulating * BASE + given * BASE
  BY <1>1, Distributes
<1>5. /\ stock * price \in Int /\ paid * price \in Int
      /\ circulating * BASE \in Int /\ given * BASE \in Int
  BY <1>1
<1>6. Surplus' = (stock + paid) * price - (circulating + given) * BASE
  BY <1>2 DEF Surplus
<1>7. Surplus = stock * price - circulating * BASE
  BY DEF Surplus, stock
<1> QED
  BY <1>3, <1>4, <1>5, <1>6, <1>7

(* NonCustodialPSM.sol:196-263. *)
LEMMA TradesKeepSurplus ==
  ASSUME IInv, NEW n \in Sizes, Mint(n) \/ Redeem(n)
  PROVE  Surplus' >= Surplus
<1>1. n \in Nat
  BY PsmAssumption
<1>2. CASE Mint(n)
  <2>1. GetMintAmountOut(n) \in Nat /\ GetMintAmountOut(n) * BASE <= n * price
    BY <1>1, MintAmount
  <2>2. /\ pcv' = [pcv EXCEPT ![pcvDeposit] = @ + n]
        /\ circulating' = circulating + GetMintAmountOut(n)
        /\ UNCHANGED <<pcvDeposit, price>>
    BY <1>2 DEF Mint, settings
  <2>3. n \in Int /\ GetMintAmountOut(n) \in Int
    BY <1>1, <2>1
  <2> QED
    BY <2>1, <2>2, <2>3, TradeKeepsSurplus
<1>3. CASE Redeem(n)
  <2> DEFINE out == GetRedeemAmountOut(n)
  <2>1. out \in Nat /\ out * price <= n * BASE
    BY <1>1, RedeemAmount
  <2>2. /\ pcv' = [pcv EXCEPT ![pcvDeposit] = @ - out]
        /\ circulating' = circulating - n
        /\ UNCHANGED <<pcvDeposit, price>>
    BY <1>3 DEF Redeem, settings
  <2> HIDE DEF out
  <2>3. 0 - out \in Int /\ 0 - n \in Int
    BY <1>1, <2>1
  <2>4. (0 - n) * BASE <= (0 - out) * price
    <3>1. price \in Int /\ BASE \in Int /\ n \in Int /\ out \in Int
      BY <1>1, <2>1, PsmAssumption DEF IInv
    <3>2. (0 - n) * BASE = 0 * BASE - n * BASE /\ (0 - out) * price = 0 * price - out * price
      BY <3>1, Distributes
    <3>3. n * BASE \in Int /\ out * price \in Int /\ 0 * BASE = 0 /\ 0 * price = 0
      BY <3>1
    <3> QED
      BY <2>1, <3>2, <3>3
  <2>5. /\ pcv' = [pcv EXCEPT ![pcvDeposit] = @ + (0 - out)]
        /\ circulating' = circulating + (0 - n)
    <3>1. pcv[pcvDeposit] \in Nat /\ circulating \in Nat
      BY DEF IInv
    <3>2. pcv[pcvDeposit] - out = pcv[pcvDeposit] + (0 - out)
            /\ circulating - n = circulating + (0 - n)
      BY <1>1, <2>1, <3>1
    <3> QED
      BY <2>2, <3>2
  <2> QED
    BY <2>2, <2>3, <2>4, <2>5, TradeKeepsSurplus
<1> QED
  BY <1>2, <1>3
----------------------------------------------------------------------------
(* Limits. *)

(* The minter's limits are those of this module. *)
LEMMA SameLimits ==
  ASSUME NEW b, NEW t, NEW n
  PROVE  /\ rateLimitedMinter!Buffer(b, t) = Buffer(b, t)
         /\ rateLimitedMinter!CanDeplete(b, t, n) = CanDeplete(b, t, n)
         /\ rateLimitedMinter!Deplete(b, t, n) = Deplete(b, t, n)
         /\ rateLimitedMinter!SetCap(b, t, n) = SetCap(b, t, n)
<1>1. \A x, y : rateLimitedMinter!Lesser(x, y) = Lesser(x, y)
  BY DEF rateLimitedMinter!Lesser, Lesser
<1>2. rateLimitedMinter!Buffer(b, t) = Buffer(b, t)
  BY <1>1 DEF rateLimitedMinter!Buffer, Buffer
<1>3. rateLimitedMinter!Updated(b, t) = Updated(b, t)
  BY <1>2 DEF rateLimitedMinter!Updated, Updated
<1> QED
  BY <1>2, <1>3 DEF rateLimitedMinter!CanDeplete, CanDeplete, rateLimitedMinter!Deplete,
     Deplete, rateLimitedMinter!SetCap, SetCap

(* RateLimited.sol:122-129.  The same cap again leaves the buffer as it is. *)
LEMMA SetSameCap ==
  ASSUME NEW b \in Limit, NEW t \in Nat, t >= b.last
  PROVE  Buffer(SetCap(b, t, b.cap), t) = Buffer(b, t)
<1> DEFINE new == SetCap(b, t, b.cap)
<1>1. new = [stored |-> Buffer(b, t), cap |-> b.cap, rate |-> b.rate, last |-> t]
  BY UpdatedType DEF SetCap
<1>2. Buffer(b, t) \in Nat /\ Buffer(b, t) <= b.cap /\ b.cap \in Nat
  BY BufferType DEF Limit
<1>3. new \in Limit /\ new.last = t
  BY SetCapType, <1>2
<1>4. Buffer(new, t) = Lesser(new.stored, new.cap)
  BY <1>3, BufferNow
<1>5. new.stored = Buffer(b, t) /\ new.cap = b.cap
  BY <1>1
<1> HIDE DEF new
<1> QED
  BY <1>2, <1>4, <1>5 DEF Lesser, new

(* RateLimited.sol:98-117.  A refill adds at most its amount. *)
LEMMA ReplenishType ==
  ASSUME NEW b \in Limit, NEW t \in Nat, t >= b.last, NEW n \in Nat
  PROVE  /\ Replenish(b, t, n) \in Limit
         /\ t >= Replenish(b, t, n).last
         /\ Replenish(b, t, n).cap = b.cap /\ Replenish(b, t, n).rate = b.rate
         /\ Buffer(Replenish(b, t, n), t) - Buffer(b, t) <= n
         /\ Buffer(Replenish(b, t, n), t) \in Buffer(b, t) .. b.cap
<1>1. Buffer(b, t) \in Nat /\ Buffer(b, t) <= b.cap /\ b.cap \in Nat
  BY BufferType DEF Limit
<1>2. CASE Buffer(b, t) = b.cap
  BY <1>1, <1>2 DEF Replenish
<1>3. CASE Buffer(b, t) # b.cap
  <2> DEFINE new == Replenish(b, t, n)
             level == Lesser(Buffer(b, t) + n, b.cap)
  <2>1. new = [stored |-> level, cap |-> b.cap, rate |-> b.rate, last |-> t]
    BY <1>3, UpdatedType DEF Replenish
  <2>2. level \in Nat /\ level <= b.cap /\ level <= Buffer(b, t) + n /\ level >= Buffer(b, t)
    BY <1>1 DEF Lesser
  <2> HIDE DEF level
  <2>3. new \in Limit /\ new.last = t /\ new.stored = level /\ new.cap = b.cap
          /\ new.rate = b.rate
    BY <2>1, <2>2 DEF Limit
  <2> HIDE DEF new
  <2>4. Buffer(new, t) = Lesser(level, b.cap)
    BY <2>3, BufferNow
  <2>5. Buffer(new, t) = level
    BY <1>1, <2>2, <2>4 DEF Lesser
  <2> QED
    BY <1>1, <2>2, <2>3, <2>5 DEF new
<1> QED
  BY <1>2, <1>3

----------------------------------------------------------------------------
(* Each step keeps the invariant, takes FEI from the common buffer only and lets *)
(* sales grow by purchases only.                                                 *)

FromBuffer ==
  now' = now /\ global'.cap = global.cap =>
    (held + circulating)' - (held + circulating) = Buffer(global, now) - Buffer(global, now)'

AfterPurchases ==
  now' = now /\ limit'.cap = limit.cap =>
    Buffer(limit, now)' - Buffer(limit, now) <= circulating' - circulating

StepOK == IInv' /\ FromBuffer /\ AfterPurchases

(* Buffers of limits in use are numbers. *)
LEMMA BuffersType ==
  ASSUME IInv
  PROVE  Buffer(global, now) \in Nat /\ Buffer(limit, now) \in Nat
BY BufferType DEF IInv

(* A step that leaves FEI and both limits alone. *)
LEMMA Quiet ==
  ASSUME IInv, UNCHANGED <<now, global, limit, held, circulating>>,
         mintFeeBasisPoints' \in 0 .. MaxFee, redeemFeeBasisPoints' \in 0 .. MaxFee,
         pcvDeposit' \in Deposit, price' \in Prices, pcv' \in [Deposit -> Nat],
         wallet' \in Nat
  PROVE  StepOK
<1>1. IInv'
  BY DEF IInv
<1>2. /\ Buffer(global, now)' = Buffer(global, now)
      /\ Buffer(limit, now)' = Buffer(limit, now)
  BY DEF Buffer
<1>3. Buffer(global, now) \in Nat /\ Buffer(limit, now) \in Nat
      /\ held \in Nat /\ circulating \in Nat
  BY BuffersType DEF IInv
<1> QED
  BY <1>1, <1>2, <1>3 DEF StepOK, FromBuffer, AfterPurchases

(* GlobalRateLimitedMinter.sol:41-55, as this module sees it. *)
LEMMA MinterMint ==
  ASSUME IInv, NEW caller, NEW n \in Nat, rateLimitedMinter!Mint(caller, n)
  PROVE  /\ now' = now
         /\ global' \in Limit /\ now >= global'.last
         /\ Buffer(global', now) = Buffer(global, now) - n
<1>1. /\ now' = now /\ global' = Deplete(global, now, n) /\ CanDeplete(global, now, n)
  BY SameLimits DEF rateLimitedMinter!Mint, rateLimitedMinter!DepleteIndividualBuffer
<1>2. global \in Limit /\ now \in Nat /\ now >= global.last
  BY DEF IInv
<1> QED
  BY <1>1, <1>2, DepleteType

(* NonCustodialPSM.sol:231-263. *)
LEMMA MintStep ==
  ASSUME IInv, NEW n \in Sizes, Mint(n)
  PROVE  StepOK
<1> DEFINE out == GetMintAmountOut(n)
           minted == FeiToMint(out)
<1>1. n \in Nat /\ out \in Nat
  BY PsmAssumption, MintAmount
<1> HIDE DEF out
<1>2. /\ now \in Nat /\ held \in Nat /\ circulating \in Nat /\ wallet \in Nat
      /\ global \in Limit /\ now >= global.last
      /\ limit \in Limit /\ now >= limit.last
  BY DEF IInv
<1>3. /\ n <= wallet /\ wallet' = wallet - n
      /\ pcv' = [pcv EXCEPT ![pcvDeposit] = @ + n]
      /\ held' = held - Lesser(held, out)
      /\ circulating' = circulating + out
      /\ limit' = Replenish(limit, now, out)
      /\ UNCHANGED <<mintFeeBasisPoints, redeemFeeBasisPoints, pcvDeposit, price>>
  BY DEF Mint, settings, out
<1>4. Lesser(held, out) \in Nat /\ Lesser(held, out) <= held /\ Lesser(held, out) <= out
  BY <1>1, <1>2 DEF Lesser
<1>5. minted \in Nat /\ minted = out - Lesser(held, out)
  BY <1>1, <1>4 DEF FeiToMint
<1>6. /\ now' = now /\ global' \in Limit /\ now >= global'.last
      /\ Buffer(global', now) = Buffer(global, now) - minted
  <2>1. CASE minted # 0
    <3>1. rateLimitedMinter!Mint(Psm, minted)
      BY <2>1 DEF Mint, out
    <3> HIDE DEF minted
    <3> QED
      BY <1>5, <3>1, MinterMint
  <2>2. CASE minted = 0
    <3>1. now' = now /\ global' = global
      BY <2>2 DEF Mint, out, minterVars
    <3>2. Buffer(global, now) \in Nat
      BY BuffersType
    <3> QED
      BY <1>2, <2>2, <3>1, <3>2
  <2> QED
    BY <2>1, <2>2
<1> HIDE DEF minted
<1>7. /\ limit' \in Limit /\ now >= limit'.last
      /\ Buffer(limit', now) - Buffer(limit, now) <= out
  BY <1>1, <1>2, <1>3, ReplenishType
<1>8. pcv' \in [Deposit -> Nat]
  BY <1>1, <1>3 DEF IInv
<1>9. wallet' \in Nat /\ held' \in Nat /\ circulating' \in Nat
  BY <1>1, <1>2, <1>3, <1>4
<1>10. IInv'
  BY <1>3, <1>6, <1>7, <1>8, <1>9 DEF IInv
<1>11. Buffer(global, now) \in Nat /\ Buffer(limit, now) \in Nat
  BY BuffersType
<1>12. FromBuffer
  BY <1>1, <1>2, <1>3, <1>4, <1>5, <1>6, <1>11 DEF FromBuffer
<1>13. AfterPurchases
  <2>1. circulating' - circulating = out
    BY <1>1, <1>2, <1>3
  <2> QED
    BY <1>6, <1>7, <2>1 DEF AfterPurchases
<1> QED
  BY <1>10, <1>12, <1>13 DEF StepOK

(* NonCustodialPSM.sol:196-224. *)
LEMMA RedeemStep ==
  ASSUME IInv, NEW n \in Sizes, Redeem(n)
  PROVE  StepOK
<1> DEFINE out == GetRedeemAmountOut(n)
<1>1. n \in Nat /\ out \in Nat
  BY PsmAssumption, RedeemAmount
<1> HIDE DEF out
<1>2. /\ now \in Nat /\ held \in Nat /\ circulating \in Nat /\ wallet \in Nat
      /\ global \in Limit /\ limit \in Limit /\ now >= limit.last
      /\ pcvDeposit \in Deposit /\ pcv \in [Deposit -> Nat]
  BY DEF IInv
<1>3. /\ CanDeplete(limit, now, n) /\ limit' = Deplete(limit, now, n)
      /\ n <= circulating /\ circulating' = circulating - n /\ held' = held + n
      /\ out <= pcv[pcvDeposit] /\ pcv' = [pcv EXCEPT ![pcvDeposit] = @ - out]
      /\ wallet' = wallet + out
      /\ UNCHANGED <<now, global, mintFeeBasisPoints, redeemFeeBasisPoints, pcvDeposit,
                     price>>
  BY DEF Redeem, settings, minterVars, out
<1>4. /\ limit' \in Limit /\ now' >= limit'.last
      /\ Buffer(limit', now) = Buffer(limit, now) - n
  BY <1>1, <1>2, <1>3, DepleteType
<1>5. pcv' \in [Deposit -> Nat]
  <2>1. pcv[pcvDeposit] - out \in Nat
    BY <1>1, <1>2, <1>3
  <2> QED
    BY <1>2, <1>3, <2>1
<1>6. wallet' \in Nat /\ held' \in Nat /\ circulating' \in Nat
  BY <1>1, <1>2, <1>3
<1>7. IInv'
  BY <1>3, <1>4, <1>5, <1>6 DEF IInv
<1>8. Buffer(global, now) \in Nat /\ Buffer(limit, now) \in Nat
  BY BuffersType
<1>9. Buffer(global, now)' = Buffer(global, now)
  BY <1>3 DEF Buffer
<1>10. FromBuffer
  BY <1>1, <1>2, <1>3, <1>8, <1>9 DEF FromBuffer
<1>11. AfterPurchases
  BY <1>1, <1>2, <1>3, <1>4, <1>8 DEF AfterPurchases
<1> QED
  BY <1>7, <1>10, <1>11 DEF StepOK

(* The FEI that was sold to the contract goes out again. *)
LEMMA WithdrawERC20Step ==
  ASSUME IInv, NEW caller, NEW n \in Sizes, WithdrawERC20(caller, n)
  PROVE  StepOK
<1>1. n \in Nat /\ held \in Nat /\ circulating \in Nat
  BY PsmAssumption DEF IInv
<1>2. /\ n <= held /\ held' = held - n /\ circulating' = circulating + n
      /\ UNCHANGED <<now, global, limit, mintFeeBasisPoints, redeemFeeBasisPoints,
                     pcvDeposit, price, pcv, wallet>>
  BY DEF WithdrawERC20, settings, minterVars
<1>3. IInv'
  BY <1>1, <1>2 DEF IInv
<1>4. /\ Buffer(global, now)' = Buffer(global, now)
      /\ Buffer(limit, now)' = Buffer(limit, now)
  BY <1>2 DEF Buffer
<1>5. Buffer(global, now) \in Nat /\ Buffer(limit, now) \in Nat
  BY BuffersType
<1> QED
  BY <1>1, <1>2, <1>3, <1>4, <1>5 DEF StepOK, FromBuffer, AfterPurchases

(* Settings, the oracle, and withdrawals from a deposit. *)
LEMMA SettingsStep ==
  ASSUME IInv, NEW caller,
         \/ \E f \in Fees : SetMintFee(caller, f) \/ SetRedeemFee(caller, f)
         \/ \E d \in Deposit : SetPCVDeposit(caller, d)
         \/ \E what : Pause(caller, what) \/ Unpause(caller, what)
         \/ UpdateOracle
         \/ \E n \in Sizes, d \in Deposit : WithdrawPCV(caller, d, n)
  PROVE  StepOK
<1>1. UNCHANGED <<now, global, limit, held, circulating>>
  BY DEF SetMintFee, SetRedeemFee, SetPCVDeposit, Pause, Unpause, UpdateOracle, WithdrawPCV,
     minterVars, money
<1>2. mintFeeBasisPoints' \in 0 .. MaxFee /\ redeemFeeBasisPoints' \in 0 .. MaxFee
  BY PsmAssumption DEF IInv, SetMintFee, SetRedeemFee, SetPCVDeposit, Pause, Unpause, UpdateOracle,
     WithdrawPCV, settings
<1>3. pcvDeposit' \in Deposit /\ price' \in Prices
  BY DEF IInv, SetMintFee, SetRedeemFee, SetPCVDeposit, Pause, Unpause, UpdateOracle,
     WithdrawPCV, settings
<1>4. pcv' \in [Deposit -> Nat] /\ wallet' \in Nat
  <2>1. ASSUME NEW n \in Sizes, NEW d \in Deposit, WithdrawPCV(caller, d, n)
        PROVE  pcv' \in [Deposit -> Nat] /\ wallet' \in Nat
    <3>1. n \in Nat /\ pcv \in [Deposit -> Nat]
      BY PsmAssumption DEF IInv
    <3>2. pcv[d] - n \in Nat
      BY <2>1, <3>1 DEF WithdrawPCV
    <3> QED
      BY <2>1, <3>1, <3>2 DEF WithdrawPCV, IInv
  <2> QED
    BY <2>1 DEF IInv, SetMintFee, SetRedeemFee, SetPCVDeposit, Pause, Unpause, UpdateOracle, money
<1> QED
  BY <1>1, <1>2, <1>3, <1>4, Quiet

(* A new rate keeps the buffer; a new cap is no step the property is about. *)
LEMMA LimitStep ==
  ASSUME IInv, NEW caller,
         \/ \E r \in Rates : SetRateLimitPerSecond(caller, r)
         \/ \E c \in Caps : SetBufferCap(caller, c)
  PROVE  StepOK
<1>1. /\ now \in Nat /\ limit \in Limit /\ now >= limit.last
      /\ held \in Nat /\ circulating \in Nat
  BY DEF IInv
<1>2. UNCHANGED <<now, global, mintFeeBasisPoints, redeemFeeBasisPoints, pcvDeposit, price,
                  pcv, wallet, held, circulating>>
  BY DEF SetRateLimitPerSecond, SetBufferCap, settings, money, minterVars
<1> DEFINE kept == /\ limit' \in Limit /\ now >= limit'.last
                   /\ limit'.cap = limit.cap => Buffer(limit', now) = Buffer(limit, now)
<1>3. kept
  <2>1. ASSUME NEW r \in Rates, SetRateLimitPerSecond(caller, r)
        PROVE  kept
    <3>1. r \in Nat /\ limit' = SetRate(limit, now, r)
      BY <2>1, PsmAssumption DEF SetRateLimitPerSecond
    <3> QED
      BY <1>1, <3>1, SetRateType
  <2>2. ASSUME NEW c \in Caps, SetBufferCap(caller, c)
        PROVE  kept
    <3>1. c \in Nat /\ limit' = SetCap(limit, now, c)
      BY <2>2, PsmAssumption DEF SetBufferCap
    <3>2. limit'.cap = c
      BY <1>1, <3>1, UpdatedType DEF SetCap
    <3> QED
      BY <1>1, <3>1, <3>2, SetCapType, SetSameCap
  <2> QED
    BY <2>1, <2>2
<1>4. IInv'
  BY <1>2, <1>3 DEF IInv
<1>5. Buffer(global, now)' = Buffer(global, now)
  BY <1>2 DEF Buffer
<1>6. Buffer(global, now) \in Nat /\ Buffer(limit, now) \in Nat
  BY BuffersType
<1> QED
  BY <1>1, <1>2, <1>3, <1>4, <1>5, <1>6 DEF StepOK, FromBuffer, AfterPurchases

(* What others do on the minter. *)
LEMMA MinterStep ==
  ASSUME IInv, MinterSteps
  PROVE  StepOK
<1>1. /\ now \in Nat /\ global \in Limit /\ now >= global.last
      /\ limit \in Limit /\ now >= limit.last /\ held \in Nat /\ circulating \in Nat
      /\ Buffer(global, now) \in Nat /\ Buffer(limit, now) \in Nat
  BY BuffersType DEF IInv
<1>2. UNCHANGED <<limit, mintFeeBasisPoints, redeemFeeBasisPoints, pcvDeposit, price, pcv,
                  wallet, held>>
  BY DEF MinterSteps, settings, money
<1>3. ASSUME NEW caller \in Minter \ {Psm}, NEW n \in Amounts,
             rateLimitedMinter!Mint(caller, n), circulating' = circulating + n
      PROVE  StepOK
  <2>1. n \in Nat
    BY PsmAssumption
  <2>2. /\ now' = now /\ global' \in Limit /\ now >= global'.last
        /\ Buffer(global', now) = Buffer(global, now) - n
    BY <1>3, <2>1, MinterMint
  <2>3. IInv'
    BY <1>1, <1>2, <1>3, <2>1, <2>2 DEF IInv
  <2>4. Buffer(limit, now)' = Buffer(limit, now)
    BY <1>2, <2>2 DEF Buffer
  <2> QED
    BY <1>1, <1>2, <1>3, <2>1, <2>2, <2>3, <2>4 DEF StepOK, FromBuffer, AfterPurchases
<1>4. ASSUME rateLimitedMinter!AdvanceTime, circulating' = circulating
      PROVE  StepOK
  <2>1. now' = now + 1 /\ global' = global
    BY <1>4 DEF rateLimitedMinter!AdvanceTime
  <2>2. global.last \in Nat /\ limit.last \in Nat
    BY <1>1 DEF Limit
  <2>3. IInv'
    BY <1>1, <1>2, <1>4, <2>1, <2>2 DEF IInv
  <2>4. now' # now
    BY <1>1, <2>1
  <2> QED
    BY <2>3, <2>4 DEF StepOK, FromBuffer, AfterPurchases
<1>5. ASSUME NEW caller, NEW c \in Caps, rateLimitedMinter!SetBufferCap(caller, c),
             circulating' = circulating
      PROVE  StepOK
  <2>1. c \in Nat /\ now' = now /\ global' = SetCap(global, now, c)
    BY <1>5, PsmAssumption, SameLimits DEF rateLimitedMinter!SetBufferCap
  <2>2. global'.cap = c
    BY <1>1, <2>1, UpdatedType DEF SetCap
  <2>3. /\ global' \in Limit /\ now >= global'.last
        /\ global'.cap = global.cap => Buffer(global', now) = Buffer(global, now)
    BY <1>1, <2>1, <2>2, SetCapType, SetSameCap
  <2>4. IInv'
    BY <1>1, <1>2, <1>5, <2>1, <2>3 DEF IInv
  <2>5. Buffer(limit, now)' = Buffer(limit, now)
    BY <1>2, <2>1 DEF Buffer
  <2> QED
    BY <1>1, <1>2, <1>5, <2>1, <2>3, <2>4, <2>5 DEF StepOK, FromBuffer, AfterPurchases
<1>6. ASSUME NEW caller, NEW a,
             \/ rateLimitedMinter!AddAddressAsMinter(caller, a)
             \/ rateLimitedMinter!RemoveAddress(caller, a),
             circulating' = circulating
      PROVE  StepOK
  <2>1. now' = now /\ global' = global
    BY <1>6 DEF rateLimitedMinter!AddAddressAsMinter, rateLimitedMinter!Register,
       rateLimitedMinter!RemoveAddress
  <2> QED
    BY <1>2, <1>6, <2>1, Quiet DEF IInv
<1> QED
  BY <1>3, <1>4, <1>5, <1>6 DEF MinterSteps, money

LEMMA InitInvariant == Init => IInv
<1> SUFFICES ASSUME Init PROVE IInv
  OBVIOUS
<1> USE PsmAssumption
<1>1. /\ now = 1
      /\ global = [stored |-> FirstCap, cap |-> FirstCap, rate |-> FirstRate, last |-> 1]
  BY DEF Init, rateLimitedMinter!Init
<1>2. limit = [stored |-> PsmCap, cap |-> PsmCap, rate |-> PsmRate, last |-> 1]
  BY <1>1 DEF Init
<1>3. global \in Limit /\ limit \in Limit /\ global.last = 1 /\ limit.last = 1
  BY <1>1, <1>2 DEF Limit
<1>4. mintFeeBasisPoints \in 0 .. MaxFee /\ redeemFeeBasisPoints \in 0 .. MaxFee
  BY DEF Init
<1> QED
  BY <1>1, <1>3, <1>4 DEF Init, IInv

LEMMA NextStep == IInv /\ [Next]_vars => StepOK
<1> SUFFICES ASSUME IInv, [Next]_vars PROVE StepOK
  OBVIOUS
<1>1. ASSUME NEW n \in Sizes, Mint(n) \/ Redeem(n) PROVE StepOK
  BY <1>1, MintStep, RedeemStep
<1>2. ASSUME NEW caller \in Account,
             \/ \E n \in Sizes : \/ WithdrawERC20(caller, n)
                                  \/ \E d \in Deposit : WithdrawPCV(caller, d, n)
             \/ \E f \in Fees : SetMintFee(caller, f) \/ SetRedeemFee(caller, f)
             \/ \E d \in Deposit : SetPCVDeposit(caller, d)
             \/ \E r \in Rates : SetRateLimitPerSecond(caller, r)
             \/ \E c \in Caps : SetBufferCap(caller, c)
             \/ \E what \in {"all", "redeem", "mint"} :
                  Pause(caller, what) \/ Unpause(caller, what)
      PROVE  StepOK
  BY <1>2, WithdrawERC20Step, SettingsStep, LimitStep
<1>3. CASE UpdateOracle
  BY <1>3, SettingsStep
<1>4. CASE MinterSteps
  BY <1>4, MinterStep
<1>5. CASE UNCHANGED vars
  <2>1. UNCHANGED <<now, global, limit, held, circulating, mintFeeBasisPoints,
                    redeemFeeBasisPoints, pcvDeposit, price, pcv, wallet>>
    BY <1>5 DEF vars, minterVars, settings, money
  <2> QED
    BY <2>1, Quiet DEF IInv
<1> QED
  BY <1>1, <1>2, <1>3, <1>4, <1>5 DEF Next

(* Each step on the limit of sales is a step of a bucket. *)
LEMMA SalesStep ==
  ASSUME IInv, [Next]_vars
  PROVE  [Sales!Limit \/ Sales!Replenish]_(Sales!vars)
<1> DEFINE bucket == [Sales!Limit \/ Sales!Replenish]_(Sales!vars)
<1>1. /\ now \in Nat /\ limit \in Limit /\ now >= limit.last
      /\ limit.cap \in Nat /\ limit.rate \in Nat
      /\ Buffer(limit, now) \in Nat /\ Buffer(limit, now) <= limit.cap
  BY BufferType DEF IInv, Limit
<1>2. ASSUME now' = now, limit' = limit
      PROVE  bucket
  BY <1>2 DEF Sales!vars, Buffer
<1>3. ASSUME NEW n \in Sizes, Mint(n)
      PROVE  bucket
  <2>1. GetMintAmountOut(n) \in Nat
    BY PsmAssumption, MintAmount
  <2>2. now' = now
    BY <1>3 DEF Mint, rateLimitedMinter!Mint
  <2>3. limit' = Replenish(limit, now, GetMintAmountOut(n))
    BY <1>3 DEF Mint
  <2>4. /\ limit'.cap = limit.cap /\ limit'.rate = limit.rate
        /\ Buffer(limit, now)' \in Buffer(limit, now) .. limit.cap
    BY <1>1, <2>1, <2>2, <2>3, ReplenishType
  <2> QED
    BY <2>4 DEF Sales!Replenish
<1>4. ASSUME NEW n \in Sizes, Redeem(n)
      PROVE  bucket
  <2>1. n \in Nat /\ CanDeplete(limit, now, n) /\ limit' = Deplete(limit, now, n) /\ now' = now
    BY <1>4, PsmAssumption DEF Redeem
  <2>2. /\ limit'.cap = limit.cap /\ limit'.rate = limit.rate
        /\ Buffer(limit, now)' = Buffer(limit, now) - n
    BY <1>1, <2>1, DepleteType
  <2>3. n <= Buffer(limit, now)
    BY <2>1 DEF CanDeplete
  <2>4. Buffer(limit, now) - n \in 0 .. Buffer(limit, now)
    BY <1>1, <2>1, <2>3
  <2> QED
    BY <2>2, <2>4 DEF Sales!Limit, Sales!Spend
<1>5. ASSUME NEW caller, NEW r \in Rates, SetRateLimitPerSecond(caller, r)
      PROVE  bucket
  <2>1. r \in Nat /\ limit' = SetRate(limit, now, r) /\ now' = now
    BY <1>5, PsmAssumption DEF SetRateLimitPerSecond
  <2>2. limit'.rate = r /\ limit'.cap = limit.cap /\ Buffer(limit, now)' = Buffer(limit, now)
    BY <1>1, <2>1, SetRateType, SetRateCap
  <2>3. Sales!Adjust
    BY <1>1, <2>1, <2>2 DEF Sales!Adjust, Sales!Lesser
  <2> QED
    BY <2>3 DEF Sales!Limit
<1>6. ASSUME NEW caller, NEW c \in Caps, SetBufferCap(caller, c)
      PROVE  bucket
  <2>1. c \in Nat /\ limit' = SetCap(limit, now, c) /\ now' = now
    BY <1>6, PsmAssumption DEF SetBufferCap
  <2>2. /\ limit'.rate = limit.rate /\ limit'.cap = c
        /\ Buffer(limit, now)' = Lesser(Buffer(limit, now), c)
    BY <1>1, <2>1, SetCapType, SetCapCuts
  <2>3. Sales!Adjust
    BY <1>1, <2>1, <2>2 DEF Sales!Adjust, Sales!Lesser, Lesser
  <2> QED
    BY <2>3 DEF Sales!Limit
<1>7. ASSUME rateLimitedMinter!AdvanceTime, limit' = limit
      PROVE  bucket
  <2>1. now' = now + 1
    BY <1>7 DEF rateLimitedMinter!AdvanceTime
  <2>2. Buffer(limit, now)' = Lesser(Buffer(limit, now) + limit.rate, limit.cap)
    BY <1>1, <1>7, <2>1, BufferRefill
  <2>3. Sales!Refill
    BY <1>7, <2>2 DEF Sales!Refill, Sales!Lesser, Lesser
  <2> QED
    BY <2>3 DEF Sales!Limit
<1> HIDE DEF bucket
<1>8. ASSUME MinterSteps
      PROVE  bucket
  <2>1. limit' = limit /\ (rateLimitedMinter!AdvanceTime \/ now' = now)
    BY <1>8 DEF MinterSteps, rateLimitedMinter!Mint, rateLimitedMinter!SetBufferCap,
       rateLimitedMinter!AddAddressAsMinter, rateLimitedMinter!Register,
       rateLimitedMinter!RemoveAddress
  <2> QED
    BY <1>2, <1>7, <2>1
<1>9. ASSUME NEW caller \in Account,
             \/ \E n \in Sizes : \/ WithdrawERC20(caller, n)
                                  \/ \E d \in Deposit : WithdrawPCV(caller, d, n)
             \/ \E f \in Fees : SetMintFee(caller, f) \/ SetRedeemFee(caller, f)
             \/ \E d \in Deposit : SetPCVDeposit(caller, d)
             \/ \E what \in {"all", "redeem", "mint"} :
                  Pause(caller, what) \/ Unpause(caller, what)
      PROVE  bucket
  <2>1. now' = now /\ limit' = limit
    BY <1>9 DEF WithdrawERC20, WithdrawPCV, SetMintFee, SetRedeemFee, SetPCVDeposit, Pause,
       Unpause
  <2> QED
    BY <1>2, <2>1
<1>10. ASSUME UpdateOracle \/ UNCHANGED vars
       PROVE  bucket
  BY <1>2, <1>10 DEF UpdateOracle, vars
<1>11. bucket
  BY <1>3, <1>4, <1>5, <1>6, <1>8, <1>9, <1>10 DEF Next
<1> QED
  BY <1>11 DEF bucket

----------------------------------------------------------------------------
(* The theorems. *)

(* NonCustodialPSM.sol:302-331.  Whatever the price, the fees and the        *)
(* rounding, no trade leaves the protocol worse off at the price of the trade. *)
THEOREM NoTradeLoses == Spec => TradesNeverLose
<1>1. IInv => [(\E n \in Sizes : Mint(n) \/ Redeem(n)) => Surplus' >= Surplus]_vars
  BY TradesKeepSurplus
<1>2. IInv /\ [Next]_vars => IInv'
  BY NextStep DEF StepOK
<1> QED
  BY <1>1, <1>2, InitInvariant, PTL DEF Spec, TradesNeverLose

(* NonCustodialPSM.sol:246-263.  FEI is created only against the common buffer. *)
THEOREM FeiIsMetered == Spec => FeiComesFromBuffer
<1>1. IInv /\ [Next]_vars => [FromBuffer]_vars
  BY NextStep DEF StepOK
<1>2. IInv /\ [Next]_vars => IInv'
  BY NextStep DEF StepOK
<1>3. [FromBuffer]_vars =>
        [now' = now /\ global'.cap = global.cap =>
           (held + circulating)' - (held + circulating)
             = Buffer(global, now) - Buffer(global, now)']_vars
  BY DEF FromBuffer
<1> QED
  BY <1>1, <1>2, <1>3, InitInvariant, PTL DEF Spec, FeiComesFromBuffer

(* NonCustodialPSM.sol:207-210, 263.  Within a second, what may be sold grows  *)
(* by no more than the FEI that went out.                                      *)
THEOREM SalesAreEarned == Spec => SalesFollowPurchases
<1>1. IInv /\ [Next]_vars => [AfterPurchases]_vars
  BY NextStep DEF StepOK
<1>2. IInv /\ [Next]_vars => IInv'
  BY NextStep DEF StepOK
<1>3. [AfterPurchases]_vars =>
        [now' = now /\ limit'.cap = limit.cap =>
           Buffer(limit, now)' - Buffer(limit, now) <= circulating' - circulating]_vars
  BY DEF AfterPurchases
<1> QED
  BY <1>1, <1>2, <1>3, InitInvariant, PTL DEF Spec, SalesFollowPurchases

(* NonCustodialPSM.sol:219, 263.  The limit on sales is a bucket which time and *)
(* purchases refill and sales empty, never beyond its cap.                      *)
THEOREM SalesImplementBucket == Spec => SalesAreBucket
<1>1. Init => Sales!Full
  <2> SUFFICES ASSUME Init PROVE Sales!Full
    OBVIOUS
  <2>1. limit = [stored |-> PsmCap, cap |-> PsmCap, rate |-> PsmRate, last |-> now] /\ now = 1
    BY DEF Init, rateLimitedMinter!Init
  <2>2. PsmCap \in Nat /\ PsmRate \in Nat
    BY PsmAssumption
  <2>3. limit \in Limit /\ limit.last = now /\ now \in Nat
    BY <2>1, <2>2 DEF Limit
  <2>4. Buffer(limit, now) = Lesser(PsmCap, PsmCap)
    BY <2>1, <2>3, BufferNow
  <2> QED
    BY <2>1, <2>2, <2>4 DEF Sales!Full, Lesser
<1>2. IInv /\ [Next]_vars => [Sales!Limit \/ Sales!Replenish]_(Sales!vars)
  BY SalesStep
<1>3. IInv /\ [Next]_vars => IInv'
  BY NextStep DEF StepOK
<1> QED
  BY <1>1, <1>2, <1>3, InitInvariant, PTL DEF Spec, SalesAreBucket, Sales!ReplenishedSpec
=============================================================================
