-------------------------- MODULE TribalChiefProofs --------------------------
(***************************************************************************)
(* Nobody's stake is lost in TribalChief, and nobody's rewards, for any    *)
(* number of pools, users and deposits.  That the virtual amounts suffice  *)
(* is not inductive: it needs the types, which need in turn that the       *)
(* points add up (updatePool divides by their total) and that no update    *)
(* is ahead of the block.  Nor is it that a pool pays no more than it was  *)
(* given: what all of its users are still owed has to be covered too, and  *)
(* exactly, in units of 1 / ACC_TRIBE_PRECISION, since every harvest and   *)
(* every withdrawal rounds once (ClaimsCovered).  That all pools together  *)
(* get no more than the rate needs what each is due for the blocks since   *)
(* its last update, in units of 1 / totalAllocPoint (RateIsKept), and that *)
(* the helper leaves none of them behind when it changes rate or points.   *)
(*                                                                         *)
(* The sums over deposits are the totals below, of what each is worth.     *)
(***************************************************************************)
EXTENDS ChiefSync, ArithmeticProofs, SequenceTheorems

Pool == [allocPoint : Nat, virtualTotalSupply : Nat, lastRewardBlock : Nat,
         accTribePerShare : Nat, unlocked : BOOLEAN]
Info == [rewardDebt : Int, virtualAmount : Nat]
Record == [amount : Nat, unlockBlock : Nat, multiplier : Nat]

(* The types, but for what only is a number because sums add up. *)
Types ==
  /\ block \in 1 .. MaxBlock
  /\ tribePerBlock \in Nat /\ totalAllocPoint \in Int /\ tribe \in Nat
  /\ poolInfo \in Seq(Pool)
  /\ rewardMultipliers \in [Pools -> [Locks -> Nat]]
  /\ userInfo \in [Pools -> [User -> Info]]
  /\ depositInfo \in [Pools -> [User -> Seq(Record)]]
  /\ staked \in [Pools -> Int]
  /\ emitted \in [Pools -> Nat] /\ paid \in [Pools -> Nat] /\ roundings \in [Pools -> Nat]
  /\ paused \in BOOLEAN

(* The last update of a pool was not in a block to come. *)
UpdatesArePast == \A pid \in Pools : poolInfo[pid].lastRewardBlock \in 1 .. block

(* The sum over a list of deposits of what each is worth. *)
Total(ds, worth) == SumFunctionOnSet([i \in DOMAIN ds |-> worth[ds[i]]], DOMAIN ds)
VirtualWorth == [d \in Record |-> DepositVirtual(d)]
AmountWorth == [d \in Record |-> d.amount]

(* What a pool holds is what its users have deposited. *)
HoldingsAddUp ==
  \A pid \in Pools :
    staked[pid] = SumFunction([u \in User |-> Total(depositInfo[pid][u], AmountWorth)])

ChiefInv ==
  Types /\ UpdatesArePast /\ AllocPointsAddUp /\ VirtualAmountsSuffice /\ HoldingsAddUp

----------------------------------------------------------------------------
(* Sequences. *)

LEMMA PoolFacts ==
  ASSUME Types
  PROVE  /\ Len(poolInfo) \in Nat /\ Pools = 1 .. Len(poolInfo) /\ IsFiniteSet(Pools)
         /\ poolInfo \in [Pools -> Pool]
<1>1. poolInfo \in Seq(Pool)
  BY DEF Types
<1>2. Len(poolInfo) \in Nat /\ Pools = 1 .. Len(poolInfo) /\ poolInfo \in [Pools -> Pool]
  BY <1>1, LenProperties DEF Pools
<1>3. IsFiniteSet(1 .. Len(poolInfo))
  BY <1>2, FS_Interval
<1> QED
  BY <1>2, <1>3

LEMMA PoolsKept ==
  ASSUME Types, NEW p \in [Pools -> Pool]
  PROVE  p \in Seq(Pool) /\ DOMAIN p = Pools
<1>1. Len(poolInfo) \in Nat /\ Pools = 1 .. Len(poolInfo)
  BY PoolFacts
<1> QED
  BY <1>1, SeqDef

(* One more value of a function on 1 .. n. *)
LEMMA Appends ==
  ASSUME NEW S, NEW n \in Nat, NEW f \in [1 .. n -> S], NEW e \in S
  PROVE  /\ Append(f, e) \in [1 .. n + 1 -> S] /\ Append(f, e) \in Seq(S)
         /\ \A i \in 1 .. n : Append(f, e)[i] = f[i]
         /\ Append(f, e)[n + 1] = e
<1>1. f \in Seq(S)
  BY SeqDef
<1>2. Len(f) = n
  BY <1>1, LenProperties
<1>3. Append(f, e) \in Seq(S) /\ Len(Append(f, e)) = n + 1
  BY <1>1, <1>2, AppendProperties
<1>4. Append(f, e) \in [1 .. n + 1 -> S]
  BY <1>3, LenProperties
<1> QED
  BY <1>1, <1>2, <1>3, <1>4, AppendProperties

----------------------------------------------------------------------------
(* What is in a list of deposits. *)

(* Nothing is worth nothing. *)
LEMMA SumOfZeros ==
  ASSUME NEW f, NEW S, IsFiniteSet(S), \A x \in S : f[x] = 0
  PROVE  SumFunctionOnSet(f, S) = 0
<1>1. /\ \A x \in S : f[x] \in Int /\ f[x] = f[x] + f[x]
      /\ \A x \in S : f[x] \in Int
  OBVIOUS
<1>2. SumFunctionOnSet(f, S) \in Int
  BY <1>1, SumIsInt
<1>3. SumFunctionOnSet(f, S) = SumFunctionOnSet(f, S) + SumFunctionOnSet(f, S)
  BY <1>1, SumOfPairs
<1> QED
  BY <1>2, <1>3, TwiceItself

LEMMA MultipliedType ==
  ASSUME NEW a \in Nat, NEW m \in Nat
  PROVE  Multiplied(a, m) \in Nat
<1>1. a * m \in Nat /\ SCALE_FACTOR \in Nat \ {0}
  BY ProductType, ChiefAssumption
<1> QED
  BY <1>1, DivBounds DEF Multiplied

(* A list of deposits has finitely many terms, each worth a number. *)
LEMMA TotalTerms ==
  ASSUME NEW ds \in Seq(Record), NEW worth \in [Record -> Nat]
  PROVE  /\ Len(ds) \in Nat /\ DOMAIN ds = 1 .. Len(ds) /\ IsFiniteSet(DOMAIN ds)
         /\ \A i \in DOMAIN ds : ds[i] \in Record /\ worth[ds[i]] \in Nat
<1>1. DOMAIN ds = 1 .. Len(ds) /\ Len(ds) \in Nat /\ \A i \in DOMAIN ds : ds[i] \in Record
  BY LenProperties, ElementOfSeq
<1>2. IsFiniteSet(DOMAIN ds)
  BY <1>1, FS_Interval
<1> QED
  BY <1>1, <1>2

LEMMA TotalType ==
  ASSUME NEW ds \in Seq(Record), NEW worth \in [Record -> Nat]
  PROVE  Total(ds, worth) \in Nat
<1> DEFINE f == [i \in DOMAIN ds |-> worth[ds[i]]]
<1>1. IsFiniteSet(DOMAIN ds) /\ \A i \in DOMAIN ds : f[i] \in Nat
  BY TotalTerms
<1>2. SumFunctionOnSet(f, DOMAIN ds) \in Nat
  <2> HIDE DEF f
  <2> QED
    BY <1>1, SumIsNat
<1> QED
  BY <1>2 DEF Total

LEMMA TotalOfNone ==
  ASSUME NEW worth
  PROVE  Total(<<>>, worth) = 0
<1>1. DOMAIN <<>> = {}
  OBVIOUS
<1> QED
  BY <1>1, SumOfNone DEF Total

(* A deposit more, one that is replaced: the total changes by their worth. *)
LEMMA TotalAppends ==
  ASSUME NEW ds \in Seq(Record), NEW worth \in [Record -> Nat], NEW d \in Record
  PROVE  /\ Append(ds, d) \in Seq(Record)
         /\ Total(Append(ds, d), worth) = Total(ds, worth) + worth[d]
<1> DEFINE n == Len(ds)
           new == Append(ds, d)
           f == [i \in DOMAIN ds |-> worth[ds[i]]]
           g == [i \in DOMAIN new |-> worth[new[i]]]
<1>1. /\ n \in Nat /\ DOMAIN ds = 1 .. n /\ IsFiniteSet(1 .. n)
      /\ \A i \in 1 .. n : f[i] \in Nat
  BY TotalTerms
<1>2. /\ new \in Seq(Record) /\ DOMAIN new = 1 .. n + 1
      /\ new[n + 1] = d /\ \A i \in 1 .. n : new[i] = ds[i]
  BY AppendProperties, LenProperties
<1>3. /\ 1 .. n + 1 = (1 .. n) \cup {n + 1} /\ n + 1 \notin 1 .. n
  BY <1>1
<1>4. \A i \in 1 .. n : g[i] = f[i]
  BY <1>1, <1>2, <1>3
<1>5. g[n + 1] = worth[d] /\ worth[d] \in Nat
  BY <1>1, <1>2
<1>6. SumFunctionOnSet(g, (1 .. n) \cup {n + 1}) = g[n + 1] + SumFunctionOnSet(g, 1 .. n)
  <2>1. \A i \in (1 .. n) \cup {n + 1} : g[i] \in Int
    BY <1>1, <1>4, <1>5
  <2> HIDE DEF g, n
  <2> QED
    BY <1>1, <1>3, <2>1, SumAdds
<1>7. SumFunctionOnSet(g, 1 .. n) = SumFunctionOnSet(f, 1 .. n)
  <2> HIDE DEF f, g, n
  <2> QED
    BY <1>1, <1>4, SumAgrees
<1>8. SumFunctionOnSet(f, 1 .. n) \in Nat
  <2> HIDE DEF f, n
  <2> QED
    BY <1>1, SumIsNat
<1>9. /\ Total(new, worth) = SumFunctionOnSet(g, (1 .. n) \cup {n + 1})
      /\ Total(ds, worth) = SumFunctionOnSet(f, 1 .. n)
  BY <1>1, <1>2, <1>3 DEF Total
<1> HIDE DEF f, g, n
<1> QED
  BY <1>2, <1>5, <1>6, <1>7, <1>8, <1>9

LEMMA TotalChanges ==
  ASSUME NEW ds \in Seq(Record), NEW worth \in [Record -> Nat],
         NEW i \in DOMAIN ds, NEW d \in Record
  PROVE  /\ [ds EXCEPT ![i] = d] \in Seq(Record)
         /\ Total([ds EXCEPT ![i] = d], worth) = Total(ds, worth) - worth[ds[i]] + worth[d]
<1> DEFINE new == [ds EXCEPT ![i] = d]
           f == [j \in DOMAIN ds |-> worth[ds[j]]]
           g == [j \in DOMAIN new |-> worth[new[j]]]
<1>1. IsFiniteSet(DOMAIN ds) /\ DOMAIN ds = 1 .. Len(ds) /\ \A j \in DOMAIN ds : f[j] \in Nat
  BY TotalTerms
<1>2. new \in Seq(Record)
  BY <1>1, ExceptSeq
<1>3. DOMAIN new = DOMAIN ds /\ new[i] = d /\ \A j \in DOMAIN ds : j # i => new[j] = ds[j]
  BY <1>1, LenProperties
<1>4. f[i] = worth[ds[i]] /\ g[i] = worth[d] /\ worth[d] \in Nat
  BY <1>3
<1>5. \A j \in DOMAIN ds : f[j] \in Int /\ g[j] \in Int /\ (j # i => g[j] = f[j])
  BY <1>1, <1>3, <1>4
<1>6. SumFunctionOnSet(g, DOMAIN ds) = SumFunctionOnSet(f, DOMAIN ds) - f[i] + g[i]
  <2> HIDE DEF f, g, new
  <2>1. ASSUME NEW S, S = DOMAIN ds, NEW F, NEW G, F = f, G = g, NEW y, y = i
        PROVE SumFunctionOnSet(G, S) = SumFunctionOnSet(F, S) - F[y] + G[y]
    <3>1. IsFiniteSet(S) /\ y \in S /\ \A x \in S : F[x] \in Int /\ G[x] \in Int /\ (x # y => G[x] = F[x])
      BY <1>1, <1>5, <2>1
    <3> QED
      BY ONLY <3>1, SumChanges
  <2> QED
    BY <2>1
<1>7. /\ Total(new, worth) = SumFunctionOnSet(g, DOMAIN ds)
      /\ Total(ds, worth) = SumFunctionOnSet(f, DOMAIN ds)
  BY <1>3 DEF Total
<1> QED
  BY <1>2, <1>4, <1>6, <1>7

(* Those in T become worthless. *)
LEMMA TotalDrops ==
  ASSUME NEW ds \in Seq(Record), NEW worth \in [Record -> Nat],
         NEW T \in SUBSET DOMAIN ds, NEW new \in [DOMAIN ds -> Record],
         \A i \in T : worth[new[i]] = 0,
         \A i \in DOMAIN ds \ T : new[i] = ds[i],
         NEW t, \A i \in T : t[i] = worth[ds[i]]
  PROVE  /\ new \in Seq(Record)
         /\ Total(new, worth) = Total(ds, worth) - SumFunctionOnSet(t, T)
         /\ SumFunctionOnSet(t, T) \in Nat
<1> DEFINE f == [i \in DOMAIN ds |-> worth[ds[i]]]
           g == [i \in DOMAIN ds |-> worth[new[i]]]
           h == [i \in DOMAIN ds |-> IF i \in T THEN worth[ds[i]] ELSE 0]
           U == DOMAIN ds \ T
<1>1. /\ IsFiniteSet(DOMAIN ds) /\ DOMAIN ds = 1 .. Len(ds) /\ Len(ds) \in Nat
      /\ \A i \in DOMAIN ds : ds[i] \in Record /\ f[i] \in Nat
  BY TotalTerms
<1>2. new \in Seq(Record) /\ DOMAIN new = DOMAIN ds
  <2>1. new \in [1 .. Len(ds) -> Record]
    BY <1>1
  <2> QED
    BY <1>1, <2>1, SeqDef
<1>3. /\ \A i \in T : g[i] = 0 /\ t[i] = f[i]
      /\ \A i \in U : g[i] = f[i]
  OBVIOUS
<1>4. \A i \in DOMAIN ds : g[i] \in Nat
  BY <1>1, <1>3
<1>5. IsFiniteSet(T) /\ IsFiniteSet(U) /\ T \cap U = {} /\ T \cup U = DOMAIN ds
  BY <1>1, FS_Subset
<1> HIDE DEF f, g, U
<1>6. /\ SumFunctionOnSet(f, T \cup U) = SumFunctionOnSet(f, T) + SumFunctionOnSet(f, U)
      /\ SumFunctionOnSet(g, T \cup U) = SumFunctionOnSet(g, T) + SumFunctionOnSet(g, U)
  <2>1. \A i \in T \cup U : f[i] \in Int /\ g[i] \in Int
    BY <1>1, <1>4, <1>5
  <2> QED
    BY <1>5, <2>1, SumOfUnion
<1>7. SumFunctionOnSet(g, U) = SumFunctionOnSet(f, U)
  BY <1>3, <1>5, SumAgrees
<1>8. SumFunctionOnSet(t, T) = SumFunctionOnSet(f, T)
  BY <1>3, <1>5, SumAgrees
<1>9. SumFunctionOnSet(g, T) = 0
  BY <1>3, <1>5, SumOfZeros
<1>10. SumFunctionOnSet(f, T) \in Nat /\ SumFunctionOnSet(f, U) \in Nat
  <2>1. \A i \in T \cup U : f[i] \in Nat
    BY <1>1, <1>5
  <2> QED
    BY <1>5, <2>1, SumIsNat
<1>11. /\ Total(new, worth) = SumFunctionOnSet(g, T \cup U)
       /\ Total(ds, worth) = SumFunctionOnSet(f, T \cup U)
  <2>1. /\ Total(new, worth) = SumFunctionOnSet(g, DOMAIN ds)
        /\ Total(ds, worth) = SumFunctionOnSet(f, DOMAIN ds)
    BY <1>2 DEF Total, f, g
  <2> QED
    BY <1>5, <2>1
<1> QED
  BY <1>2, <1>6, <1>7, <1>8, <1>9, <1>10, <1>11

(* Both worths are numbers. *)
LEMMA WorthTypes ==
  VirtualWorth \in [Record -> Nat] /\ AmountWorth \in [Record -> Nat]
<1>1. ASSUME NEW d \in Record PROVE DepositVirtual(d) \in Nat /\ d.amount \in Nat
  <2>1. d.amount \in Nat /\ d.multiplier \in Nat
    BY DEF Record
  <2> QED
    BY <2>1, MultipliedType DEF DepositVirtual
<1> QED
  BY <1>1 DEF VirtualWorth, AmountWorth

(* The sums of the model in these terms. *)
LEMMA SumsAreTotals ==
  ASSUME NEW ds \in Seq(Record)
  PROVE  /\ SumOver(ds, DepositVirtual) = Total(ds, VirtualWorth)
         /\ SumOver(ds, LAMBDA d : d.amount) = Total(ds, AmountWorth)
<1>1. \A i \in DOMAIN ds : ds[i] \in Record
  BY TotalTerms, WorthTypes
<1>2. /\ [i \in DOMAIN ds |-> DepositVirtual(ds[i])] = [i \in DOMAIN ds |-> VirtualWorth[ds[i]]]
      /\ [i \in DOMAIN ds |-> ds[i].amount] = [i \in DOMAIN ds |-> AmountWorth[ds[i]]]
  BY <1>1 DEF VirtualWorth, AmountWorth
<1>3. /\ SumOver(ds, DepositVirtual)
           = SumFunctionOnSet([i \in DOMAIN ds |-> DepositVirtual(ds[i])], DOMAIN ds)
      /\ SumOver(ds, LAMBDA d : d.amount)
           = SumFunctionOnSet([i \in DOMAIN ds |-> ds[i].amount], DOMAIN ds)
  BY DEF SumOver, SumFunction
<1> QED
  BY <1>2, <1>3 DEF Total

----------------------------------------------------------------------------
(* updatePool *)

(* A sum of points of pools is a number, though set and resetRewards subtract. *)
LEMMA PointsType ==
  ASSUME Types, AllocPointsAddUp
  PROVE  totalAllocPoint \in Nat
<1> DEFINE f == [i \in Pools |-> poolInfo[i].allocPoint]
<1>1. IsFiniteSet(Pools) /\ \A i \in Pools : f[i] \in Nat
  BY PoolFacts DEF Pool
<1>2. totalAllocPoint = SumFunctionOnSet(f, Pools)
  BY DEF AllocPointsAddUp, SumOver, SumFunction, Pools
<1>3. SumFunctionOnSet(f, Pools) \in Nat
  <2> HIDE DEF f
  <2> QED
    BY <1>1, SumIsNat
<1> QED
  BY <1>2, <1>3

(* What a pool is given is a number: it was not updated in a block to come. *)
LEMMA RewardType ==
  ASSUME Types, UpdatesArePast, AllocPointsAddUp, NEW pid \in Pools
  PROVE  TribeReward(pid) \in Nat
<1>1. poolInfo[pid] \in Pool
  BY PoolFacts
<1> DEFINE since == block - poolInfo[pid].lastRewardBlock
           points == poolInfo[pid].allocPoint
<1>2. since \in Nat /\ tribePerBlock \in Nat /\ points \in Nat
  <2>1. block \in Nat /\ tribePerBlock \in Nat
    BY ChiefAssumption DEF Types
  <2>2. poolInfo[pid].lastRewardBlock \in 1 .. block
    BY DEF UpdatesArePast
  <2>3. points \in Nat
    BY <1>1 DEF Pool
  <2> HIDE DEF points
  <2> QED
    BY <2>1, <2>2, <2>3
<1> HIDE DEF since, points
<1>3. since * tribePerBlock * points \in Nat
  <2> DEFINE given == since * tribePerBlock
  <2>1. given \in Nat
    BY <1>2, ProductType
  <2> HIDE DEF given
  <2>2. given * points \in Nat
    BY <1>2, <2>1, ProductType
  <2> QED
    BY <2>2 DEF given
<1>4. totalAllocPoint \in Nat
  BY PointsType
<1>5. totalAllocPoint # 0 => (since * tribePerBlock * points) \div totalAllocPoint \in Nat
  BY <1>3, <1>4, DivBounds
<1> QED
  BY <1>5 DEF TribeReward, since, points

(* updatePool changes lastRewardBlock and accTribePerShare only. *)
LEMMA UpdatedPoolType ==
  ASSUME Types, UpdatesArePast, AllocPointsAddUp, NEW pid \in Pools
  PROVE  /\ UpdatedPool(pid) \in Pool
         /\ UpdatedPool(pid).allocPoint = poolInfo[pid].allocPoint
         /\ UpdatedPool(pid).virtualTotalSupply = poolInfo[pid].virtualTotalSupply
         /\ UpdatedPool(pid).unlocked = poolInfo[pid].unlocked
         /\ UpdatedPool(pid).lastRewardBlock = block
         /\ EmittedBy(pid) \in [Pools -> Nat]
<1>1. poolInfo[pid] \in Pool /\ TribeReward(pid) \in Nat
  BY PoolFacts, RewardType
<1> DEFINE supply == poolInfo[pid].virtualTotalSupply
           perShare == IF TribeReward(pid) = 0 THEN 0
                       ELSE (TribeReward(pid) * ACC_TRIBE_PRECISION) \div supply
<1>2. perShare \in Nat
  <2>1. CASE TribeReward(pid) = 0
    BY <2>1
  <2>2. CASE TribeReward(pid) # 0
    <3>1. supply > 0 /\ supply \in Nat
      BY <1>1, <2>2 DEF TribeReward, Pool
    <3>2. TribeReward(pid) * ACC_TRIBE_PRECISION \in Nat
      BY <1>1, ProductType, ChiefAssumption
    <3>3. (TribeReward(pid) * ACC_TRIBE_PRECISION) \div supply \in Nat
      BY <3>1, <3>2, DivBounds
    <3> QED
      BY <2>2, <3>3
  <2> QED
    BY <2>1, <2>2
<1>3. UpdatedPool(pid) = [poolInfo[pid] EXCEPT !.accTribePerShare = @ + perShare,
                                               !.lastRewardBlock = block]
  BY DEF UpdatedPool
<1> HIDE DEF perShare
<1>4. block \in Nat /\ emitted \in [Pools -> Nat]
  BY DEF Types
<1>5. EmittedBy(pid) \in [Pools -> Nat]
  BY <1>1, <1>4 DEF EmittedBy
<1>6. /\ poolInfo[pid].accTribePerShare + perShare \in Nat
      /\ poolInfo[pid] = [allocPoint |-> poolInfo[pid].allocPoint,
           virtualTotalSupply |-> poolInfo[pid].virtualTotalSupply,
           lastRewardBlock |-> poolInfo[pid].lastRewardBlock,
           accTribePerShare |-> poolInfo[pid].accTribePerShare,
           unlocked |-> poolInfo[pid].unlocked]
  BY <1>1, <1>2 DEF Pool
<1>7. UpdatedPool(pid) = [allocPoint |-> poolInfo[pid].allocPoint,
        virtualTotalSupply |-> poolInfo[pid].virtualTotalSupply,
        lastRewardBlock |-> block,
        accTribePerShare |-> poolInfo[pid].accTribePerShare + perShare,
        unlocked |-> poolInfo[pid].unlocked]
  BY <1>3, <1>6
<1> QED
  BY <1>1, <1>4, <1>5, <1>6, <1>7 DEF Pool

----------------------------------------------------------------------------
(* What transactions change. *)

(* Those of users: the stake of u in pid.  Nobody gains virtual amounts      *)
(* beyond what the pool gains.                                               *)
UserStep(u, pid, info, ds) ==
  /\ userInfo' = [userInfo EXCEPT ![pid] = [userInfo[pid] EXCEPT ![u] = info]]
  /\ depositInfo' = [depositInfo EXCEPT ![pid] = [depositInfo[pid] EXCEPT ![u] = ds]]
  /\ poolInfo' \in [Pools -> Pool]
  /\ \A i \in Pools \ {pid} : poolInfo'[i] = poolInfo[i]
  /\ poolInfo'[pid].lastRewardBlock = block
  /\ poolInfo'[pid].allocPoint = poolInfo[pid].allocPoint
  /\ poolInfo'[pid].virtualTotalSupply - info.virtualAmount
       >= poolInfo[pid].virtualTotalSupply - userInfo[pid][u].virtualAmount
  /\ Total(ds, VirtualWorth) <= info.virtualAmount
  /\ staked' = [staked EXCEPT ![pid] =
       staked[pid] - Total(depositInfo[pid][u], AmountWorth) + Total(ds, AmountWorth)]
  /\ emitted' \in [Pools -> Nat] /\ paid' \in [Pools -> Nat] /\ roundings' \in [Pools -> Nat]
  /\ tribe' \in Nat
  /\ UNCHANGED <<block, settings, paused>>

(* All others: pools are updated and administered. *)
PoolStep ==
  /\ poolInfo' \in [Pools -> Pool]
  /\ \A i \in Pools : /\ poolInfo'[i].virtualTotalSupply = poolInfo[i].virtualTotalSupply
                      /\ poolInfo'[i].lastRewardBlock \in 1 .. block'
  /\ block' \in 1 .. MaxBlock
  /\ tribePerBlock' \in Nat /\ totalAllocPoint' \in Int /\ tribe' \in Nat /\ paused' \in BOOLEAN
  /\ rewardMultipliers' \in [Pools -> [Locks -> Nat]]
  /\ emitted' \in [Pools -> Nat]
  /\ UNCHANGED <<userInfo, depositInfo, staked, paid, roundings>>

(* The total of the points, as a sum *)
LEMMA PointsAsSum ==
  AllocPointsAddUp <=>
    totalAllocPoint = SumFunctionOnSet([i \in Pools |-> poolInfo[i].allocPoint], Pools)
BY DEF AllocPointsAddUp, SumOver, SumFunction, Pools

(* An administrative step keeps the invariant if the points still add up. *)
LEMMA PoolStepKeeps ==
  ASSUME ChiefInv, PoolStep, AllocPointsAddUp'
  PROVE  ChiefInv'
<1>1. Pools' = Pools /\ poolInfo' \in Seq(Pool)
  BY PoolsKept DEF ChiefInv, PoolStep, Pools
<1>2. Types'
  BY <1>1 DEF ChiefInv, PoolStep, Types, Pool
<1>3. UpdatesArePast'
  BY <1>1 DEF PoolStep, UpdatesArePast
<1>4. VirtualAmountsSuffice'
  BY <1>1 DEF ChiefInv, PoolStep, VirtualAmountsSuffice
<1>5. HoldingsAddUp'
  BY <1>1 DEF ChiefInv, PoolStep, HoldingsAddUp
<1> QED
  BY <1>2, <1>3, <1>4, <1>5 DEF ChiefInv

(* The sum over users when the value of one changes. *)
LEMMA UserSumChanges ==
  ASSUME NEW f \in [User -> Int], NEW g \in [User -> Int], NEW y \in User,
         \A x \in User \ {y} : g[x] = f[x]
  PROVE  /\ SumFunction(g) = SumFunction(f) - f[y] + g[y]
         /\ SumFunction(f) \in Int /\ SumFunction(g) \in Int
<1>1. SumFunction(f) = SumFunctionOnSet(f, User) /\ SumFunction(g) = SumFunctionOnSet(g, User)
  BY DEF SumFunction
<1>2. /\ IsFiniteSet(User)
      /\ \A x \in User : f[x] \in Int /\ g[x] \in Int /\ (x # y => g[x] = f[x])
  BY ChiefAssumption
<1>3. SumFunctionOnSet(g, User) = SumFunctionOnSet(f, User) - f[y] + g[y]
  BY <1>2, SumChanges
<1>4. SumFunctionOnSet(f, User) \in Int /\ SumFunctionOnSet(g, User) \in Int
  BY <1>2, SumIsInt
<1> QED
  BY <1>1, <1>3, <1>4

(* What a UserStep changes and what it leaves alone *)
LEMMA UserStepTypes ==
  ASSUME ChiefInv, NEW u \in User, NEW pid \in Pools, NEW info \in Info,
         NEW ds \in Seq(Record), UserStep(u, pid, info, ds)
  PROVE  /\ Pools' = Pools /\ Types' /\ UpdatesArePast' /\ AllocPointsAddUp'
         /\ userInfo'[pid][u] = info /\ depositInfo'[pid][u] = ds
         /\ \A i \in Pools, v \in User : i # pid \/ v # u =>
              userInfo'[i][v] = userInfo[i][v] /\ depositInfo'[i][v] = depositInfo[i][v]
<1>1. Pools' = Pools /\ poolInfo' \in Seq(Pool)
  BY PoolsKept DEF ChiefInv, UserStep, Pools
<1>2. Types
  BY DEF ChiefInv
<1>3. /\ userInfo'[pid][u] = info /\ depositInfo'[pid][u] = ds
      /\ \A i \in Pools, v \in User : i # pid \/ v # u =>
           userInfo'[i][v] = userInfo[i][v] /\ depositInfo'[i][v] = depositInfo[i][v]
  BY <1>2 DEF UserStep, Types
<1>4. /\ userInfo' \in [Pools -> [User -> Info]]
      /\ depositInfo' \in [Pools -> [User -> Seq(Record)]]
  BY <1>2 DEF UserStep, Types
<1>5. staked' \in [Pools -> Int]
  <2>1. depositInfo[pid][u] \in Seq(Record)
    BY <1>2 DEF Types
  <2>2. Total(depositInfo[pid][u], AmountWorth) \in Nat /\ Total(ds, AmountWorth) \in Nat
    BY <2>1, WorthTypes, TotalType
  <2>3. staked \in [Pools -> Int]
    BY <1>2 DEF Types
  <2> DEFINE worth == staked[pid] - Total(depositInfo[pid][u], AmountWorth) + Total(ds, AmountWorth)
  <2>4. worth \in Int
    BY <2>2, <2>3
  <2>5. staked' = [staked EXCEPT ![pid] = worth]
    BY DEF UserStep
  <2> HIDE DEF worth
  <2> QED
    BY <2>3, <2>4, <2>5
<1>6. Types'
  BY <1>1, <1>2, <1>4, <1>5 DEF UserStep, settings, Types
<1>7. UpdatesArePast'
  <2>1. block' = block /\ block \in Nat /\ block >= 1
    BY <1>2, ChiefAssumption DEF UserStep, Types
  <2>2. ASSUME NEW i \in Pools PROVE poolInfo'[i].lastRewardBlock \in 1 .. block
    <3>1. CASE i = pid
      BY <2>1, <3>1 DEF UserStep
    <3>2. CASE i # pid
      BY <3>2 DEF ChiefInv, UserStep, UpdatesArePast
    <3> QED
      BY <3>1, <3>2
  <2> QED
    BY <1>1, <2>1, <2>2 DEF UpdatesArePast
<1>8. AllocPointsAddUp'
  <2>1. [i \in Pools |-> poolInfo'[i].allocPoint] = [i \in Pools |-> poolInfo[i].allocPoint]
    BY DEF UserStep
  <2>2. totalAllocPoint' = totalAllocPoint
    BY DEF UserStep, settings
  <2>3. totalAllocPoint = SumFunctionOnSet([i \in Pools |-> poolInfo[i].allocPoint], Pools)
    BY PointsAsSum DEF ChiefInv
  <2>4. AllocPointsAddUp' <=> totalAllocPoint'
            = SumFunctionOnSet([i \in Pools' |-> poolInfo'[i].allocPoint], Pools')
    BY DEF AllocPointsAddUp, SumOver, SumFunction, Pools
  <2> QED
    BY <1>1, <2>1, <2>2, <2>3, <2>4
<1> QED
  BY <1>1, <1>3, <1>6, <1>7, <1>8

(* It keeps both sums over users: each changes in the term of u only. *)
LEMMA UserStepKeeps ==
  ASSUME ChiefInv, NEW u \in User, NEW pid \in Pools, NEW info \in Info,
         NEW ds \in Seq(Record), UserStep(u, pid, info, ds)
  PROVE  ChiefInv'
<1>1. /\ Pools' = Pools /\ Types' /\ UpdatesArePast' /\ AllocPointsAddUp'
      /\ userInfo'[pid][u] = info /\ depositInfo'[pid][u] = ds
      /\ \A i \in Pools, v \in User : i # pid \/ v # u =>
           userInfo'[i][v] = userInfo[i][v] /\ depositInfo'[i][v] = depositInfo[i][v]
  BY UserStepTypes
<1>2. Types
  BY DEF ChiefInv
<1>3. VirtualAmountsSuffice'
  <2> DEFINE f(i) == [v \in User |-> userInfo[i][v].virtualAmount]
             g(i) == [v \in User |-> userInfo'[i][v].virtualAmount]
  <2>1. ASSUME NEW i \in Pools
        PROVE  SumFunction(g(i)) <= poolInfo'[i].virtualTotalSupply
    <3>1. SumFunction(f(i)) <= poolInfo[i].virtualTotalSupply
      BY DEF ChiefInv, VirtualAmountsSuffice
    <3>2. CASE i # pid
      <4>1. f(i) = g(i) /\ poolInfo'[i] = poolInfo[i]
        BY <1>1, <3>2 DEF UserStep
      <4> QED
        BY <3>1, <4>1
    <3>3. CASE i = pid
      <4>1. /\ f(i) \in [User -> Int] /\ g(i) \in [User -> Int]
            /\ \A v \in User \ {u} : g(i)[v] = f(i)[v]
        <5>1. \A v \in User : userInfo[i][v] \in Info /\ userInfo'[i][v] \in Info
          BY <1>1, <1>2, <3>3 DEF Types
        <5>2. \A v \in User : f(i)[v] \in Int /\ g(i)[v] \in Int
          BY <5>1 DEF Info
        <5>3. \A v \in User \ {u} : g(i)[v] = f(i)[v]
          BY <1>1, <3>3
        <5> QED
          BY <5>2, <5>3
      <4>2. f(i)[u] = userInfo[pid][u].virtualAmount /\ g(i)[u] = info.virtualAmount
        BY <1>1, <3>3
      <4> HIDE DEF f, g
      <4>3. /\ SumFunction(g(i)) = SumFunction(f(i)) - f(i)[u] + g(i)[u]
            /\ SumFunction(f(i)) \in Int
        BY <4>1, UserSumChanges
      <4>4. poolInfo'[pid].virtualTotalSupply - g(i)[u]
              >= poolInfo[pid].virtualTotalSupply - f(i)[u]
        BY <4>2 DEF UserStep
      <4>5. /\ poolInfo'[pid].virtualTotalSupply \in Int /\ poolInfo[pid].virtualTotalSupply \in Int
            /\ f(i)[u] \in Int /\ g(i)[u] \in Int
        BY <1>2, <4>1, PoolFacts DEF UserStep, Pool
      <4> QED
        BY <3>1, <3>3, <4>3, <4>4, <4>5
    <3> QED
      BY <3>2, <3>3
  <2>2. ASSUME NEW i \in Pools, NEW v \in User
        PROVE  SumOver(depositInfo'[i][v], DepositVirtual) <= userInfo'[i][v].virtualAmount
    <3>1. CASE i = pid /\ v = u
      <4>1. SumOver(ds, DepositVirtual) = Total(ds, VirtualWorth)
        BY SumsAreTotals
      <4>2. SumOver(ds, DepositVirtual) <= info.virtualAmount
        BY <4>1 DEF UserStep
      <4>3. depositInfo'[i][v] = ds /\ userInfo'[i][v] = info
        BY <1>1, <3>1
      <4> QED
        BY <4>2, <4>3
    <3>2. CASE i # pid \/ v # u
      <4>1. userInfo'[i][v] = userInfo[i][v] /\ depositInfo'[i][v] = depositInfo[i][v]
        BY <1>1, <3>2
      <4>2. SumOver(depositInfo[i][v], DepositVirtual) <= userInfo[i][v].virtualAmount
        BY DEF ChiefInv, VirtualAmountsSuffice
      <4> QED
        BY <4>1, <4>2
    <3> QED
      BY <3>1, <3>2
  <2> QED
    BY <1>1, <2>1, <2>2 DEF VirtualAmountsSuffice
<1>4. HoldingsAddUp'
  <2> DEFINE f(i) == [v \in User |-> Total(depositInfo[i][v], AmountWorth)]
             g(i) == [v \in User |-> Total(depositInfo'[i][v], AmountWorth)]
  <2>1. ASSUME NEW i \in Pools
        PROVE  staked'[i] = SumFunction(g(i))
    <3>1. staked[i] = SumFunction(f(i))
      BY DEF ChiefInv, HoldingsAddUp
    <3>2. CASE i # pid
      <4>1. f(i) = g(i) /\ staked'[i] = staked[i]
        BY <1>1, <1>2, <3>2 DEF UserStep, Types
      <4> QED
        BY <3>1, <4>1
    <3>3. CASE i = pid
      <4>1. /\ f(i) \in [User -> Int] /\ g(i) \in [User -> Int]
            /\ \A v \in User \ {u} : g(i)[v] = f(i)[v]
        <5>1. \A v \in User : depositInfo[i][v] \in Seq(Record) /\ depositInfo'[i][v] \in Seq(Record)
          BY <1>1, <1>2, <3>3 DEF Types
        <5>2. \A v \in User : f(i)[v] \in Nat /\ g(i)[v] \in Nat
          BY <5>1, WorthTypes, TotalType
        <5>3. \A v \in User \ {u} : g(i)[v] = f(i)[v]
          BY <1>1, <3>3
        <5> QED
          BY <5>2, <5>3
      <4>2. /\ f(i)[u] = Total(depositInfo[pid][u], AmountWorth)
            /\ g(i)[u] = Total(ds, AmountWorth)
        BY <1>1, <3>3
      <4> HIDE DEF f, g
      <4>3. /\ SumFunction(g(i)) = SumFunction(f(i)) - f(i)[u] + g(i)[u]
            /\ SumFunction(f(i)) \in Int
        BY <4>1, UserSumChanges
      <4>4. staked'[i] = staked[i] - f(i)[u] + g(i)[u]
        BY <1>2, <3>3, <4>2 DEF UserStep, Types
      <4> QED
        BY <3>1, <4>3, <4>4
    <3> QED
      BY <3>2, <3>3
  <2> QED
    BY <1>1, <2>1 DEF HoldingsAddUp
<1> QED
  BY <1>1, <1>3, <1>4 DEF ChiefInv

(* The points of one pool change, and the total by as much. *)
LEMMA PointsChange ==
  ASSUME Types, AllocPointsAddUp, poolInfo' \in [Pools -> Pool], NEW pid \in Pools,
         \A i \in Pools \ {pid} : poolInfo'[i].allocPoint = poolInfo[i].allocPoint,
         totalAllocPoint'
           = totalAllocPoint - poolInfo[pid].allocPoint + poolInfo'[pid].allocPoint
  PROVE  AllocPointsAddUp'
<1> DEFINE f == [i \in Pools |-> poolInfo[i].allocPoint]
           g == [i \in Pools |-> poolInfo'[i].allocPoint]
<1>1. /\ IsFiniteSet(Pools)
      /\ \A i \in Pools : f[i] \in Int /\ g[i] \in Int /\ (i # pid => g[i] = f[i])
  BY PoolFacts DEF Pool
<1>2. totalAllocPoint = SumFunctionOnSet(f, Pools)
  BY PointsAsSum
<1>3. Pools' = Pools
  BY PoolsKept DEF Pools
<1>4. AllocPointsAddUp' <=> totalAllocPoint' = SumFunctionOnSet(g, Pools)
  BY <1>3 DEF AllocPointsAddUp, SumOver, SumFunction, Pools
<1>5. totalAllocPoint' = totalAllocPoint - f[pid] + g[pid]
  OBVIOUS
<1>6. SumFunctionOnSet(g, Pools) = SumFunctionOnSet(f, Pools) - f[pid] + g[pid]
  <2> HIDE DEF f, g
  <2> QED
    BY <1>1, SumChanges
<1> QED
  BY <1>2, <1>4, <1>5, <1>6

LEMMA PointsKept ==
  ASSUME Types, AllocPointsAddUp, poolInfo' \in [Pools -> Pool],
         \A i \in Pools : poolInfo'[i].allocPoint = poolInfo[i].allocPoint,
         totalAllocPoint' = totalAllocPoint
  PROVE  AllocPointsAddUp'
<1>1. Pools' = Pools
  BY PoolsKept DEF Pools
<1>2. [i \in Pools |-> poolInfo'[i].allocPoint] = [i \in Pools |-> poolInfo[i].allocPoint]
  OBVIOUS
<1>3. totalAllocPoint = SumFunctionOnSet([i \in Pools |-> poolInfo[i].allocPoint], Pools)
  BY PointsAsSum
<1>4. AllocPointsAddUp' <=>
        totalAllocPoint' = SumFunctionOnSet([i \in Pools' |-> poolInfo'[i].allocPoint], Pools')
  BY DEF AllocPointsAddUp, SumOver, SumFunction, Pools
<1> QED
  BY <1>1, <1>2, <1>3, <1>4

(* An update of pools that keeps the books is a PoolStep. *)
LEMMA AdministrationKeeps ==
  ASSUME ChiefInv, poolInfo' \in [Pools -> Pool],
         \A i \in Pools :
           /\ poolInfo'[i].allocPoint = poolInfo[i].allocPoint
           /\ poolInfo'[i].virtualTotalSupply = poolInfo[i].virtualTotalSupply
           /\ poolInfo'[i].lastRewardBlock \in 1 .. block',
         block' \in 1 .. MaxBlock, tribePerBlock' \in Nat, tribe' \in Nat, paused' \in BOOLEAN,
         rewardMultipliers' \in [Pools -> [Locks -> Nat]], emitted' \in [Pools -> Nat],
         UNCHANGED <<totalAllocPoint, userInfo, depositInfo, staked, paid, roundings>>
  PROVE  ChiefInv'
<1>1. AllocPointsAddUp'
  BY PointsKept DEF ChiefInv
<1>2. PoolStep
  BY DEF ChiefInv, PoolStep, Types
<1> QED
  BY <1>1, <1>2, PoolStepKeeps

(* Transactions that leave pools and blocks alone *)
LEMMA PoolsStay ==
  ASSUME ChiefInv, UNCHANGED <<poolInfo, block>>
  PROVE  /\ poolInfo' \in [Pools -> Pool]
         /\ \A i \in Pools :
              /\ poolInfo'[i].allocPoint = poolInfo[i].allocPoint
              /\ poolInfo'[i].virtualTotalSupply = poolInfo[i].virtualTotalSupply
              /\ poolInfo'[i].lastRewardBlock \in 1 .. block'
BY PoolFacts DEF ChiefInv, UpdatesArePast

LEMMA UpdateBlockRewardKeeps ==
  ASSUME ChiefInv, NEW caller, NEW r \in Rewards, UpdateBlockReward(caller, r)
  PROVE  ChiefInv'
<1>1. r \in Nat
  BY ChiefAssumption
<1>2. Types /\ UNCHANGED <<poolInfo, block>>
  BY DEF ChiefInv, UpdateBlockReward, UpdateBlockRewardOf
<1>3. /\ block' \in 1 .. MaxBlock /\ tribePerBlock' \in Nat /\ tribe' \in Nat /\ paused' \in BOOLEAN
      /\ rewardMultipliers' \in [Pools -> [Locks -> Nat]] /\ emitted' \in [Pools -> Nat]
      /\ UNCHANGED <<totalAllocPoint, userInfo, depositInfo, staked, paid, roundings>>
  BY <1>1, <1>2 DEF UpdateBlockReward, UpdateBlockRewardOf, Types, books
<1> QED
  BY <1>2, <1>3, PoolsStay, AdministrationKeeps

LEMMA GovernorWithdrawTribeKeeps ==
  ASSUME ChiefInv, NEW caller, NEW n \in TribeAmounts, GovernorWithdrawTribe(caller, n)
  PROVE  ChiefInv'
<1>1. n \in Nat
  BY ChiefAssumption
<1>2. Types /\ UNCHANGED <<poolInfo, block>>
  BY DEF ChiefInv, GovernorWithdrawTribe
<1>3. /\ block' \in 1 .. MaxBlock /\ tribePerBlock' \in Nat /\ tribe' \in Nat /\ paused' \in BOOLEAN
      /\ rewardMultipliers' \in [Pools -> [Locks -> Nat]] /\ emitted' \in [Pools -> Nat]
      /\ UNCHANGED <<totalAllocPoint, userInfo, depositInfo, staked, paid, roundings>>
  BY <1>1, <1>2 DEF GovernorWithdrawTribe, Types, settings
<1> QED
  BY <1>2, <1>3, PoolsStay, AdministrationKeeps

LEMMA PauseKeeps ==
  ASSUME ChiefInv, NEW caller, Pause(caller)
  PROVE  ChiefInv'
<1>1. Types /\ UNCHANGED <<poolInfo, block>>
  BY DEF ChiefInv, Pause
<1>2. /\ block' \in 1 .. MaxBlock /\ tribePerBlock' \in Nat /\ tribe' \in Nat /\ paused' \in BOOLEAN
      /\ rewardMultipliers' \in [Pools -> [Locks -> Nat]] /\ emitted' \in [Pools -> Nat]
      /\ UNCHANGED <<totalAllocPoint, userInfo, depositInfo, staked, paid, roundings>>
  BY <1>1 DEF Pause, Types, settings, books
<1> QED
  BY <1>1, <1>2, PoolsStay, AdministrationKeeps

LEMMA AdvanceBlockKeeps ==
  ASSUME ChiefInv, AdvanceBlock
  PROVE  ChiefInv'
<1>1. Types /\ UpdatesArePast /\ poolInfo \in [Pools -> Pool] /\ MaxBlock \in Nat
  BY PoolFacts, ChiefAssumption DEF ChiefInv
<1>2. /\ block' \in 1 .. MaxBlock /\ tribePerBlock' \in Nat /\ tribe' \in Nat /\ paused' \in BOOLEAN
      /\ rewardMultipliers' \in [Pools -> [Locks -> Nat]] /\ emitted' \in [Pools -> Nat]
      /\ UNCHANGED <<totalAllocPoint, poolInfo, userInfo, depositInfo, staked, paid, roundings>>
  BY <1>1 DEF AdvanceBlock, Types, settings, books
<1>3. 1 .. block \subseteq 1 .. block'
  BY <1>1 DEF AdvanceBlock, Types
<1>4. /\ poolInfo' \in [Pools -> Pool]
      /\ \A i \in Pools :
           /\ poolInfo'[i].allocPoint = poolInfo[i].allocPoint
           /\ poolInfo'[i].virtualTotalSupply = poolInfo[i].virtualTotalSupply
           /\ poolInfo'[i].lastRewardBlock \in 1 .. block'
  BY <1>1, <1>2, <1>3 DEF UpdatesArePast
<1> QED
  BY <1>2, <1>4, AdministrationKeeps

LEMMA LockPoolKeeps ==
  ASSUME ChiefInv, NEW caller, NEW pid \in Pools, NEW unlocked \in BOOLEAN,
         LockPool(caller, pid, unlocked)
  PROVE  ChiefInv'
<1>1. Types /\ UpdatesArePast /\ poolInfo \in [Pools -> Pool]
  BY PoolFacts DEF ChiefInv
<1>2. /\ block' = block /\ block' \in 1 .. MaxBlock
      /\ tribePerBlock' \in Nat /\ tribe' \in Nat /\ paused' \in BOOLEAN
      /\ rewardMultipliers' \in [Pools -> [Locks -> Nat]] /\ emitted' \in [Pools -> Nat]
      /\ UNCHANGED <<totalAllocPoint, userInfo, depositInfo, staked, paid, roundings>>
  BY <1>1 DEF LockPool, Types, settings, books
<1>3. /\ poolInfo' \in [Pools -> Pool]
      /\ \A i \in Pools :
           /\ poolInfo'[i].allocPoint = poolInfo[i].allocPoint
           /\ poolInfo'[i].virtualTotalSupply = poolInfo[i].virtualTotalSupply
           /\ poolInfo'[i].lastRewardBlock \in 1 .. block'
  BY <1>1, <1>2 DEF LockPool, UpdatesArePast, Pool
<1> QED
  BY <1>2, <1>3, AdministrationKeeps

LEMMA GovernorAddPoolMultiplierKeeps ==
  ASSUME ChiefInv, NEW caller, NEW pid \in Pools, NEW lock \in Locks, NEW m \in Multipliers,
         GovernorAddPoolMultiplier(caller, pid, lock, m)
  PROVE  ChiefInv'
<1>1. /\ Types /\ UpdatesArePast /\ poolInfo \in [Pools -> Pool] /\ m \in Nat
  BY PoolFacts, ChiefAssumption DEF ChiefInv
<1>2. PICK unlocked \in BOOLEAN : poolInfo' = [poolInfo EXCEPT ![pid].unlocked = unlocked]
  BY <1>1 DEF GovernorAddPoolMultiplier, Pool
<1>3. /\ block' = block /\ block' \in 1 .. MaxBlock
      /\ tribePerBlock' \in Nat /\ tribe' \in Nat /\ paused' \in BOOLEAN
      /\ rewardMultipliers' \in [Pools -> [Locks -> Nat]] /\ emitted' \in [Pools -> Nat]
      /\ UNCHANGED <<totalAllocPoint, userInfo, depositInfo, staked, paid, roundings>>
  BY <1>1 DEF GovernorAddPoolMultiplier, Types, books
<1>4. /\ poolInfo' \in [Pools -> Pool]
      /\ \A i \in Pools :
           /\ poolInfo'[i].allocPoint = poolInfo[i].allocPoint
           /\ poolInfo'[i].virtualTotalSupply = poolInfo[i].virtualTotalSupply
           /\ poolInfo'[i].lastRewardBlock \in 1 .. block'
  BY <1>1, <1>2, <1>3 DEF UpdatesArePast, Pool
<1> QED
  BY <1>3, <1>4, AdministrationKeeps

LEMMA UpdatePoolKeeps ==
  ASSUME ChiefInv, NEW pid \in Pools, UpdatePool(pid)
  PROVE  ChiefInv'
<1>1. Types /\ UpdatesArePast /\ AllocPointsAddUp /\ poolInfo \in [Pools -> Pool]
  BY PoolFacts DEF ChiefInv
<1> DEFINE new == UpdatedPool(pid)
<1>2. /\ new \in Pool /\ new.allocPoint = poolInfo[pid].allocPoint
      /\ new.virtualTotalSupply = poolInfo[pid].virtualTotalSupply
      /\ new.lastRewardBlock = block /\ EmittedBy(pid) \in [Pools -> Nat]
  BY <1>1, UpdatedPoolType
<1>3. poolInfo' = [poolInfo EXCEPT ![pid] = new] /\ emitted' = EmittedBy(pid)
  BY DEF UpdatePool
<1>4. /\ block' = block /\ block \in 1 .. MaxBlock /\ block \in 1 .. block
      /\ tribePerBlock' \in Nat /\ tribe' \in Nat /\ paused' \in BOOLEAN
      /\ rewardMultipliers' \in [Pools -> [Locks -> Nat]]
      /\ UNCHANGED <<totalAllocPoint, userInfo, depositInfo, staked, paid, roundings>>
  BY <1>1, ChiefAssumption DEF UpdatePool, Types, settings, books
<1> HIDE DEF new
<1>5. /\ poolInfo' \in [Pools -> Pool]
      /\ \A i \in Pools :
           /\ poolInfo'[i].allocPoint = poolInfo[i].allocPoint
           /\ poolInfo'[i].virtualTotalSupply = poolInfo[i].virtualTotalSupply
           /\ poolInfo'[i].lastRewardBlock \in 1 .. block'
  BY <1>1, <1>2, <1>3, <1>4 DEF UpdatesArePast
<1> QED
  BY <1>2, <1>3, <1>4, <1>5, AdministrationKeeps

LEMMA MassUpdatePoolsKeeps ==
  ASSUME ChiefInv, NEW pids \in SUBSET Pools, MassUpdatePools(pids)
  PROVE  ChiefInv'
<1>1. Types /\ UpdatesArePast /\ AllocPointsAddUp /\ poolInfo \in [Pools -> Pool]
  BY PoolFacts DEF ChiefInv
<1>2. \A i \in Pools :
        /\ UpdatedPool(i) \in Pool /\ UpdatedPool(i).allocPoint = poolInfo[i].allocPoint
        /\ UpdatedPool(i).virtualTotalSupply = poolInfo[i].virtualTotalSupply
        /\ UpdatedPool(i).lastRewardBlock = block /\ EmittedBy(i) \in [Pools -> Nat]
  BY <1>1, UpdatedPoolType
<1>3. /\ block' = block /\ block \in 1 .. MaxBlock /\ block \in 1 .. block
      /\ tribePerBlock' \in Nat /\ tribe' \in Nat /\ paused' \in BOOLEAN
      /\ rewardMultipliers' \in [Pools -> [Locks -> Nat]] /\ emitted \in [Pools -> Nat]
      /\ UNCHANGED <<totalAllocPoint, userInfo, depositInfo, staked, paid, roundings>>
  BY <1>1, ChiefAssumption DEF MassUpdatePools, Types, settings, books
<1>4. /\ poolInfo' = [i \in Pools |-> IF i \in pids THEN UpdatedPool(i) ELSE poolInfo[i]]
      /\ emitted' = [i \in Pools |-> IF i \in pids THEN EmittedBy(i)[i] ELSE emitted[i]]
  BY DEF MassUpdatePools
<1>5. emitted' \in [Pools -> Nat]
  BY <1>2, <1>3, <1>4
<1>6. /\ poolInfo' \in [Pools -> Pool]
      /\ \A i \in Pools :
           /\ poolInfo'[i].allocPoint = poolInfo[i].allocPoint
           /\ poolInfo'[i].virtualTotalSupply = poolInfo[i].virtualTotalSupply
           /\ poolInfo'[i].lastRewardBlock \in 1 .. block'
  BY <1>1, <1>2, <1>3, <1>4 DEF UpdatesArePast
<1> QED
  BY <1>3, <1>5, <1>6, AdministrationKeeps

(* set and resetRewards: the pool is updated, and gets other points. *)
LEMMA RepointingKeeps ==
  ASSUME ChiefInv, NEW pid \in Pools, NEW new \in Pool,
         poolInfo' = [poolInfo EXCEPT ![pid] = new],
         new.virtualTotalSupply = poolInfo[pid].virtualTotalSupply,
         new.lastRewardBlock = block,
         totalAllocPoint' = totalAllocPoint - poolInfo[pid].allocPoint + new.allocPoint,
         emitted' \in [Pools -> Nat],
         UNCHANGED <<block, tribePerBlock, rewardMultipliers, books, paused>>
  PROVE  ChiefInv'
<1>1. /\ Types /\ UpdatesArePast /\ AllocPointsAddUp /\ poolInfo \in [Pools -> Pool]
      /\ poolInfo[pid].allocPoint \in Nat /\ new.allocPoint \in Nat
  BY PoolFacts DEF ChiefInv, Pool
<1>2. /\ block \in 1 .. MaxBlock /\ block \in 1 .. block
      /\ totalAllocPoint' \in Int
  BY <1>1, ChiefAssumption DEF Types
<1>3. /\ poolInfo' \in [Pools -> Pool]
      /\ poolInfo'[pid] = new /\ \A i \in Pools \ {pid} : poolInfo'[i] = poolInfo[i]
  BY <1>1
<1>4. AllocPointsAddUp'
  BY <1>1, <1>3, PointsChange
<1>5. PoolStep
  BY <1>1, <1>2, <1>3 DEF PoolStep, Types, UpdatesArePast, books
<1> QED
  BY <1>4, <1>5, PoolStepKeeps

LEMMA SetKeeps ==
  ASSUME ChiefInv, NEW caller, NEW pid \in Pools, NEW points \in AllocPoints,
         Set(caller, pid, points)
  PROVE  ChiefInv'
<1> DEFINE new == [UpdatedPool(pid) EXCEPT !.allocPoint = points]
<1>1. points \in Nat
  BY ChiefAssumption
<1>2. /\ UpdatedPool(pid) \in Pool
      /\ UpdatedPool(pid).virtualTotalSupply = poolInfo[pid].virtualTotalSupply
      /\ UpdatedPool(pid).lastRewardBlock = block /\ EmittedBy(pid) \in [Pools -> Nat]
  BY UpdatedPoolType DEF ChiefInv
<1>3. /\ new \in Pool /\ new.virtualTotalSupply = poolInfo[pid].virtualTotalSupply
      /\ new.lastRewardBlock = block /\ new.allocPoint = points
  BY <1>1, <1>2 DEF Pool
<1>4. /\ poolInfo' = [poolInfo EXCEPT ![pid] = new] /\ emitted' = EmittedBy(pid)
      /\ totalAllocPoint' = totalAllocPoint - poolInfo[pid].allocPoint + points
      /\ UNCHANGED <<block, tribePerBlock, rewardMultipliers, books, paused>>
  BY DEF Set, SetIn, EmittedBy
<1> HIDE DEF new
<1> QED
  BY <1>2, <1>3, <1>4, RepointingKeeps

LEMMA ResetRewardsKeeps ==
  ASSUME ChiefInv, NEW caller, NEW pid \in Pools, ResetRewards(caller, pid)
  PROVE  ChiefInv'
<1> DEFINE new == [UpdatedPool(pid) EXCEPT !.allocPoint = 0, !.unlocked = TRUE]
<1>1. /\ UpdatedPool(pid) \in Pool
      /\ UpdatedPool(pid).virtualTotalSupply = poolInfo[pid].virtualTotalSupply
      /\ UpdatedPool(pid).lastRewardBlock = block /\ EmittedBy(pid) \in [Pools -> Nat]
  BY UpdatedPoolType DEF ChiefInv
<1>2. /\ new \in Pool /\ new.virtualTotalSupply = poolInfo[pid].virtualTotalSupply
      /\ new.lastRewardBlock = block /\ new.allocPoint = 0
  BY <1>1 DEF Pool
<1>3. totalAllocPoint \in Int /\ poolInfo[pid].allocPoint \in Int
  BY PoolFacts DEF ChiefInv, Types, Pool
<1>4. /\ poolInfo' = [poolInfo EXCEPT ![pid] = new] /\ emitted' = EmittedBy(pid)
      /\ totalAllocPoint' = totalAllocPoint - poolInfo[pid].allocPoint + 0
      /\ UNCHANGED <<block, tribePerBlock, rewardMultipliers, books, paused>>
  BY <1>3 DEF ResetRewards, ResetRewardsIn, EmittedBy
<1> HIDE DEF new
<1> QED
  BY <1>1, <1>2, <1>4, RepointingKeeps

(* Two parts that round down are together no more than the whole. *)
LEMMA PartsRoundDown ==
  ASSUME NEW a \in Nat, NEW b \in Nat, NEW c \in Nat \ {0}
  PROVE  (a \div c) + (b \div c) <= (a + b) \div c
BY Z3

(* So what is left of a deposit and what is taken of it are worth no more than it was. *)
LEMMA WithdrawnPart ==
  ASSUME NEW a \in Nat, NEW b \in Nat, b <= a, NEW m \in Nat
  PROVE  Multiplied(a - b, m) + Multiplied(b, m) <= Multiplied(a, m)
<1>1. a - b \in Nat /\ (a - b) + b = a
  OBVIOUS
<1>2. (a - b) * m \in Nat /\ b * m \in Nat
  BY <1>1, ProductType
<1>3. (a - b) * m + b * m = a * m
  <2>1. ((a - b) + b) * m = (a - b) * m + b * m
    BY <1>1, Distributes
  <2> QED
    BY <1>1, <2>1
<1>4. SCALE_FACTOR \in Nat \ {0}
  BY ChiefAssumption
<1>5. ((a - b) * m) \div SCALE_FACTOR + (b * m) \div SCALE_FACTOR
        <= ((a - b) * m + b * m) \div SCALE_FACTOR
  BY <1>2, <1>4, PartsRoundDown
<1> QED
  BY <1>3, <1>5 DEF Multiplied

LEMMA SharesType ==
  ASSUME NEW virtual \in Nat, NEW pool \in Pool
  PROVE  SharesOf(virtual, pool) \in Nat
<1>1. pool.accTribePerShare \in Nat /\ ACC_TRIBE_PRECISION \in Nat \ {0}
  BY ChiefAssumption DEF Pool
<1>2. virtual * pool.accTribePerShare \in Nat
  BY <1>1, ProductType
<1> QED
  BY <1>1, <1>2, DivBounds DEF SharesOf

(* What a user has in a pool. *)
LEMMA StakeType ==
  ASSUME ChiefInv, NEW u \in User, NEW pid \in Pools
  PROVE  /\ userInfo[pid][u] \in Info /\ depositInfo[pid][u] \in Seq(Record)
         /\ Total(depositInfo[pid][u], VirtualWorth) <= userInfo[pid][u].virtualAmount
         /\ Total(depositInfo[pid][u], VirtualWorth) \in Nat
         /\ Total(depositInfo[pid][u], AmountWorth) \in Nat
<1>1. userInfo[pid][u] \in Info /\ depositInfo[pid][u] \in Seq(Record)
  BY DEF ChiefInv, Types
<1>2. SumOver(depositInfo[pid][u], DepositVirtual) <= userInfo[pid][u].virtualAmount
  BY DEF ChiefInv, VirtualAmountsSuffice
<1> QED
  BY <1>1, <1>2, SumsAreTotals, WorthTypes, TotalType

(* deposit adds the same virtual amount to the pool, the user and its deposits. *)
LEMMA DepositKeeps ==
  ASSUME ChiefInv, NEW u \in User, NEW pid \in Pools, NEW n \in Amounts, NEW lock \in Locks,
         Deposit(u, pid, n, lock)
  PROVE  ChiefInv'
<1> DEFINE pool == UpdatedPool(pid)
           old == userInfo[pid][u]
           ds == depositInfo[pid][u]
           multiplier == rewardMultipliers[pid][lock]
           virtual == Multiplied(n, multiplier)
           d == [amount |-> n, unlockBlock |-> lock + block, multiplier |-> multiplier]
           info == [virtualAmount |-> old.virtualAmount + virtual,
                    rewardDebt |-> old.rewardDebt + SharesOf(virtual, pool)]
           new == [pool EXCEPT !.virtualTotalSupply = @ + virtual]
<1>1. Types /\ UpdatesArePast /\ AllocPointsAddUp /\ poolInfo \in [Pools -> Pool]
  BY PoolFacts DEF ChiefInv
<1>2. /\ n \in Nat /\ lock \in Nat /\ block \in Nat /\ multiplier \in Nat
  BY <1>1, ChiefAssumption DEF Types
<1>3. virtual \in Nat /\ d \in Record
  <2> HIDE DEF multiplier
  <2>1. virtual \in Nat
    BY <1>2, MultipliedType
  <2>2. lock + block \in Nat
    BY <1>2
  <2> QED
    BY <1>2, <2>1, <2>2 DEF Record
<1>4. /\ pool \in Pool /\ pool.allocPoint = poolInfo[pid].allocPoint
      /\ pool.virtualTotalSupply = poolInfo[pid].virtualTotalSupply
      /\ pool.lastRewardBlock = block /\ EmittedBy(pid) \in [Pools -> Nat]
  BY <1>1, UpdatedPoolType
<1>5. old \in Info /\ ds \in Seq(Record) /\ Total(ds, VirtualWorth) <= old.virtualAmount
      /\ Total(ds, VirtualWorth) \in Nat /\ Total(ds, AmountWorth) \in Nat
  BY StakeType
<1>6. /\ info \in Info /\ info.virtualAmount = old.virtualAmount + virtual
  <2>1. SharesOf(virtual, pool) \in Nat
    BY <1>3, <1>4, SharesType
  <2> HIDE DEF old, virtual, pool
  <2> QED
    BY <1>3, <1>5, <2>1 DEF Info
<1>7. /\ new \in Pool /\ new.allocPoint = poolInfo[pid].allocPoint
      /\ new.virtualTotalSupply = poolInfo[pid].virtualTotalSupply + virtual
      /\ new.lastRewardBlock = block
  <2> HIDE DEF virtual, pool
  <2> QED
    BY <1>3, <1>4 DEF Pool
<1>8. VirtualWorth[d] = virtual /\ AmountWorth[d] = n
  BY <1>3 DEF VirtualWorth, AmountWorth, DepositVirtual
<1>9. /\ Append(ds, d) \in Seq(Record)
      /\ Total(Append(ds, d), VirtualWorth) = Total(ds, VirtualWorth) + virtual
      /\ Total(Append(ds, d), AmountWorth) = Total(ds, AmountWorth) + n
  <2> HIDE DEF ds, d, virtual
  <2> QED
    BY <1>3, <1>5, <1>8, WorthTypes, TotalAppends
<1>10. /\ userInfo' = [userInfo EXCEPT ![pid] = [userInfo[pid] EXCEPT ![u] = info]]
       /\ depositInfo' = [depositInfo EXCEPT ![pid] = [depositInfo[pid] EXCEPT ![u] = Append(ds, d)]]
       /\ poolInfo' = [poolInfo EXCEPT ![pid] = new]
       /\ staked' = [staked EXCEPT ![pid] = staked[pid] + n]
       /\ emitted' = EmittedBy(pid)
       /\ roundings' = [roundings EXCEPT ![pid] = @ + 1]
       /\ UNCHANGED <<block, settings, tribe, paid, paused>>
  BY DEF Deposit, DepositInto
<1>11. UserStep(u, pid, info, Append(ds, d))
  <2>1. /\ poolInfo' \in [Pools -> Pool] /\ \A i \in Pools \ {pid} : poolInfo'[i] = poolInfo[i]
        /\ poolInfo'[pid] = new
    <3> HIDE DEF new
    <3> QED
      BY <1>1, <1>7, <1>10
  <2>2. /\ emitted' \in [Pools -> Nat] /\ paid' \in [Pools -> Nat] /\ roundings' \in [Pools -> Nat]
        /\ tribe' \in Nat
    <3>1. emitted' \in [Pools -> Nat]
      BY <1>4, <1>10
    <3>2. /\ paid \in [Pools -> Nat] /\ tribe \in Nat
          /\ roundings \in [Pools -> Nat]
      BY <1>1 DEF Types
    <3>3. paid' = paid /\ tribe' = tribe /\ roundings' = [roundings EXCEPT ![pid] = @ + 1]
      BY <1>10
    <3>4. roundings' \in [Pools -> Nat]
      BY <3>2, <3>3
    <3> QED
      BY <3>1, <3>2, <3>3, <3>4
  <2>3. staked[pid] \in Int /\ old.virtualAmount \in Nat /\ poolInfo[pid].virtualTotalSupply \in Nat
    BY <1>1, <1>5 DEF Types, Info, Pool
  <2>4. staked[pid] + n = staked[pid] - Total(ds, AmountWorth) + Total(Append(ds, d), AmountWorth)
    <3> HIDE DEF ds, d
    <3> QED
      BY <1>2, <1>5, <1>9, <2>3
  <2>5. /\ new.virtualTotalSupply - info.virtualAmount
             >= poolInfo[pid].virtualTotalSupply - old.virtualAmount
        /\ Total(Append(ds, d), VirtualWorth) <= info.virtualAmount
    <3> HIDE DEF ds, d, new, info, virtual, old
    <3>1. Total(Append(ds, d), VirtualWorth) <= info.virtualAmount
      BY <1>3, <1>5, <1>6, <1>9, <2>3
    <3>2. new.virtualTotalSupply - info.virtualAmount
            >= poolInfo[pid].virtualTotalSupply - old.virtualAmount
      BY <1>3, <1>6, <1>7, <2>3
    <3> QED
      BY <3>1, <3>2
  <2> HIDE DEF info, d, new, virtual, pool
  <2> QED
    BY <1>7, <1>10, <2>1, <2>2, <2>4, <2>5 DEF UserStep
<1> HIDE DEF info, ds, d
<1> QED
  BY <1>6, <1>9, <1>11, UserStepKeeps

(* A transaction of u in pid that first updates the pool, then takes  *)
(* virtual away from its supply. *)
LEMMA WithdrawalIsStep ==
  ASSUME ChiefInv, NEW u \in User, NEW pid \in Pools, NEW info \in Info, NEW ds \in Seq(Record),
         NEW virtual \in Nat, NEW amount \in Nat,
         virtual <= UpdatedPool(pid).virtualTotalSupply,
         virtual <= userInfo[pid][u].virtualAmount - info.virtualAmount,
         Total(ds, VirtualWorth) <= info.virtualAmount,
         Total(ds, AmountWorth) = Total(depositInfo[pid][u], AmountWorth) - amount,
         userInfo' = [userInfo EXCEPT ![pid] = [userInfo[pid] EXCEPT ![u] = info]],
         depositInfo' = [depositInfo EXCEPT ![pid] = [depositInfo[pid] EXCEPT ![u] = ds]],
         poolInfo' = [poolInfo EXCEPT
           ![pid] = [UpdatedPool(pid) EXCEPT !.virtualTotalSupply = @ - virtual]],
         staked' = [staked EXCEPT ![pid] = @ - amount],
         emitted' = EmittedBy(pid),
         paid' \in [Pools -> Nat], roundings' \in [Pools -> Nat], tribe' \in Nat,
         UNCHANGED <<block, settings, paused>>
  PROVE  UserStep(u, pid, info, ds)
<1> DEFINE pool == UpdatedPool(pid)
           old == userInfo[pid][u]
           new == [pool EXCEPT !.virtualTotalSupply = @ - virtual]
<1>1. Types /\ UpdatesArePast /\ AllocPointsAddUp /\ poolInfo \in [Pools -> Pool]
  BY PoolFacts DEF ChiefInv
<1>2. /\ pool \in Pool /\ pool.allocPoint = poolInfo[pid].allocPoint
      /\ pool.virtualTotalSupply = poolInfo[pid].virtualTotalSupply
      /\ pool.lastRewardBlock = block /\ EmittedBy(pid) \in [Pools -> Nat]
  BY <1>1, UpdatedPoolType
<1>3. /\ new \in Pool /\ new.allocPoint = poolInfo[pid].allocPoint
      /\ new.virtualTotalSupply = poolInfo[pid].virtualTotalSupply - virtual
      /\ new.lastRewardBlock = block
  <2> HIDE DEF pool
  <2>1. virtual <= pool.virtualTotalSupply
    BY DEF pool
  <2>2. pool.virtualTotalSupply \in Nat
    BY <1>2 DEF Pool
  <2>3. pool.virtualTotalSupply - virtual \in Nat
    BY <2>1, <2>2
  <2>4. new \in Pool /\ new.virtualTotalSupply = pool.virtualTotalSupply - virtual
    BY <1>2, <2>3 DEF Pool
  <2>5. new.allocPoint = pool.allocPoint /\ new.lastRewardBlock = pool.lastRewardBlock
    BY <1>2 DEF Pool
  <2> QED
    BY <1>2, <2>4, <2>5
<1>4. old \in Info /\ depositInfo[pid][u] \in Seq(Record)
      /\ Total(depositInfo[pid][u], AmountWorth) \in Nat
  BY StakeType
<1> HIDE DEF new
<1>5. /\ poolInfo' \in [Pools -> Pool] /\ \A i \in Pools \ {pid} : poolInfo'[i] = poolInfo[i]
      /\ poolInfo'[pid] = new
  <2>1. poolInfo' = [poolInfo EXCEPT ![pid] = new]
    BY DEF new
  <2> QED
    BY <1>1, <1>3, <2>1
<1>6. new.virtualTotalSupply - info.virtualAmount
        >= poolInfo[pid].virtualTotalSupply - old.virtualAmount
  <2>1. /\ old.virtualAmount \in Nat /\ info.virtualAmount \in Nat
        /\ poolInfo[pid].virtualTotalSupply \in Nat
    BY <1>1, <1>4 DEF Info, Pool
  <2>2. virtual <= old.virtualAmount - info.virtualAmount
    OBVIOUS
  <2> HIDE DEF old
  <2>3. PICK a \in Nat, b \in Nat, c \in Nat :
          /\ a = old.virtualAmount /\ b = info.virtualAmount
          /\ c = poolInfo[pid].virtualTotalSupply
    BY <2>1
  <2>4. new.virtualTotalSupply = c - virtual
    BY <1>3, <2>3
  <2> QED
    BY <2>2, <2>3, <2>4
<1>7. staked[pid] - amount
        = staked[pid] - Total(depositInfo[pid][u], AmountWorth) + Total(ds, AmountWorth)
  <2>1. staked[pid] \in Int
    BY <1>1 DEF Types
  <2> QED
    BY <1>4, <2>1
<1>8. emitted' \in [Pools -> Nat]
  BY <1>2
<1> HIDE DEF pool
<1> QED
  BY <1>3, <1>5, <1>6, <1>7, <1>8 DEF UserStep

(* withdrawFromDeposit: the deposit may lose more than is subtracted, never less. *)
LEMMA WithdrawFromDepositKeeps ==
  ASSUME ChiefInv, NEW u \in User, NEW pid \in Pools, NEW n \in Amounts,
         NEW i \in DOMAIN depositInfo[pid][u], WithdrawFromDeposit(u, pid, n, i)
  PROVE  ChiefInv'
<1> DEFINE old == userInfo[pid][u]
           ds == depositInfo[pid][u]
           d == ds[i]
           virtual == Multiplied(n, d.multiplier)
           less == [d EXCEPT !.amount = @ - n]
           info == [virtualAmount |-> old.virtualAmount - virtual,
                    rewardDebt |-> old.rewardDebt - SharesOf(virtual, UpdatedPool(pid))]
           new == [ds EXCEPT ![i] = less]
<1>1. /\ n \in Nat /\ old \in Info /\ ds \in Seq(Record) /\ d \in Record
      /\ Total(ds, VirtualWorth) <= old.virtualAmount
      /\ Total(ds, VirtualWorth) \in Nat /\ Total(ds, AmountWorth) \in Nat
      /\ UpdatedPool(pid) \in Pool
  BY ChiefAssumption, StakeType, WorthTypes, TotalTerms, UpdatedPoolType DEF ChiefInv
<1>2. /\ n <= d.amount /\ virtual <= old.virtualAmount
      /\ virtual <= UpdatedPool(pid).virtualTotalSupply
  BY DEF WithdrawFromDeposit
<1>3. virtual \in Nat /\ less \in Record
  <2> HIDE DEF d
  <2>1. d.multiplier \in Nat /\ d.amount \in Nat
    BY <1>1 DEF Record
  <2>2. d.amount - n \in Nat
    BY <1>1, <1>2, <2>1
  <2>3. virtual \in Nat
    BY <1>1, <2>1, MultipliedType
  <2> QED
    BY <1>1, <2>1, <2>2, <2>3 DEF Record
<1>4. info \in Info /\ info.virtualAmount = old.virtualAmount - virtual
  <2>1. SharesOf(virtual, UpdatedPool(pid)) \in Nat
    BY <1>1, <1>3, SharesType
  <2> HIDE DEF virtual, old
  <2> QED
    BY <1>1, <1>2, <1>3, <2>1 DEF Info
<1>5. VirtualWorth[less] + virtual <= VirtualWorth[d] /\ AmountWorth[less] = AmountWorth[d] - n
      /\ VirtualWorth[less] \in Nat /\ VirtualWorth[d] \in Nat /\ AmountWorth[d] \in Nat
  <2> HIDE DEF d
  <2>1. d.multiplier \in Nat /\ d.amount \in Nat
    BY <1>1 DEF Record
  <2>2. Multiplied(d.amount - n, d.multiplier) + Multiplied(n, d.multiplier)
          <= Multiplied(d.amount, d.multiplier)
    BY <1>1, <1>2, <2>1, WithdrawnPart
  <2>3. less.amount = d.amount - n /\ less.multiplier = d.multiplier
    BY <1>1 DEF Record
  <2>4. /\ VirtualWorth[d] = Multiplied(d.amount, d.multiplier)
        /\ VirtualWorth[less] = Multiplied(d.amount - n, d.multiplier)
        /\ AmountWorth[d] = d.amount /\ AmountWorth[less] = d.amount - n
    BY <1>1, <1>3, <2>3 DEF VirtualWorth, AmountWorth, DepositVirtual
  <2>5. VirtualWorth[less] \in Nat /\ VirtualWorth[d] \in Nat
    BY <1>1, <1>3, WorthTypes
  <2> QED
    BY <2>1, <2>2, <2>4, <2>5
<1>6. /\ new \in Seq(Record)
      /\ Total(new, VirtualWorth) = Total(ds, VirtualWorth) - VirtualWorth[d] + VirtualWorth[less]
      /\ Total(new, AmountWorth) = Total(ds, AmountWorth) - AmountWorth[d] + AmountWorth[less]
  <2> HIDE DEF less
  <2> QED
    BY <1>1, <1>3, WorthTypes, TotalChanges
<1>7. /\ Total(new, VirtualWorth) <= info.virtualAmount
      /\ Total(new, AmountWorth) = Total(ds, AmountWorth) - n
      /\ virtual <= old.virtualAmount - info.virtualAmount
  <2>1. old.virtualAmount \in Nat
    BY <1>1 DEF Info
  <2> HIDE DEF virtual, old, info, new, ds, less, d
  <2>2. virtual <= old.virtualAmount - info.virtualAmount
    BY <1>3, <1>4, <2>1
  <2>3. Total(new, AmountWorth) = Total(ds, AmountWorth) - n
    <3>1. AmountWorth[less] = AmountWorth[d] - n /\ AmountWorth[d] \in Nat
      BY <1>5
    <3> QED
      BY <1>1, <1>6, <3>1
  <2>4. Total(new, VirtualWorth) <= info.virtualAmount
    <3>1. PICK total \in Nat, rest \in Nat, whole \in Nat :
            /\ total = Total(ds, VirtualWorth)
            /\ rest = VirtualWorth[less] /\ whole = VirtualWorth[d]
      BY <1>1, <1>5
    <3>2. rest + virtual <= whole /\ total <= old.virtualAmount
      BY <1>1, <1>5, <3>1
    <3>3. Total(new, VirtualWorth) = total - whole + rest
      BY <1>6, <3>1
    <3>4. info.virtualAmount = old.virtualAmount - virtual /\ virtual \in Nat
      BY <1>3, <1>4
    <3> QED
      BY <2>1, <3>2, <3>3, <3>4
  <2> QED
    BY <2>2, <2>3, <2>4
<1>8. /\ userInfo' = [userInfo EXCEPT ![pid] = [userInfo[pid] EXCEPT ![u] = info]]
      /\ depositInfo' = [depositInfo EXCEPT ![pid] = [depositInfo[pid] EXCEPT ![u] = new]]
      /\ poolInfo' = [poolInfo EXCEPT
           ![pid] = [UpdatedPool(pid) EXCEPT !.virtualTotalSupply = @ - virtual]]
      /\ staked' = [staked EXCEPT ![pid] = @ - n]
      /\ emitted' = EmittedBy(pid)
      /\ UNCHANGED <<block, settings, tribe, paid, roundings, paused>>
  BY DEF WithdrawFromDeposit
<1>9. paid' \in [Pools -> Nat] /\ roundings' \in [Pools -> Nat] /\ tribe' \in Nat
  BY <1>8 DEF ChiefInv, Types
<1>10. UserStep(u, pid, info, new)
  <2> HIDE DEF info, new, virtual
  <2> QED
    BY <1>1, <1>2, <1>3, <1>4, <1>6, <1>7, <1>8, <1>9, WithdrawalIsStep
<1> HIDE DEF info, new
<1> QED
  BY <1>4, <1>6, <1>10, UserStepKeeps

(* A user who takes all has nothing. *)
LEMMA NothingStaked ==
  /\ NoUserInfo \in Info /\ NoUserInfo.virtualAmount = 0
  /\ <<>> \in Seq(Record)
  /\ Total(<<>>, VirtualWorth) = 0 /\ Total(<<>>, AmountWorth) = 0
BY TotalOfNone DEF NoUserInfo, Info

(* emergencyWithdraw takes all deposits, and the virtual amount with them. *)
LEMMA EmergencyWithdrawKeeps ==
  ASSUME ChiefInv, NEW u \in User, NEW pid \in Pools, EmergencyWithdraw(u, pid)
  PROVE  ChiefInv'
<1> DEFINE ds == depositInfo[pid][u]
           virtual == SumOver(ds, DepositVirtual)
           amount == SumOver(ds, LAMBDA d : d.amount)
<1>1. /\ userInfo[pid][u] \in Info /\ ds \in Seq(Record)
      /\ Total(ds, VirtualWorth) <= userInfo[pid][u].virtualAmount
      /\ Total(ds, VirtualWorth) \in Nat /\ Total(ds, AmountWorth) \in Nat
  BY StakeType
<1>2. virtual = Total(ds, VirtualWorth) /\ amount = Total(ds, AmountWorth)
  BY <1>1, SumsAreTotals
<1>3. /\ virtual <= UpdatedPool(pid).virtualTotalSupply
      /\ userInfo' = [userInfo EXCEPT ![pid] = [userInfo[pid] EXCEPT ![u] = NoUserInfo]]
      /\ depositInfo' = [depositInfo EXCEPT ![pid] = [depositInfo[pid] EXCEPT ![u] = <<>>]]
      /\ poolInfo' = [poolInfo EXCEPT
           ![pid] = [UpdatedPool(pid) EXCEPT !.virtualTotalSupply = @ - virtual]]
      /\ staked' = [staked EXCEPT ![pid] = @ - amount]
      /\ emitted' = EmittedBy(pid)
      /\ UNCHANGED <<block, settings, tribe, paid, roundings, paused>>
  BY DEF EmergencyWithdraw, TakeAll
<1>4. paid' \in [Pools -> Nat] /\ roundings' \in [Pools -> Nat] /\ tribe' \in Nat
  BY <1>3 DEF ChiefInv, Types
<1>5. virtual \in Nat /\ amount \in Nat
  BY <1>1, <1>2
<1>6. /\ virtual <= userInfo[pid][u].virtualAmount - NoUserInfo.virtualAmount
      /\ Total(<<>>, VirtualWorth) <= NoUserInfo.virtualAmount
      /\ Total(<<>>, AmountWorth) = Total(ds, AmountWorth) - amount
  <2>1. userInfo[pid][u].virtualAmount \in Nat
    BY <1>1 DEF Info
  <2> HIDE DEF virtual, amount, ds
  <2> QED
    BY <1>1, <1>2, <2>1, NothingStaked
<1>7. UserStep(u, pid, NoUserInfo, <<>>)
  <2> HIDE DEF virtual, amount
  <2> QED
    BY <1>3, <1>4, <1>5, <1>6, NothingStaked, WithdrawalIsStep
<1> QED
  BY <1>7, NothingStaked, UserStepKeeps

(* _harvest *)
LEMMA PaymentTypes ==
  ASSUME ChiefInv, NEW u \in User, NEW pid \in Pools, PayPending(u, pid)
  PROVE  paid' \in [Pools -> Nat] /\ tribe' \in Nat
<1>1. Types
  BY DEF ChiefInv
<1>2. Pending(u, pid) \in 0 .. tribe /\ tribe \in Nat
  BY <1>1 DEF PayPending, CanHarvest, Types
<1>3. /\ tribe' = tribe - Pending(u, pid)
      /\ paid' = [paid EXCEPT ![pid] = @ + Pending(u, pid)]
  BY DEF PayPending
<1> QED
  BY <1>1, <1>2, <1>3 DEF Types

(* harvest changes the debt only. *)
LEMMA HarvestKeeps ==
  ASSUME ChiefInv, NEW u \in User, NEW pid \in Pools, Harvest(u, pid)
  PROVE  ChiefInv'
<1> DEFINE old == userInfo[pid][u]
           ds == depositInfo[pid][u]
           pool == UpdatedPool(pid)
           info == [old EXCEPT !.rewardDebt = SharesOf(old.virtualAmount, pool)]
<1>1. /\ old \in Info /\ ds \in Seq(Record) /\ Total(ds, VirtualWorth) <= old.virtualAmount
      /\ Total(ds, AmountWorth) \in Nat
  BY StakeType
<1>2. Types /\ UpdatesArePast /\ AllocPointsAddUp /\ poolInfo \in [Pools -> Pool]
  BY PoolFacts DEF ChiefInv
<1>3. /\ pool \in Pool /\ pool.allocPoint = poolInfo[pid].allocPoint
      /\ pool.virtualTotalSupply = poolInfo[pid].virtualTotalSupply
      /\ pool.lastRewardBlock = block /\ EmittedBy(pid) \in [Pools -> Nat]
  BY <1>2, UpdatedPoolType
<1>4. info \in Info /\ info.virtualAmount = old.virtualAmount
  <2>1. old.virtualAmount \in Nat
    BY <1>1 DEF Info
  <2>2. SharesOf(old.virtualAmount, pool) \in Nat
    BY <1>3, <2>1, SharesType
  <2> HIDE DEF old, pool
  <2> QED
    BY <1>1, <2>2 DEF Info
<1>5. /\ userInfo' = [userInfo EXCEPT ![pid] = [userInfo[pid] EXCEPT ![u] = info]]
      /\ poolInfo' = [poolInfo EXCEPT ![pid] = pool]
      /\ emitted' = EmittedBy(pid)
      /\ UNCHANGED <<block, settings, depositInfo, staked, roundings, paused>>
  BY DEF Harvest
<1>6. /\ depositInfo' = [depositInfo EXCEPT ![pid] = [depositInfo[pid] EXCEPT ![u] = ds]]
      /\ staked' = [staked EXCEPT ![pid] =
           staked[pid] - Total(ds, AmountWorth) + Total(ds, AmountWorth)]
  <2>1. staked[pid] - Total(ds, AmountWorth) + Total(ds, AmountWorth) = staked[pid]
    BY <1>1, <1>2 DEF Types
  <2> QED
    BY <1>2, <1>5, <2>1 DEF Types
<1>7. /\ emitted' \in [Pools -> Nat] /\ paid' \in [Pools -> Nat] /\ roundings' \in [Pools -> Nat]
      /\ tribe' \in Nat
  BY <1>2, <1>3, <1>5, PaymentTypes DEF Harvest, Types
<1>8. pool.virtualTotalSupply - info.virtualAmount
        >= poolInfo[pid].virtualTotalSupply - old.virtualAmount
  <2>1. old.virtualAmount \in Nat /\ poolInfo[pid].virtualTotalSupply \in Nat
    BY <1>1, <1>2 DEF Info, Pool
  <2> HIDE DEF old, pool, info
  <2> QED
    BY <1>3, <1>4, <2>1
<1>9. UserStep(u, pid, info, ds)
  <2> HIDE DEF info, pool
  <2> QED
    BY <1>1, <1>2, <1>3, <1>4, <1>5, <1>6, <1>7, <1>8 DEF UserStep
<1> HIDE DEF info
<1> QED
  BY <1>1, <1>4, <1>9, UserStepKeeps

(* What a set of deposits is worth, and is left when they are emptied *)
LEMMA PartOfDeposits ==
  ASSUME NEW ds \in Seq(Record), NEW free \in SUBSET DOMAIN ds,
         NEW new \in [DOMAIN ds -> Record],
         \A i \in free : new[i] = [amount |-> 0, unlockBlock |-> 0, multiplier |-> 0],
         \A i \in DOMAIN ds \ free : new[i] = ds[i]
  PROVE  LET amount == SumFunctionOnSet([i \in free |-> ds[i].amount], free)
             virtual == SumFunctionOnSet([i \in free |-> DepositVirtual(ds[i])], free)
         IN  /\ amount \in Nat /\ virtual \in Nat /\ new \in Seq(Record)
             /\ Total(new, AmountWorth) = Total(ds, AmountWorth) - amount
             /\ Total(new, VirtualWorth) = Total(ds, VirtualWorth) - virtual
             /\ free = DOMAIN ds => /\ amount = Total(ds, AmountWorth)
                                    /\ virtual = Total(ds, VirtualWorth)
<1> DEFINE nil == [amount |-> 0, unlockBlock |-> 0, multiplier |-> 0]
           amount == SumFunctionOnSet([i \in free |-> ds[i].amount], free)
           virtual == SumFunctionOnSet([i \in free |-> DepositVirtual(ds[i])], free)
           amounts == [i \in free |-> AmountWorth[ds[i]]]
           virtuals == [i \in free |-> VirtualWorth[ds[i]]]
<1>1. nil \in Record /\ AmountWorth[nil] = 0 /\ VirtualWorth[nil] = 0
  <2>1. nil \in Record
    BY DEF Record
  <2>2. AmountWorth[nil] = 0
    BY <2>1 DEF AmountWorth
  <2>3. VirtualWorth[nil] = (0 * 0) \div SCALE_FACTOR
    BY <2>1 DEF VirtualWorth, DepositVirtual, Multiplied
  <2>4. 0 * 0 = 0 /\ SCALE_FACTOR \in Nat \ {0}
    BY ChiefAssumption
  <2>5. 0 \div SCALE_FACTOR = 0
    BY <2>4, Z3
  <2> QED
    BY <2>1, <2>2, <2>3, <2>4, <2>5
<1>2. \A i \in DOMAIN ds : ds[i] \in Record
  BY WorthTypes, TotalTerms
<1>3. amount = SumFunctionOnSet(amounts, free) /\ virtual = SumFunctionOnSet(virtuals, free)
  <2>1. /\ [i \in free |-> ds[i].amount] = amounts
        /\ [i \in free |-> DepositVirtual(ds[i])] = virtuals
    BY <1>2 DEF AmountWorth, VirtualWorth
  <2> QED
    BY <2>1
<1>4. \A i \in free : new[i] = nil
  OBVIOUS
<1> HIDE DEF nil
<1>5. /\ new \in [DOMAIN ds -> Record] /\ \A i \in DOMAIN ds \ free : new[i] = ds[i]
      /\ \A i \in free : AmountWorth[new[i]] = 0 /\ VirtualWorth[new[i]] = 0
      /\ \A i \in free : amounts[i] = AmountWorth[ds[i]] /\ virtuals[i] = VirtualWorth[ds[i]]
  BY <1>1, <1>2, <1>4
<1> HIDE DEF amounts, virtuals, amount, virtual
<1>6. /\ new \in Seq(Record)
      /\ Total(new, AmountWorth) = Total(ds, AmountWorth) - SumFunctionOnSet(amounts, free)
      /\ SumFunctionOnSet(amounts, free) \in Nat
      /\ Total(new, VirtualWorth) = Total(ds, VirtualWorth) - SumFunctionOnSet(virtuals, free)
      /\ SumFunctionOnSet(virtuals, free) \in Nat
  <2>1. ASSUME NEW worth \in [Record -> Nat], NEW t,
               \A i \in free : worth[new[i]] = 0,
               \A i \in free : t[i] = worth[ds[i]]
        PROVE  /\ new \in Seq(Record)
               /\ Total(new, worth) = Total(ds, worth) - SumFunctionOnSet(t, free)
               /\ SumFunctionOnSet(t, free) \in Nat
    BY <1>5, <2>1, TotalDrops, Zenon
  <2>2. /\ new \in Seq(Record)
        /\ Total(new, AmountWorth) = Total(ds, AmountWorth) - SumFunctionOnSet(amounts, free)
        /\ SumFunctionOnSet(amounts, free) \in Nat
    BY <1>5, <2>1, WorthTypes
  <2>3. /\ Total(new, VirtualWorth) = Total(ds, VirtualWorth) - SumFunctionOnSet(virtuals, free)
        /\ SumFunctionOnSet(virtuals, free) \in Nat
    BY <1>5, <2>1, WorthTypes
  <2> QED
    BY <2>2, <2>3
<1>7. ASSUME free = DOMAIN ds
      PROVE  /\ SumFunctionOnSet(amounts, free) = Total(ds, AmountWorth)
             /\ SumFunctionOnSet(virtuals, free) = Total(ds, VirtualWorth)
  BY <1>7 DEF Total, amounts, virtuals
<1>8. /\ amount \in Nat /\ virtual \in Nat /\ new \in Seq(Record)
      /\ Total(new, AmountWorth) = Total(ds, AmountWorth) - amount
      /\ Total(new, VirtualWorth) = Total(ds, VirtualWorth) - virtual
      /\ free = DOMAIN ds => /\ amount = Total(ds, AmountWorth)
                             /\ virtual = Total(ds, VirtualWorth)
  BY <1>3, <1>6, <1>7
<1> QED
  BY <1>8 DEF amount, virtual

(* withdrawAllAndHarvest empties the free deposits, or takes all. *)
LEMMA WithdrawAllAndHarvestKeeps ==
  ASSUME ChiefInv, NEW u \in User, NEW pid \in Pools, WithdrawAllAndHarvest(u, pid)
  PROVE  ChiefInv'
<1> DEFINE old == userInfo[pid][u]
           ds == depositInfo[pid][u]
           pool == UpdatedPool(pid)
           free == {i \in DOMAIN ds : IsFree(ds[i], pool)}
           amount == SumFunctionOnSet([i \in free |-> ds[i].amount], free)
           virtual == SumFunctionOnSet([i \in free |-> DepositVirtual(ds[i])], free)
           rest == old.virtualAmount - virtual
           new == [i \in DOMAIN ds |->
                     IF i \in free THEN [amount |-> 0, unlockBlock |-> 0, multiplier |-> 0]
                     ELSE ds[i]]
           info == [virtualAmount |-> rest, rewardDebt |-> SharesOf(rest, pool)]
<1>1. /\ old \in Info /\ ds \in Seq(Record) /\ Total(ds, VirtualWorth) <= old.virtualAmount
      /\ Total(ds, VirtualWorth) \in Nat /\ Total(ds, AmountWorth) \in Nat
      /\ pool \in Pool /\ old.virtualAmount \in Nat
  BY StakeType, UpdatedPoolType DEF ChiefInv, Info
<1>2. /\ amount \in Nat /\ virtual \in Nat /\ new \in Seq(Record)
      /\ Total(new, AmountWorth) = Total(ds, AmountWorth) - amount
      /\ Total(new, VirtualWorth) = Total(ds, VirtualWorth) - virtual
      /\ free = DOMAIN ds => amount = Total(ds, AmountWorth) /\ virtual = Total(ds, VirtualWorth)
  <2>1. /\ free \in SUBSET DOMAIN ds /\ new \in [DOMAIN ds -> Record]
        /\ \A i \in free : new[i] = [amount |-> 0, unlockBlock |-> 0, multiplier |-> 0]
        /\ \A i \in DOMAIN ds \ free : new[i] = ds[i]
    <3>1. \A i \in DOMAIN ds : ds[i] \in Record
      BY <1>1, WorthTypes, TotalTerms
    <3> HIDE DEF free, ds
    <3>2. free \in SUBSET DOMAIN ds
      BY DEF free
    <3> QED
      BY <3>1, <3>2 DEF Record
  <2> HIDE DEF free, ds, new
  <2> QED
    BY <1>1, <2>1, PartOfDeposits
<1>3. /\ virtual <= pool.virtualTotalSupply
      /\ poolInfo' = [poolInfo EXCEPT
           ![pid] = [UpdatedPool(pid) EXCEPT !.virtualTotalSupply = @ - virtual]]
      /\ staked' = [staked EXCEPT ![pid] = @ - amount]
      /\ emitted' = EmittedBy(pid)
      /\ UNCHANGED <<block, settings, paused>>
  BY DEF WithdrawAllAndHarvest
<1>4. paid' \in [Pools -> Nat] /\ tribe' \in Nat
  BY PaymentTypes DEF WithdrawAllAndHarvest
<1>5. roundings \in [Pools -> Nat]
  BY DEF ChiefInv, Types
<1>6. CASE free = DOMAIN ds
  <2>1. /\ userInfo' = [userInfo EXCEPT ![pid] = [userInfo[pid] EXCEPT ![u] = NoUserInfo]]
        /\ depositInfo' = [depositInfo EXCEPT ![pid] = [depositInfo[pid] EXCEPT ![u] = <<>>]]
        /\ roundings' = roundings
    BY <1>6 DEF WithdrawAllAndHarvest
  <2>2. /\ virtual <= old.virtualAmount - NoUserInfo.virtualAmount
        /\ Total(<<>>, VirtualWorth) <= NoUserInfo.virtualAmount
        /\ Total(<<>>, AmountWorth) = Total(ds, AmountWorth) - amount
    <3>1. amount = Total(ds, AmountWorth) /\ virtual = Total(ds, VirtualWorth)
      BY <1>2, <1>6
    <3> HIDE DEF virtual, amount, ds, old
    <3> QED
      BY <1>1, <3>1, NothingStaked
  <2>3. UserStep(u, pid, NoUserInfo, <<>>)
    <3> HIDE DEF virtual, amount
    <3> QED
      BY <1>2, <1>3, <1>4, <1>5, <2>1, <2>2, NothingStaked, WithdrawalIsStep
  <2> QED
    BY <2>3, NothingStaked, UserStepKeeps
<1>7. CASE free # DOMAIN ds
  <2>1. /\ rest >= 0
        /\ userInfo' = [userInfo EXCEPT ![pid] = [userInfo[pid] EXCEPT ![u] = info]]
        /\ depositInfo' = [depositInfo EXCEPT ![pid] = [depositInfo[pid] EXCEPT ![u] = new]]
        /\ roundings' = [roundings EXCEPT ![pid] = IF virtual = 0 THEN @ ELSE @ + 1]
    BY <1>7 DEF WithdrawAllAndHarvest
  <2>2. rest \in Nat
    <3> HIDE DEF old, virtual
    <3> QED
      BY <1>1, <1>2, <2>1
  <2>3. info \in Info /\ info.virtualAmount = rest
    <3>1. SharesOf(rest, pool) \in Nat
      BY <1>1, <2>2, SharesType
    <3> HIDE DEF rest, pool
    <3> QED
      BY <2>2, <3>1 DEF Info
  <2>4. /\ virtual <= old.virtualAmount - info.virtualAmount
        /\ Total(new, VirtualWorth) <= info.virtualAmount
    <3> HIDE DEF virtual, old, info, new, ds
    <3> QED
      BY <1>1, <1>2, <2>2, <2>3
  <2>5. roundings' \in [Pools -> Nat]
    <3> HIDE DEF virtual
    <3> QED
      BY <1>5, <2>1
  <2>6. UserStep(u, pid, info, new)
    <3> HIDE DEF virtual, amount, info, new
    <3> QED
      BY <1>2, <1>3, <1>4, <2>1, <2>3, <2>4, <2>5, WithdrawalIsStep
  <2> HIDE DEF info, new
  <2> QED
    BY <1>2, <2>3, <2>6, UserStepKeeps
<1> QED
  BY <1>6, <1>7

(* The pools as a transaction may find them: updated or not. *)
AsFound(pools, given) ==
  /\ pools \in [Pools -> Pool] /\ given \in [Pools -> Nat]
  /\ \A i \in Pools : /\ pools[i].allocPoint = poolInfo[i].allocPoint
                       /\ pools[i].virtualTotalSupply = poolInfo[i].virtualTotalSupply
                       /\ pools[i].lastRewardBlock \in 1 .. block

LEMMA NotUpdated ==
  ASSUME ChiefInv
  PROVE  AsFound(poolInfo, emitted)
BY PoolFacts DEF AsFound, ChiefInv, Types, UpdatesArePast

(* A pool that is added is empty. *)
LEMMA AddToTypes ==
  ASSUME ChiefInv, NEW pools, NEW given, AsFound(pools, given),
         NEW caller, NEW points \in AllocPoints, NEW data \in RewardData,
         AddTo(pools, given, caller, points, data)
  PROVE  LET n == Len(poolInfo)
         IN  /\ n \in Nat /\ Pools = 1 .. n /\ Pools' = 1 .. n + 1
             /\ Types' /\ UpdatesArePast'
             /\ \A i \in 1 .. n : /\ poolInfo'[i] = pools[i] /\ userInfo'[i] = userInfo[i]
                                  /\ depositInfo'[i] = depositInfo[i] /\ staked'[i] = staked[i]
                                  /\ emitted'[i] = given[i]
             /\ poolInfo'[n + 1].allocPoint = points /\ poolInfo'[n + 1].virtualTotalSupply = 0
             /\ poolInfo'[n + 1].lastRewardBlock = block /\ emitted'[n + 1] = 0
             /\ userInfo'[n + 1] = [u \in User |-> NoUserInfo]
             /\ depositInfo'[n + 1] = [u \in User |-> <<>>]
             /\ staked'[n + 1] = 0
             /\ totalAllocPoint' = totalAllocPoint + points
<1> DEFINE n == Len(poolInfo)
           pool == [allocPoint |-> points, virtualTotalSupply |-> 0, lastRewardBlock |-> block,
                    accTribePerShare |-> 0, unlocked |-> FALSE]
           rates == [lock \in Locks |-> IF lock \in DOMAIN data THEN data[lock] ELSE 0]
           nobody == [u \in User |-> NoUserInfo]
           nothing == [u \in User |-> <<>>]
<1>1. /\ Types /\ UpdatesArePast /\ n \in Nat /\ Pools = 1 .. n
      /\ pools \in [1 .. n -> Pool] /\ given \in [1 .. n -> Nat]
      /\ \A i \in 1 .. n : pools[i].lastRewardBlock \in 1 .. block
  BY PoolFacts DEF ChiefInv, AsFound
<1>2. /\ points \in Nat /\ block \in Nat /\ block \in 1 .. block
  BY <1>1, ChiefAssumption DEF Types
<1>3. /\ pool \in Pool /\ rates \in [Locks -> Nat] /\ nobody \in [User -> Info]
      /\ nothing \in [User -> Seq(Record)]
  <2>1. pool \in Pool
    BY <1>2 DEF Pool
  <2>2. rates \in [Locks -> Nat]
    BY ChiefAssumption
  <2> QED
    BY <2>1, <2>2, NothingStaked
<1>4. /\ poolInfo' = Append(pools, pool)
      /\ rewardMultipliers' = Append(rewardMultipliers, rates)
      /\ userInfo' = Append(userInfo, nobody)
      /\ depositInfo' = Append(depositInfo, nothing)
      /\ staked' = Append(staked, 0) /\ emitted' = Append(given, 0)
      /\ paid' = Append(paid, 0) /\ roundings' = Append(roundings, 0)
      /\ totalAllocPoint' = totalAllocPoint + points
      /\ UNCHANGED <<block, tribePerBlock, tribe, paused>>
  BY DEF AddTo
<1>5. /\ rewardMultipliers \in [1 .. n -> [Locks -> Nat]]
      /\ userInfo \in [1 .. n -> [User -> Info]]
      /\ depositInfo \in [1 .. n -> [User -> Seq(Record)]]
      /\ staked \in [1 .. n -> Int]
      /\ paid \in [1 .. n -> Nat] /\ roundings \in [1 .. n -> Nat]
  BY <1>1 DEF Types
<1> HIDE DEF n, pool, rates, nobody, nothing
<1>6. poolInfo' \in Seq(Pool)
  BY <1>1, <1>3, <1>4, Appends
<1>7. /\ poolInfo' \in [1 .. n + 1 -> Pool] /\ poolInfo'[n + 1] = pool
      /\ \A i \in 1 .. n : poolInfo'[i] = pools[i]
  <2>1. poolInfo' \in [1 .. n + 1 -> Pool]
    BY <1>1, <1>3, <1>4, <1>5, Appends
  <2>2. poolInfo'[n + 1] = pool
    BY <1>1, <1>3, <1>4, <1>5, Appends
  <2>3. \A i \in 1 .. n : poolInfo'[i] = pools[i]
    BY <1>1, <1>3, <1>4, <1>5, Appends
  <2> QED
    BY <2>1, <2>2, <2>3
<1>8. rewardMultipliers' \in [1 .. n + 1 -> [Locks -> Nat]]
  BY <1>1, <1>3, <1>4, <1>5, Appends
<1>9. /\ userInfo' \in [1 .. n + 1 -> [User -> Info]] /\ userInfo'[n + 1] = nobody
      /\ \A i \in 1 .. n : userInfo'[i] = userInfo[i]
  <2>1. userInfo' \in [1 .. n + 1 -> [User -> Info]]
    BY <1>1, <1>3, <1>4, <1>5, Appends
  <2>2. userInfo'[n + 1] = nobody
    BY <1>1, <1>3, <1>4, <1>5, Appends
  <2>3. \A i \in 1 .. n : userInfo'[i] = userInfo[i]
    BY <1>1, <1>3, <1>4, <1>5, Appends
  <2> QED
    BY <2>1, <2>2, <2>3
<1>10. /\ depositInfo' \in [1 .. n + 1 -> [User -> Seq(Record)]] /\ depositInfo'[n + 1] = nothing
      /\ \A i \in 1 .. n : depositInfo'[i] = depositInfo[i]
  <2>1. depositInfo' \in [1 .. n + 1 -> [User -> Seq(Record)]]
    BY <1>1, <1>3, <1>4, <1>5, Appends
  <2>2. depositInfo'[n + 1] = nothing
    BY <1>1, <1>3, <1>4, <1>5, Appends
  <2>3. \A i \in 1 .. n : depositInfo'[i] = depositInfo[i]
    BY <1>1, <1>3, <1>4, <1>5, Appends
  <2> QED
    BY <2>1, <2>2, <2>3
<1>11. /\ staked' \in [1 .. n + 1 -> Int] /\ staked'[n + 1] = 0
       /\ \A i \in 1 .. n : staked'[i] = staked[i]
  <2>1. staked' \in [1 .. n + 1 -> Int]
    <3>1. 0 \in Int
      OBVIOUS
    <3> QED
      BY <1>1, <1>4, <1>5, <3>1, Appends
  <2>2. staked'[n + 1] = 0
    BY <1>1, <1>3, <1>4, <1>5, Appends
  <2>3. \A i \in 1 .. n : staked'[i] = staked[i]
    BY <1>1, <1>3, <1>4, <1>5, Appends
  <2> QED
    BY <2>1, <2>2, <2>3
<1>12. /\ emitted' \in [1 .. n + 1 -> Nat] /\ paid' \in [1 .. n + 1 -> Nat]
       /\ roundings' \in [1 .. n + 1 -> Nat]
       /\ emitted'[n + 1] = 0 /\ \A i \in 1 .. n : emitted'[i] = given[i]
  <2>1. emitted' \in [1 .. n + 1 -> Nat]
    BY <1>1, <1>4, <1>5, Appends
  <2>2. paid' \in [1 .. n + 1 -> Nat]
    BY <1>1, <1>4, <1>5, Appends
  <2>3. roundings' \in [1 .. n + 1 -> Nat]
    BY <1>1, <1>4, <1>5, Appends
  <2>4. emitted'[n + 1] = 0 /\ \A i \in 1 .. n : emitted'[i] = given[i]
    BY <1>1, <1>4, <1>5, Appends
  <2> QED
    BY <2>1, <2>2, <2>3, <2>4
<1>13. Pools' = 1 .. n + 1
  BY <1>7 DEF Pools
<1>14. Types'
  <2>1. /\ block' \in 1 .. MaxBlock /\ tribePerBlock' \in Nat /\ totalAllocPoint' \in Int
        /\ tribe' \in Nat /\ paused' \in BOOLEAN
    BY <1>1, <1>2, <1>4 DEF Types
  <2> QED
    BY <1>6, <1>8, <1>9, <1>10, <1>11, <1>13, <1>12, <2>1 DEF Types
<1>15. UpdatesArePast'
  <2>1. \A i \in 1 .. n : poolInfo'[i].lastRewardBlock \in 1 .. block
    BY <1>1, <1>7
  <2>2. poolInfo'[n + 1].lastRewardBlock \in 1 .. block
    BY <1>2, <1>7 DEF pool
  <2>3. \A i \in 1 .. n + 1 : i \in 1 .. n \/ i = n + 1
    BY <1>1
  <2> QED
    BY <1>4, <1>13, <2>1, <2>2, <2>3 DEF UpdatesArePast
<1>16. /\ poolInfo'[n + 1].allocPoint = points /\ poolInfo'[n + 1].virtualTotalSupply = 0
       /\ poolInfo'[n + 1].lastRewardBlock = block
  BY <1>7 DEF pool
<1> QED
  BY <1>1, <1>4, <1>7, <1>9, <1>10, <1>11, <1>12, <1>13, <1>14, <1>15, <1>16
     DEF n, nobody, nothing

(* Add keeps it: the sums have one more term, which is what the total gains. *)
LEMMA AddToKeeps ==
  ASSUME ChiefInv, NEW pools, NEW given, AsFound(pools, given),
         NEW caller, NEW points \in AllocPoints, NEW data \in RewardData,
         AddTo(pools, given, caller, points, data)
  PROVE  ChiefInv'
<1> DEFINE n == Len(poolInfo)
<1>1. /\ n \in Nat /\ Pools = 1 .. n /\ Pools' = 1 .. n + 1
      /\ Types' /\ UpdatesArePast'
      /\ \A i \in 1 .. n : /\ poolInfo'[i] = pools[i] /\ userInfo'[i] = userInfo[i]
                           /\ depositInfo'[i] = depositInfo[i] /\ staked'[i] = staked[i]
      /\ poolInfo'[n + 1].allocPoint = points /\ poolInfo'[n + 1].virtualTotalSupply = 0
      /\ userInfo'[n + 1] = [u \in User |-> NoUserInfo]
      /\ depositInfo'[n + 1] = [u \in User |-> <<>>]
      /\ staked'[n + 1] = 0
      /\ totalAllocPoint' = totalAllocPoint + points
  BY AddToTypes
<1> HIDE DEF n
<1>2. /\ points \in Nat /\ IsFiniteSet(User) /\ totalAllocPoint \in Int
      /\ poolInfo \in [1 .. n -> Pool] /\ IsFiniteSet(1 .. n)
      /\ \A i \in 1 .. n : /\ pools[i].allocPoint = poolInfo[i].allocPoint
                           /\ pools[i].virtualTotalSupply = poolInfo[i].virtualTotalSupply
  BY <1>1, ChiefAssumption, PoolFacts DEF ChiefInv, Types, AsFound
<1>3. /\ 1 .. n + 1 = (1 .. n) \cup {n + 1} /\ n + 1 \notin 1 .. n
  BY <1>1
<1>4. AllocPointsAddUp'
  <2> DEFINE f == [i \in 1 .. n |-> poolInfo[i].allocPoint]
             g == [i \in 1 .. n + 1 |-> poolInfo'[i].allocPoint]
  <2>1. totalAllocPoint = SumFunctionOnSet(f, 1 .. n)
    BY <1>1, PointsAsSum DEF ChiefInv
  <2>2. AllocPointsAddUp' <=> totalAllocPoint' = SumFunctionOnSet(g, 1 .. n + 1)
    BY <1>1 DEF AllocPointsAddUp, SumOver, SumFunction, Pools
  <2>3. \A i \in 1 .. n : f[i] \in Int /\ g[i] = f[i] /\ g[i] \in Int
    <3> SUFFICES ASSUME NEW i \in 1 .. n
                 PROVE  f[i] \in Int /\ g[i] = f[i]
      OBVIOUS
    <3>1. poolInfo[i].allocPoint \in Int
      BY <1>2 DEF Pool
    <3>2. poolInfo'[i].allocPoint = poolInfo[i].allocPoint
      BY <1>1, <1>2
    <3>3. i \in 1 .. n + 1
      BY <1>3
    <3> QED
      BY <3>1, <3>2, <3>3
  <2>4. g[n + 1] = points
    BY <1>1, <1>3
  <2> HIDE DEF f, g
  <2> DEFINE S == 1 .. n
  <2>5. SumFunctionOnSet(g, (1 .. n) \cup {n + 1}) = g[n + 1] + SumFunctionOnSet(g, 1 .. n)
    <3>1. \A i \in (1 .. n) \cup {n + 1} : g[i] \in Int
      BY <1>2, <2>3, <2>4
    <3> QED
      BY <1>2, <1>3, <3>1, SumAdds
  <2>6. SumFunctionOnSet(g, 1 .. n) = SumFunctionOnSet(f, 1 .. n)
    <3>1. IsFiniteSet(S) /\ \A i \in S : g[i] = f[i]
      BY <1>2, <2>3
    <3> HIDE DEF S
    <3>2. SumFunctionOnSet(g, S) = SumFunctionOnSet(f, S)
      BY <3>1, SumAgrees
    <3> QED
      BY <3>2 DEF S
  <2>7. SumFunctionOnSet(g, 1 .. n + 1) = points + SumFunctionOnSet(f, 1 .. n)
    BY <1>3, <2>4, <2>5, <2>6
  <2> QED
    BY <1>1, <1>2, <2>1, <2>2, <2>7
<1>5. VirtualAmountsSuffice'
  <2>1. ASSUME NEW i \in 1 .. n
        PROVE  /\ SumFunction([u \in User |-> userInfo'[i][u].virtualAmount])
                    <= poolInfo'[i].virtualTotalSupply
               /\ \A u \in User : SumOver(depositInfo'[i][u], DepositVirtual)
                                    <= userInfo'[i][u].virtualAmount
    BY <1>1, <1>2 DEF ChiefInv, VirtualAmountsSuffice
  <2>2. SumFunction([u \in User |-> userInfo'[n + 1][u].virtualAmount]) = 0
    <3> DEFINE f == [u \in User |-> userInfo'[n + 1][u].virtualAmount]
    <3>1. \A u \in User : f[u] = 0
      BY <1>1, NothingStaked
    <3>2. SumFunction(f) = SumFunctionOnSet(f, User)
      BY DEF SumFunction
    <3>3. SumFunctionOnSet(f, User) = 0
      <4> HIDE DEF f
      <4> QED
        BY <1>2, <3>1, SumOfZeros
    <3> QED
      BY <3>2, <3>3
  <2>3. ASSUME NEW u \in User
        PROVE  SumOver(depositInfo'[n + 1][u], DepositVirtual) <= userInfo'[n + 1][u].virtualAmount
    <3>1. SumOver(<<>>, DepositVirtual) = 0
      BY NothingStaked, SumsAreTotals
    <3>2. depositInfo'[n + 1][u] = <<>> /\ userInfo'[n + 1][u] = NoUserInfo
      BY <1>1
    <3> QED
      BY <3>1, <3>2, NothingStaked
  <2>4. ASSUME NEW i \in 1 .. n + 1
        PROVE  /\ SumFunction([u \in User |-> userInfo'[i][u].virtualAmount])
                    <= poolInfo'[i].virtualTotalSupply
               /\ \A u \in User : SumOver(depositInfo'[i][u], DepositVirtual)
                                    <= userInfo'[i][u].virtualAmount
    <3>1. CASE i \in 1 .. n
      BY <2>1, <3>1
    <3>2. CASE i = n + 1
      <4>1. SumFunction([u \in User |-> userInfo'[i][u].virtualAmount])
              <= poolInfo'[i].virtualTotalSupply
        BY <1>1, <2>2, <3>2
      <4>2. ASSUME NEW u \in User
            PROVE  SumOver(depositInfo'[i][u], DepositVirtual) <= userInfo'[i][u].virtualAmount
        BY <2>3, <3>2
      <4> QED
        BY <4>1, <4>2
    <3> QED
      BY <1>3, <3>1, <3>2
  <2> QED
    BY <1>1, <2>4 DEF VirtualAmountsSuffice
<1>6. HoldingsAddUp'
  <2>1. ASSUME NEW i \in 1 .. n
        PROVE  staked'[i] = SumFunction([u \in User |-> Total(depositInfo'[i][u], AmountWorth)])
    BY <1>1 DEF ChiefInv, HoldingsAddUp
  <2>2. SumFunction([u \in User |-> Total(depositInfo'[n + 1][u], AmountWorth)]) = 0
    <3> DEFINE f == [u \in User |-> Total(depositInfo'[n + 1][u], AmountWorth)]
    <3>1. \A u \in User : f[u] = 0
      BY <1>1, NothingStaked
    <3>2. SumFunction(f) = SumFunctionOnSet(f, User)
      BY DEF SumFunction
    <3>3. SumFunctionOnSet(f, User) = 0
      <4> HIDE DEF f
      <4> QED
        BY <1>2, <3>1, SumOfZeros
    <3> QED
      BY <3>2, <3>3
  <2> QED
    BY <1>1, <1>3, <2>1, <2>2 DEF HoldingsAddUp
<1> QED
  BY <1>1, <1>4, <1>5, <1>6 DEF ChiefInv

(* add, called on its own *)
LEMMA AddTypes ==
  ASSUME ChiefInv, NEW caller, NEW points \in AllocPoints, NEW data \in RewardData,
         Add(caller, points, data)
  PROVE  LET n == Len(poolInfo)
         IN  /\ n \in Nat /\ Pools = 1 .. n /\ Pools' = 1 .. n + 1
             /\ Types' /\ UpdatesArePast'
             /\ \A i \in 1 .. n : /\ poolInfo'[i] = poolInfo[i] /\ userInfo'[i] = userInfo[i]
                                  /\ depositInfo'[i] = depositInfo[i] /\ staked'[i] = staked[i]
             /\ userInfo'[n + 1] = [u \in User |-> NoUserInfo]
             /\ depositInfo'[n + 1] = [u \in User |-> <<>>]
<1>1. AddTo(poolInfo, emitted, caller, points, data) /\ AsFound(poolInfo, emitted)
  BY NotUpdated DEF Add
<1> QED
  BY <1>1, AddToTypes

LEMMA AddKeeps ==
  ASSUME ChiefInv, NEW caller, NEW points \in AllocPoints, NEW data \in RewardData,
         Add(caller, points, data)
  PROVE  ChiefInv'
BY NotUpdated, AddToKeeps DEF Add

(* At first there are no pools: all sums are empty. *)
LEMMA NoPools ==
  ASSUME Init
  PROVE  ChiefInv
<1>1. /\ poolInfo \in Seq(Pool) /\ Pools = {}
  BY EmptySeq DEF Init, Pools
<1>2. Types
  <2>1. block \in 1 .. MaxBlock
    BY ChiefAssumption DEF Init
  <2>2. tribePerBlock \in Nat /\ tribe \in Nat
    BY ChiefAssumption DEF Init
  <2>3. totalAllocPoint \in Int
    BY DEF Init
  <2>4. paused \in BOOLEAN
    BY DEF Init
  <2>5. ASSUME NEW S PROVE <<>> \in [{} -> S]
    OBVIOUS
  <2>6. /\ rewardMultipliers \in [Pools -> [Locks -> Nat]]
        /\ userInfo \in [Pools -> [User -> Info]]
        /\ depositInfo \in [Pools -> [User -> Seq(Record)]]
        /\ staked \in [Pools -> Int]
        /\ emitted \in [Pools -> Nat] /\ paid \in [Pools -> Nat] /\ roundings \in [Pools -> Nat]
    BY <1>1, <2>5 DEF Init
  <2> QED
    BY <1>1, <2>1, <2>2, <2>3, <2>4, <2>6 DEF Types
<1>3. AllocPointsAddUp
  BY <1>1, PointsAsSum, SumOfNone DEF Init
<1> QED
  BY <1>1, <1>2, <1>3 DEF ChiefInv, UpdatesArePast, VirtualAmountsSuffice, HoldingsAddUp

LEMMA StutterKeeps ==
  ASSUME ChiefInv, UNCHANGED vars
  PROVE  ChiefInv'
BY DEF ChiefInv, vars, settings, books, Types, Pools, UpdatesArePast, AllocPointsAddUp,
       VirtualAmountsSuffice, HoldingsAddUp, SumOver, Total

(* Every action keeps the invariant. *)
LEMMA NextKeeps ==
  ASSUME ChiefInv, [Next]_vars
  PROVE  ChiefInv'
<1>1. CASE UNCHANGED vars
  BY <1>1, StutterKeeps
<1>2. CASE AdvanceBlock
  BY <1>2, AdvanceBlockKeeps
<1>3. ASSUME NEW caller \in Governor \cup Admin \cup Guardian,
             \/ \E r \in Rewards : UpdateBlockReward(caller, r)
             \/ \E n \in TribeAmounts : GovernorWithdrawTribe(caller, n)
             \/ \E points \in AllocPoints, data \in RewardData : Add(caller, points, data)
             \/ Pause(caller)
      PROVE  ChiefInv'
  BY <1>3, UpdateBlockRewardKeeps, GovernorWithdrawTribeKeeps, AddKeeps, PauseKeeps
<1>4. ASSUME NEW caller \in Governor \cup Admin \cup Guardian, NEW pid \in Pools,
             \/ \E unlocked \in BOOLEAN : LockPool(caller, pid, unlocked)
             \/ \E lock \in Locks, m \in Multipliers :
                  GovernorAddPoolMultiplier(caller, pid, lock, m)
             \/ \E points \in AllocPoints : Set(caller, pid, points)
             \/ ResetRewards(caller, pid)
      PROVE  ChiefInv'
  BY <1>4, LockPoolKeeps, GovernorAddPoolMultiplierKeeps, SetKeeps, ResetRewardsKeeps
<1>5. CASE \E pids \in SUBSET Pools : MassUpdatePools(pids)
  BY <1>5, MassUpdatePoolsKeeps
<1>6. ASSUME NEW pid \in Pools, UpdatePool(pid)
      PROVE  ChiefInv'
  BY <1>6, UpdatePoolKeeps
<1>7. ASSUME NEW pid \in Pools, NEW u \in User,
             \/ \E n \in Amounts :
                  \/ \E lock \in Locks : Deposit(u, pid, n, lock)
                  \/ \E i \in DOMAIN depositInfo[pid][u] : WithdrawFromDeposit(u, pid, n, i)
             \/ WithdrawAllAndHarvest(u, pid)
             \/ Harvest(u, pid)
             \/ EmergencyWithdraw(u, pid)
      PROVE  ChiefInv'
  BY <1>7, DepositKeeps, WithdrawFromDepositKeeps, WithdrawAllAndHarvestKeeps, HarvestKeeps,
     EmergencyWithdrawKeeps
<1> QED
  BY <1>1, <1>2, <1>3, <1>4, <1>5, <1>6, <1>7 DEF Next

(* What the sums add: the total of the points and all holdings are in Nat. *)
LEMMA InvariantType ==
  ASSUME ChiefInv
  PROVE  TypeOK
<1>1. /\ Types /\ UpdatesArePast /\ AllocPointsAddUp /\ HoldingsAddUp
      /\ poolInfo \in Seq(Pool) /\ Len(poolInfo) \in Nat /\ Pools = 1 .. Len(poolInfo)
      /\ poolInfo \in [Pools -> Pool] /\ totalAllocPoint \in Nat
  BY PoolFacts, PointsType DEF ChiefInv, Types
<1> DEFINE Dated == [allocPoint : Nat, virtualTotalSupply : Nat, lastRewardBlock : 1 .. block,
                     accTribePerShare : Nat, unlocked : BOOLEAN]
<1>2. poolInfo \in Seq(Dated)
  <2>1. \A i \in Pools : poolInfo[i] \in Dated
    BY <1>1 DEF UpdatesArePast, Pool
  <2>2. poolInfo \in [1 .. Len(poolInfo) -> Dated]
    BY <1>1, <2>1
  <2> HIDE DEF Dated
  <2> QED
    BY <1>1, <2>2, SeqDef
<1>3. \A pid \in Pools : staked[pid] \in Nat
  <2> SUFFICES ASSUME NEW pid \in Pools
               PROVE  staked[pid] \in Nat
    OBVIOUS
  <2> DEFINE f == [u \in User |-> Total(depositInfo[pid][u], AmountWorth)]
  <2>1. IsFiniteSet(User)
    BY ChiefAssumption
  <2>2. \A u \in User : f[u] \in Nat
    <3>1. \A u \in User : depositInfo[pid][u] \in Seq(Record)
      BY <1>1 DEF Types
    <3> QED
      BY <3>1, WorthTypes, TotalType
  <2>3. staked[pid] = SumFunction(f)
    BY <1>1 DEF HoldingsAddUp
  <2>4. SumFunction(f) = SumFunctionOnSet(f, User)
    BY DEF SumFunction
  <2>5. SumFunctionOnSet(f, User) \in Nat
    <3> HIDE DEF f
    <3> QED
      BY <2>1, <2>2, SumIsNat
  <2> QED
    BY <2>3, <2>4, <2>5
<1>4. {staked, emitted, paid, roundings} \subseteq [Pools -> Nat]
  BY <1>1, <1>3 DEF Types
<1>5. {tribePerBlock, totalAllocPoint, tribe} \subseteq Nat
  BY <1>1 DEF Types
<1>6. block \in 1 .. MaxBlock /\ paused \in BOOLEAN
  BY <1>1 DEF Types
<1>7. /\ rewardMultipliers \in [Pools -> [Locks -> Nat]]
      /\ userInfo \in [Pools -> [User -> [rewardDebt : Int, virtualAmount : Nat]]]
      /\ depositInfo
           \in [Pools -> [User -> Seq([amount : Nat, unlockBlock : Nat, multiplier : Nat])]]
  BY <1>1 DEF Types, Info, Record
<1> QED
  BY <1>2, <1>4, <1>5, <1>6, <1>7 DEF TypeOK

----------------------------------------------------------------------------
LEMMA ChiefInvariant == Spec => []ChiefInv
<1>1. Init => ChiefInv
  BY NoPools
<1>2. ChiefInv /\ [Next]_vars => ChiefInv'
  BY NextKeeps
<1> QED
  BY <1>1, <1>2, PTL DEF Spec

(* Every value has the type of its variable in TribalChief.sol:28-106: no unsigned    *)
(* subtraction wraps, not even that of the tokens a pool holds or of all points, and  *)
(* no pool was updated in a block to come.                                             *)
THEOREM ChiefTypeCorrect == Spec => []TypeOK
<1>1. ChiefInv => TypeOK
  BY InvariantType
<1> QED
  BY <1>1, ChiefInvariant, PTL

(* TribalChief.sol:95.  However pools are added, set and reset, the total of the      *)
(* points is that of all pools: each gets its share of the rewards.                    *)
THEOREM PointsAddUp == Spec => []AllocPointsAddUp
<1>1. ChiefInv => AllocPointsAddUp
  BY DEF ChiefInv
<1> QED
  BY <1>1, ChiefInvariant, PTL

(* TribalChief.sol:417-424, 490-505, 542-549, 624-628.  The virtual amounts that a    *)
(* withdrawal subtracts never exceed what they are subtracted from, in whatever parts *)
(* a deposit is taken and however each part is rounded.                                *)
THEOREM WithdrawalsSuffice == Spec => []VirtualAmountsSuffice
<1>1. ChiefInv => VirtualAmountsSuffice
  BY DEF ChiefInv
<1> QED
  BY <1>1, ChiefInvariant, PTL

(* TribalChief.sol:393-640.  What the contract holds of the token of a pool is the    *)
(* sum of all deposits that are recorded in it: everybody can be paid out.             *)
THEOREM HoldingsAreDeposits == Spec => []HoldingsAddUp
<1>1. ChiefInv => HoldingsAddUp
  BY DEF ChiefInv
<1> QED
  BY <1>1, ChiefInvariant, PTL

----------------------------------------------------------------------------
(* The refinement: a step maps to a Put, a Take, an Unlock, or nothing.  What  *)
(* a pool holds is the sum of the stakes in every state, so only stakes need   *)
(* to be followed.                                                              *)

Held(pid) == IF pid \in Pools THEN staked[pid] ELSE 0
Stakes(pid) == [u \in User |-> StakeOf(pid, u, LAMBDA d : TRUE)]
Frees(pid) == [u \in User |-> StakeOf(pid, u, LAMBDA d : IsFree(d, poolInfo[pid]))]
FreeWorth(pid) == [d \in Record |-> IF IsFree(d, poolInfo[pid]) THEN d.amount ELSE 0]

(* Less worth each, less worth together. *)
LEMMA TotalKeepsOrder ==
  ASSUME NEW ds \in Seq(Record), NEW v \in [Record -> Nat], NEW w \in [Record -> Nat],
         \A d \in Record : v[d] <= w[d]
  PROVE  Total(ds, v) <= Total(ds, w)
<1> DEFINE f == [i \in DOMAIN ds |-> v[ds[i]]]
           g == [i \in DOMAIN ds |-> w[ds[i]]]
<1>1. IsFiniteSet(DOMAIN ds) /\ \A i \in DOMAIN ds : ds[i] \in Record
  BY TotalTerms
<1>2. \A i \in DOMAIN ds : f[i] \in Int /\ g[i] \in Int /\ f[i] <= g[i]
  BY <1>1
<1>3. SumFunctionOnSet(f, DOMAIN ds) <= SumFunctionOnSet(g, DOMAIN ds)
  <2> HIDE DEF f, g
  <2> QED
    BY <1>1, <1>2, SumKeepsOrder
<1> QED
  BY <1>3 DEF Total

(* The sums of the refinement, as totals *)
LEMMA StakesAreTotals ==
  ASSUME NEW pid \in Pools, NEW u \in User, depositInfo[pid][u] \in Seq(Record)
  PROVE  /\ Stakes(pid)[u] = Total(depositInfo[pid][u], AmountWorth)
         /\ Frees(pid)[u] = Total(depositInfo[pid][u], FreeWorth(pid))
<1>1. PICK ds \in Seq(Record) : ds = depositInfo[pid][u]
  OBVIOUS
<1>2. \A i \in DOMAIN ds : ds[i] \in Record
  BY TotalTerms, WorthTypes
<1>3. /\ Stakes(pid)[u] = SumFunction([i \in DOMAIN ds |-> ds[i].amount])
      /\ Frees(pid)[u] = SumFunction([i \in DOMAIN ds |->
                           IF IsFree(ds[i], poolInfo[pid]) THEN ds[i].amount ELSE 0])
  BY <1>1 DEF Stakes, Frees, StakeOf, SumOver
<1>4. [i \in DOMAIN ds |-> ds[i].amount] = [i \in DOMAIN ds |-> AmountWorth[ds[i]]]
  BY <1>2 DEF AmountWorth
<1>5. [i \in DOMAIN ds |-> IF IsFree(ds[i], poolInfo[pid]) THEN ds[i].amount ELSE 0]
        = [i \in DOMAIN ds |-> FreeWorth(pid)[ds[i]]]
  BY <1>2 DEF FreeWorth
<1> QED
  BY <1>1, <1>3, <1>4, <1>5 DEF Total, SumFunction

(* What is free of a deposit is no more than the deposit. *)
LEMMA FreeWorthType ==
  ASSUME NEW pid
  PROVE  /\ FreeWorth(pid) \in [Record -> Nat]
         /\ \A d \in Record : FreeWorth(pid)[d] <= AmountWorth[d]
<1>1. \A d \in Record : d.amount \in Nat
  BY DEF Record
<1> QED
  BY <1>1 DEF FreeWorth, AmountWorth

(* A pool is in every state what an escrow may be: it holds what all have in *)
(* it, of which each may take at most its own.                               *)
LEMMA PoolIsEscrow ==
  ASSUME ChiefInv, NEW pid
  PROVE  /\ Stakes(pid) \in [User -> Nat] /\ Frees(pid) \in [User -> Nat]
         /\ Held(pid) = SumFunctionOnSet(Stakes(pid), User)
         /\ \A u \in User : Frees(pid)[u] \in 0 .. Held(pid)
<1>1. CASE pid \notin Pools
  <2>1. /\ Stakes(pid) = [u \in User |-> 0] /\ Frees(pid) = [u \in User |-> 0] /\ Held(pid) = 0
    BY <1>1 DEF Stakes, Frees, Held, StakeOf
  <2>2. SumFunctionOnSet(Stakes(pid), User) = 0
    <3>1. IsFiniteSet(User) /\ \A u \in User : Stakes(pid)[u] = 0
      BY <2>1, ChiefAssumption
    <3> QED
      BY <3>1, SumOfZeros
  <2> QED
    BY <2>1, <2>2
<1>2. CASE pid \in Pools
  <2>1. ASSUME NEW u \in User
        PROVE  /\ Stakes(pid)[u] = Total(depositInfo[pid][u], AmountWorth)
               /\ Stakes(pid)[u] \in Nat /\ Frees(pid)[u] \in Nat
               /\ Frees(pid)[u] <= Stakes(pid)[u]
    <3>1. depositInfo[pid][u] \in Seq(Record)
      BY <1>2, StakeType
    <3>2. /\ Stakes(pid)[u] = Total(depositInfo[pid][u], AmountWorth)
          /\ Frees(pid)[u] = Total(depositInfo[pid][u], FreeWorth(pid))
      BY <1>2, <3>1, StakesAreTotals
    <3>3. /\ Total(depositInfo[pid][u], AmountWorth) \in Nat
          /\ Total(depositInfo[pid][u], FreeWorth(pid)) \in Nat
      BY <3>1, WorthTypes, FreeWorthType, TotalType
    <3>4. Total(depositInfo[pid][u], FreeWorth(pid)) <= Total(depositInfo[pid][u], AmountWorth)
      BY <3>1, WorthTypes, FreeWorthType, TotalKeepsOrder
    <3> QED
      BY <3>2, <3>3, <3>4
  <2>2. Stakes(pid) \in [User -> Nat] /\ Frees(pid) \in [User -> Nat]
    <3>1. /\ Stakes(pid) = [u \in User |-> Stakes(pid)[u]]
          /\ Frees(pid) = [u \in User |-> Frees(pid)[u]]
      BY DEF Stakes, Frees
    <3> QED
      BY <2>1, <3>1
  <2>3. Held(pid) = SumFunctionOnSet(Stakes(pid), User)
    <3>1. staked[pid] = SumFunction([u \in User |-> Total(depositInfo[pid][u], AmountWorth)])
      BY <1>2 DEF ChiefInv, HoldingsAddUp
    <3>2. Stakes(pid) = [u \in User |-> Total(depositInfo[pid][u], AmountWorth)]
      BY <2>1, <2>2
    <3> QED
      BY <1>2, <3>1, <3>2 DEF Held, SumFunction
  <2>4. ASSUME NEW u \in User
        PROVE  Frees(pid)[u] \in 0 .. Held(pid)
    <3>1. SumFunctionOnSet(Stakes(pid), User)
            = Stakes(pid)[u] + SumFunctionOnSet(Stakes(pid), User \ {u})
      <4>1. IsFiniteSet(User) /\ \A v \in User : Stakes(pid)[v] \in Int
        BY <2>1, ChiefAssumption
      <4> QED
        BY <4>1, SumTakes
    <3>2. SumFunctionOnSet(Stakes(pid), User \ {u}) \in Nat
      <4>1. IsFiniteSet(User \ {u}) /\ \A v \in User \ {u} : Stakes(pid)[v] \in Nat
        BY <2>1, ChiefAssumption, FS_Difference
      <4> QED
        BY <4>1, SumIsNat
    <3> QED
      BY <2>1, <2>3, <3>1, <3>2
  <2> QED
    BY <2>2, <2>3, <2>4
<1> QED
  BY <1>1, <1>2

IsEscrow ==
  \A pid \in 1 .. MaxPools :
    /\ Stakes(pid) \in [User -> Nat] /\ Frees(pid) \in [User -> Nat]
    /\ Held(pid) = SumFunctionOnSet(Stakes(pid), User)
    /\ \A u \in User : Frees(pid)[u] \in 0 .. Held(pid)

(* The sum of the escrow is that of the model. *)
LEMMA EscrowSum ==
  ASSUME NEW pid, NEW f, NEW S
  PROVE  Escrow(pid)!SumFunctionOnSet(f, S) = SumFunctionOnSet(f, S)
BY DEF SumFunctionOnSet, FoldFunctionOnSet, MapThenFoldSet, Escrow!SumFunctionOnSet,
       Escrow!FoldFunctionOnSet, Escrow!MapThenFoldSet

PoolsHold == \A pid \in 1 .. MaxPools : Escrow(pid)!Holds

LEMMA EscrowHolds ==
  ASSUME ChiefInv
  PROVE  IsEscrow /\ PoolsHold
<1>1. IsEscrow
  BY PoolIsEscrow DEF IsEscrow
<1>2. ASSUME NEW pid \in 1 .. MaxPools PROVE Escrow(pid)!Holds
  <2>1. Held(pid) = SumFunctionOnSet(Stakes(pid), User)
    BY PoolIsEscrow
  <2>2. Escrow(pid)!SumFunctionOnSet(Stakes(pid), User) = SumFunctionOnSet(Stakes(pid), User)
    BY EscrowSum
  <2>3. Escrow(pid)!Holds <=> Held(pid) = Escrow(pid)!SumFunctionOnSet(Stakes(pid), User)
    BY DEF Held, Stakes, Escrow!Holds
  <2> QED
    BY <2>1, <2>2, <2>3
<1> QED
  BY <1>1, <1>2 DEF PoolsHold

LEMMA EscrowHoldsAfter == ChiefInv' => (IsEscrow /\ PoolsHold)'
<1>1. ChiefInv => IsEscrow /\ PoolsHold
  BY EscrowHolds
<1> QED
  BY <1>1, PTL

(* The steps of the escrow in these terms *)
LEMMA EscrowStays ==
  ASSUME NEW pid \in 1 .. MaxPools, UNCHANGED <<Held(pid), Stakes(pid), Frees(pid)>>
  PROVE  UNCHANGED Escrow(pid)!vars
BY DEF Held, Stakes, Frees, Escrow!vars

LEMMA EscrowUnlocks ==
  ASSUME IsEscrow', PoolsHold', NEW pid \in 1 .. MaxPools, UNCHANGED <<Held(pid), Stakes(pid)>>
  PROVE  Escrow(pid)!Next
<1>1. Frees(pid)' \in [User -> 0 .. Held(pid)']
  BY DEF IsEscrow
<1>2. Escrow(pid)!Unlock
  BY <1>1 DEF Held, Stakes, Frees, Escrow!Unlock
<1>3. Escrow(pid)!Holds'
  BY DEF PoolsHold
<1> QED
  BY <1>2, <1>3 DEF Escrow!Next

LEMMA EscrowMoves ==
  ASSUME IsEscrow', PoolsHold', NEW pid \in 1 .. MaxPools, NEW u \in User,
         \A v \in User \ {u} :
           Stakes(pid)'[v] = Stakes(pid)[v] /\ Frees(pid)'[v] = Frees(pid)[v],
         \/ /\ Stakes(pid)'[u] > Stakes(pid)[u]
            /\ Frees(pid)'[u] - Frees(pid)[u] \in {0, Stakes(pid)'[u] - Stakes(pid)[u]}
         \/ /\ Stakes(pid)'[u] < Stakes(pid)[u]
            /\ Stakes(pid)[u] - Stakes(pid)'[u] = Frees(pid)[u] - Frees(pid)'[u]
  PROVE  Escrow(pid)!Next
<1>1. Frees(pid)'[u] >= 0
  BY DEF IsEscrow
<1>2. Escrow(pid)!Put(u) \/ Escrow(pid)!Take(u)
  BY <1>1 DEF Stakes, Frees, Escrow!Put, Escrow!Take
<1>3. Escrow(pid)!Holds'
  BY DEF PoolsHold
<1> QED
  BY <1>2, <1>3 DEF Escrow!Next

EscrowStep(pid) == [Escrow(pid)!Next]_(Escrow(pid)!vars)

StakesInTotals ==
  \A pid \in Pools, u \in User :
    /\ Stakes(pid)[u] = Total(depositInfo[pid][u], AmountWorth)
    /\ Frees(pid)[u] = Total(depositInfo[pid][u], FreeWorth(pid))

LEMMA TotalsAfter == ChiefInv' => StakesInTotals'
<1>1. ChiefInv => StakesInTotals
  BY StakesAreTotals, StakeType DEF StakesInTotals
<1> QED
  BY <1>1, PTL

(* The terms after a step in which the deposits of a pool stay locked or free *)
LEMMA LocksKept ==
  ASSUME ChiefInv, ChiefInv', UNCHANGED block, NEW pid \in Pools, pid \in Pools',
         poolInfo'[pid].unlocked = poolInfo[pid].unlocked
  PROVE  \A u \in User :
           /\ Stakes(pid)'[u] = Total(depositInfo'[pid][u], AmountWorth)
           /\ Frees(pid)'[u] = Total(depositInfo'[pid][u], FreeWorth(pid))
           /\ Stakes(pid)[u] = Total(depositInfo[pid][u], AmountWorth)
           /\ Frees(pid)[u] = Total(depositInfo[pid][u], FreeWorth(pid))
<1>1. FreeWorth(pid)' = FreeWorth(pid)
  BY DEF FreeWorth, IsFree
<1>2. ASSUME NEW u \in User
      PROVE  /\ Stakes(pid)'[u] = Total(depositInfo'[pid][u], AmountWorth)
             /\ Frees(pid)'[u] = Total(depositInfo'[pid][u], FreeWorth(pid)')
  <2>1. AmountWorth' = AmountWorth
    BY DEF AmountWorth
  <2>2. /\ Stakes(pid)'[u] = Total(depositInfo[pid][u], AmountWorth)'
        /\ Frees(pid)'[u] = Total(depositInfo[pid][u], FreeWorth(pid))'
    BY TotalsAfter DEF StakesInTotals
  <2> QED
    BY <2>1, <2>2 DEF Total
<1> QED
  BY <1>1, <1>2, StakesAreTotals, StakeType

(* A pool holds the same as long as all stakes are the same. *)
LEMMA SameStakes ==
  ASSUME ChiefInv, ChiefInv', NEW pid \in 1 .. MaxPools,
         \A u \in User : Stakes(pid)'[u] = Stakes(pid)[u]
  PROVE  UNCHANGED <<Held(pid), Stakes(pid)>>
<1>1. /\ Stakes(pid) \in [User -> Nat] /\ Stakes(pid)' \in [User -> Nat]
      /\ Held(pid) = SumFunctionOnSet(Stakes(pid), User)
      /\ Held(pid)' = SumFunctionOnSet(Stakes(pid)', User)
  BY EscrowHolds, EscrowHoldsAfter DEF IsEscrow
<1>2. Stakes(pid)' = Stakes(pid)
  BY <1>1
<1> QED
  BY <1>1, <1>2

(* Nobody's stake changes. *)
LEMMA StakesStay ==
  ASSUME ChiefInv, ChiefInv', NEW pid \in 1 .. MaxPools,
         \A u \in User : Stakes(pid)'[u] = Stakes(pid)[u]
  PROVE  EscrowStep(pid)
<1>1. UNCHANGED <<Held(pid), Stakes(pid)>>
  BY SameStakes
<1>2. Escrow(pid)!Next
  BY <1>1, EscrowHoldsAfter, EscrowUnlocks
<1> QED
  BY <1>2 DEF EscrowStep

(* Transactions that leave all deposits alone at most unlock some. *)
LEMMA DepositsStay ==
  ASSUME ChiefInv, ChiefInv', Pools' = Pools, UNCHANGED depositInfo
  PROVE  \A pid \in 1 .. MaxPools : EscrowStep(pid)
<1> SUFFICES ASSUME NEW pid \in 1 .. MaxPools
             PROVE  EscrowStep(pid)
  OBVIOUS
<1>1. Stakes(pid)' = Stakes(pid)
  BY DEF Stakes, StakeOf, SumOver
<1> QED
  BY <1>1, StakesStay

(* One user puts a into a pool, free or locked, or takes a of what is free. *)
LEMMA StakesMove ==
  ASSUME ChiefInv, ChiefInv', NEW u \in User, NEW pid \in Pools, NEW ds, NEW a \in Nat,
         Pools' = Pools, UNCHANGED block,
         poolInfo'[pid].unlocked = poolInfo[pid].unlocked,
         depositInfo' = [depositInfo EXCEPT ![pid] = [depositInfo[pid] EXCEPT ![u] = ds]],
         \/ /\ Total(ds, AmountWorth) = Total(depositInfo[pid][u], AmountWorth) + a
            /\ Total(ds, FreeWorth(pid)) - Total(depositInfo[pid][u], FreeWorth(pid)) \in {0, a}
         \/ /\ Total(ds, AmountWorth) = Total(depositInfo[pid][u], AmountWorth) - a
            /\ Total(ds, FreeWorth(pid)) = Total(depositInfo[pid][u], FreeWorth(pid)) - a
  PROVE  \A p \in 1 .. MaxPools : EscrowStep(p)
<1> SUFFICES ASSUME NEW p \in 1 .. MaxPools
             PROVE  EscrowStep(p)
  OBVIOUS
<1>1. depositInfo \in [Pools -> [User -> Seq(Record)]]
  BY DEF ChiefInv, Types
<1>2. CASE p # pid
  <2>1. Stakes(p)' = Stakes(p)
    <3>1. p \in Pools => depositInfo'[p] = depositInfo[p]
      BY <1>1, <1>2
    <3> QED
      BY <3>1 DEF Stakes, StakeOf, SumOver
  <2> QED
    BY <2>1, StakesStay
<1>3. CASE p = pid
  <2>1. /\ depositInfo'[pid][u] = ds
        /\ \A v \in User \ {u} : depositInfo'[pid][v] = depositInfo[pid][v]
    BY <1>1
  <2>2. \A v \in User :
           /\ Stakes(pid)'[v] = Total(depositInfo'[pid][v], AmountWorth)
           /\ Frees(pid)'[v] = Total(depositInfo'[pid][v], FreeWorth(pid))
           /\ Stakes(pid)[v] = Total(depositInfo[pid][v], AmountWorth)
           /\ Frees(pid)[v] = Total(depositInfo[pid][v], FreeWorth(pid))
    BY LocksKept
  <2>3. \A v \in User \ {u} :
           Stakes(pid)'[v] = Stakes(pid)[v] /\ Frees(pid)'[v] = Frees(pid)[v]
    BY <2>1, <2>2
  <2>4. /\ IsEscrow /\ IsEscrow' /\ PoolsHold'
        /\ Stakes(pid)[u] \in Nat /\ Stakes(pid)'[u] \in Nat
        /\ Frees(pid)[u] \in Nat /\ Frees(pid)'[u] \in Nat
    BY <1>3, EscrowHolds, EscrowHoldsAfter DEF IsEscrow
  <2>5. \/ /\ Stakes(pid)'[u] = Stakes(pid)[u] + a
           /\ Frees(pid)'[u] - Frees(pid)[u] \in {0, a}
        \/ /\ Stakes(pid)'[u] = Stakes(pid)[u] - a
           /\ Frees(pid)'[u] = Frees(pid)[u] - a
    BY <2>1, <2>2
  <2>6. CASE a = 0
    <3>1. \A v \in User : Stakes(pid)'[v] = Stakes(pid)[v]
      BY <2>3, <2>4, <2>5, <2>6
    <3> QED
      BY <1>3, <3>1, StakesStay
  <2>7. CASE a # 0
    <3>1. \/ /\ Stakes(pid)'[u] > Stakes(pid)[u]
             /\ Frees(pid)'[u] - Frees(pid)[u] \in {0, Stakes(pid)'[u] - Stakes(pid)[u]}
          \/ /\ Stakes(pid)'[u] < Stakes(pid)[u]
             /\ Stakes(pid)[u] - Stakes(pid)'[u] = Frees(pid)[u] - Frees(pid)'[u]
      BY <2>4, <2>5, <2>7
    <3>2. Escrow(pid)!Next
      BY <1>3, <2>3, <2>4, <3>1, EscrowMoves
    <3> QED
      BY <1>3, <3>2 DEF EscrowStep
  <2> QED
    BY <2>6, <2>7
<1> QED
  BY <1>2, <1>3

(* What users do does not unlock a pool. *)
LEMMA UnlockedKept ==
  ASSUME ChiefInv, NEW pid \in Pools, NEW v,
         poolInfo' = [poolInfo EXCEPT ![pid] = [UpdatedPool(pid) EXCEPT !.virtualTotalSupply = v]]
  PROVE  Pools' = Pools /\ poolInfo'[pid].unlocked = poolInfo[pid].unlocked
<1>1. /\ UpdatedPool(pid) \in Pool /\ UpdatedPool(pid).unlocked = poolInfo[pid].unlocked
      /\ poolInfo \in [Pools -> Pool]
  BY UpdatedPoolType, PoolFacts DEF ChiefInv
<1>2. [UpdatedPool(pid) EXCEPT !.virtualTotalSupply = v].unlocked = UpdatedPool(pid).unlocked
  BY <1>1 DEF Pool
<1>3. Pools' = Pools
  BY DEF Pools
<1> QED
  BY <1>1, <1>2, <1>3

LEMMA DepositPuts ==
  ASSUME ChiefInv, ChiefInv', NEW u \in User, NEW pid \in Pools, NEW n \in Amounts,
         NEW lock \in Locks, Deposit(u, pid, n, lock)
  PROVE  \A p \in 1 .. MaxPools : EscrowStep(p)
<1> DEFINE ds == depositInfo[pid][u]
           multiplier == rewardMultipliers[pid][lock]
           d == [amount |-> n, unlockBlock |-> lock + block, multiplier |-> multiplier]
<1>1. Types
  BY DEF ChiefInv
<1>2. n \in Nat /\ d \in Record /\ d.amount = n
  <2>1. n \in Nat /\ lock \in Nat /\ block \in Nat /\ multiplier \in Nat
    BY <1>1, ChiefAssumption DEF Types
  <2>2. lock + block \in Nat
    BY <2>1
  <2> HIDE DEF multiplier
  <2> QED
    BY <2>1, <2>2 DEF Record
<1>3. ds \in Seq(Record)
  BY StakeType
<1>4. AmountWorth[d] = n /\ FreeWorth(pid)[d] \in {0, n}
  <2> HIDE DEF d
  <2> QED
    BY <1>2 DEF AmountWorth, FreeWorth
<1>5. /\ Total(Append(ds, d), AmountWorth) = Total(ds, AmountWorth) + AmountWorth[d]
      /\ Total(Append(ds, d), FreeWorth(pid)) = Total(ds, FreeWorth(pid)) + FreeWorth(pid)[d]
      /\ Total(ds, FreeWorth(pid)) \in Nat
  <2> HIDE DEF ds, d
  <2> QED
    BY <1>2, <1>3, WorthTypes, FreeWorthType, TotalAppends, TotalType
<1>6. /\ depositInfo' = [depositInfo EXCEPT ![pid] = [depositInfo[pid] EXCEPT ![u] = Append(ds, d)]]
      /\ UNCHANGED block
  BY DEF Deposit, DepositInto
<1>7. Pools' = Pools /\ poolInfo'[pid].unlocked = poolInfo[pid].unlocked
  BY UnlockedKept DEF Deposit, DepositInto
<1>8. /\ Total(Append(ds, d), AmountWorth) = Total(ds, AmountWorth) + n
      /\ Total(Append(ds, d), FreeWorth(pid)) - Total(ds, FreeWorth(pid)) \in {0, n}
  <2> HIDE DEF ds, d
  <2> QED
    BY <1>2, <1>4, <1>5
<1> HIDE DEF d
<1> QED
  BY <1>2, <1>6, <1>7, <1>8, StakesMove

LEMMA WithdrawFromDepositTakes ==
  ASSUME ChiefInv, ChiefInv', NEW u \in User, NEW pid \in Pools, NEW n \in Amounts,
         NEW i \in DOMAIN depositInfo[pid][u], WithdrawFromDeposit(u, pid, n, i)
  PROVE  \A p \in 1 .. MaxPools : EscrowStep(p)
<1> DEFINE ds == depositInfo[pid][u]
           d == ds[i]
           less == [d EXCEPT !.amount = @ - n]
           new == [ds EXCEPT ![i] = less]
<1>1. /\ n \in Nat /\ ds \in Seq(Record) /\ d \in Record
  BY ChiefAssumption, StakeType, WorthTypes, TotalTerms
<1>2. n <= d.amount /\ IsFree(d, poolInfo[pid])
  <2>1. n <= d.amount /\ IsFree(d, UpdatedPool(pid))
    BY DEF WithdrawFromDeposit
  <2>2. UpdatedPool(pid).unlocked = poolInfo[pid].unlocked
    BY UpdatedPoolType DEF ChiefInv
  <2> QED
    BY <2>1, <2>2 DEF IsFree
<1>3. /\ less \in Record /\ less.amount = d.amount - n /\ less.unlockBlock = d.unlockBlock
      /\ d.amount \in Nat
  <2> HIDE DEF d
  <2>1. d.amount \in Nat /\ d.amount - n \in Nat
    BY <1>1, <1>2 DEF Record
  <2> QED
    BY <1>1, <2>1 DEF Record
<1>4. /\ AmountWorth[less] = AmountWorth[d] - n
      /\ FreeWorth(pid)[less] = FreeWorth(pid)[d] - n
      /\ AmountWorth[d] \in Nat /\ FreeWorth(pid)[d] \in Nat
  <2> HIDE DEF d, less
  <2>1. IsFree(less, poolInfo[pid])
    BY <1>2, <1>3 DEF IsFree
  <2>2. /\ AmountWorth[less] = d.amount - n /\ AmountWorth[d] = d.amount
        /\ FreeWorth(pid)[less] = d.amount - n /\ FreeWorth(pid)[d] = d.amount
    BY <1>1, <1>2, <1>3, <2>1 DEF AmountWorth, FreeWorth
  <2> QED
    BY <1>3, <2>2
<1>5. /\ Total(new, AmountWorth) = Total(ds, AmountWorth) - AmountWorth[d] + AmountWorth[less]
      /\ Total(new, FreeWorth(pid))
           = Total(ds, FreeWorth(pid)) - FreeWorth(pid)[d] + FreeWorth(pid)[less]
      /\ Total(ds, AmountWorth) \in Nat /\ Total(ds, FreeWorth(pid)) \in Nat
  <2> HIDE DEF less
  <2> QED
    BY <1>1, <1>3, WorthTypes, FreeWorthType, TotalChanges, TotalType
<1>6. /\ depositInfo' = [depositInfo EXCEPT ![pid] = [depositInfo[pid] EXCEPT ![u] = new]]
      /\ UNCHANGED block
  BY DEF WithdrawFromDeposit
<1>7. Pools' = Pools /\ poolInfo'[pid].unlocked = poolInfo[pid].unlocked
  BY UnlockedKept DEF WithdrawFromDeposit
<1>8. /\ Total(new, AmountWorth) = Total(ds, AmountWorth) - n
      /\ Total(new, FreeWorth(pid)) = Total(ds, FreeWorth(pid)) - n
  <2> HIDE DEF ds, d, less, new
  <2> QED
    BY <1>1, <1>4, <1>5
<1> HIDE DEF new
<1> QED
  BY <1>1, <1>6, <1>7, <1>8, StakesMove

LEMMA EmergencyWithdrawTakes ==
  ASSUME ChiefInv, ChiefInv', NEW u \in User, NEW pid \in Pools, EmergencyWithdraw(u, pid)
  PROVE  \A p \in 1 .. MaxPools : EscrowStep(p)
<1> DEFINE ds == depositInfo[pid][u]
<1>1. ds \in Seq(Record) /\ Total(ds, AmountWorth) \in Nat
  BY StakeType
<1>2. Total(ds, FreeWorth(pid)) = Total(ds, AmountWorth)
  <2>1. \A i \in DOMAIN ds : ds[i] \in Record /\ IsFree(ds[i], poolInfo[pid])
    BY <1>1, WorthTypes, TotalTerms DEF EmergencyWithdraw
  <2>2. [i \in DOMAIN ds |-> FreeWorth(pid)[ds[i]]] = [i \in DOMAIN ds |-> AmountWorth[ds[i]]]
    <3> HIDE DEF ds
    <3> QED
      BY <2>1 DEF FreeWorth, AmountWorth
  <2> QED
    BY <2>2 DEF Total
<1>3. /\ depositInfo' = [depositInfo EXCEPT ![pid] = [depositInfo[pid] EXCEPT ![u] = <<>>]]
      /\ UNCHANGED block
  BY DEF EmergencyWithdraw, TakeAll
<1>4. Pools' = Pools /\ poolInfo'[pid].unlocked = poolInfo[pid].unlocked
  BY UnlockedKept DEF EmergencyWithdraw, TakeAll
<1>5. Total(<<>>, AmountWorth) = 0 /\ Total(<<>>, FreeWorth(pid)) = 0
  BY TotalOfNone
<1>6. PICK a \in Nat : a = Total(ds, AmountWorth)
  BY <1>1
<1>7. /\ Total(<<>>, AmountWorth) = Total(ds, AmountWorth) - a
      /\ Total(<<>>, FreeWorth(pid)) = Total(ds, FreeWorth(pid)) - a
  BY <1>2, <1>5, <1>6
<1> QED
  BY <1>3, <1>4, <1>7, StakesMove

LEMMA WithdrawAllAndHarvestTakes ==
  ASSUME ChiefInv, ChiefInv', NEW u \in User, NEW pid \in Pools, WithdrawAllAndHarvest(u, pid)
  PROVE  \A p \in 1 .. MaxPools : EscrowStep(p)
<1> DEFINE ds == depositInfo[pid][u]
           free == {i \in DOMAIN ds : IsFree(ds[i], UpdatedPool(pid))}
           nil == [amount |-> 0, unlockBlock |-> 0, multiplier |-> 0]
           new == [i \in DOMAIN ds |-> IF i \in free THEN nil ELSE ds[i]]
           t == [i \in free |-> ds[i].amount]
           a == SumFunctionOnSet(t, free)
<1>1. ds \in Seq(Record) /\ \A i \in DOMAIN ds : ds[i] \in Record
  BY StakeType, WorthTypes, TotalTerms
<1>2. Pools' = Pools /\ poolInfo'[pid].unlocked = poolInfo[pid].unlocked /\ UNCHANGED block
  BY UnlockedKept DEF WithdrawAllAndHarvest
<1>3. \A i \in free : IsFree(ds[i], poolInfo[pid])
  <2>1. UpdatedPool(pid).unlocked = poolInfo[pid].unlocked
    BY UpdatedPoolType DEF ChiefInv
  <2> QED
    BY <2>1 DEF IsFree
<1>4. nil \in Record /\ nil.amount = 0
  BY DEF Record
<1>5. free \in SUBSET DOMAIN ds
  OBVIOUS
<1> HIDE DEF nil, ds, free
<1>6. /\ new \in [DOMAIN ds -> Record]
      /\ \A i \in free : new[i] = nil
      /\ \A i \in DOMAIN ds \ free : new[i] = ds[i]
      /\ \A i \in free : t[i] = ds[i].amount
  BY <1>1, <1>4, <1>5
<1>7. \A i \in free : ds[i] \in Record
  BY <1>1, <1>5
<1>8. /\ \A i \in free : AmountWorth[new[i]] = 0 /\ t[i] = AmountWorth[ds[i]]
      /\ \A i \in free : FreeWorth(pid)[new[i]] = 0 /\ t[i] = FreeWorth(pid)[ds[i]]
  <2>1. AmountWorth[nil] = 0 /\ FreeWorth(pid)[nil] = 0
    BY <1>4 DEF AmountWorth, FreeWorth
  <2>2. \A i \in free : AmountWorth[ds[i]] = ds[i].amount /\ FreeWorth(pid)[ds[i]] = ds[i].amount
    BY <1>3, <1>7 DEF AmountWorth, FreeWorth
  <2> HIDE DEF new, t
  <2> QED
    BY <1>6, <2>1, <2>2
<1> HIDE DEF new, t
<1>9. ASSUME NEW worth \in [Record -> Nat],
             \A i \in free : worth[new[i]] = 0, \A i \in free : t[i] = worth[ds[i]]
      PROVE  /\ Total(new, worth) = Total(ds, worth) - a
             /\ a \in Nat
  BY <1>1, <1>5, <1>6, <1>9, TotalDrops, ZenonT(40)
<1>10. /\ Total(new, AmountWorth) = Total(ds, AmountWorth) - a
       /\ Total(new, FreeWorth(pid)) = Total(ds, FreeWorth(pid)) - a
       /\ a \in Nat
  BY <1>8, <1>9, WorthTypes, FreeWorthType
<1>11. CASE free = DOMAIN ds
  <2>1. depositInfo' = [depositInfo EXCEPT ![pid] = [depositInfo[pid] EXCEPT ![u] = <<>>]]
    BY <1>11 DEF WithdrawAllAndHarvest, ds, free
  <2>2. /\ [i \in DOMAIN ds |-> AmountWorth[ds[i]]] = t
        /\ [i \in DOMAIN ds |-> FreeWorth(pid)[ds[i]]] = t
    BY <1>8, <1>11 DEF t
  <2>3. Total(ds, AmountWorth) = a /\ Total(ds, FreeWorth(pid)) = a
    BY <1>11, <2>2 DEF Total
  <2>4. Total(<<>>, AmountWorth) = 0 /\ Total(<<>>, FreeWorth(pid)) = 0
    BY TotalOfNone
  <2> HIDE DEF a
  <2>5. /\ Total(<<>>, AmountWorth) = Total(ds, AmountWorth) - a
        /\ Total(<<>>, FreeWorth(pid)) = Total(ds, FreeWorth(pid)) - a
    BY <1>10, <2>3, <2>4
  <2> QED
    BY <1>2, <1>10, <2>1, <2>5, StakesMove DEF ds
<1>12. CASE free # DOMAIN ds
  <2>1. depositInfo' = [depositInfo EXCEPT ![pid] = [depositInfo[pid] EXCEPT ![u] = new]]
    BY <1>12 DEF WithdrawAllAndHarvest, ds, free, new, nil
  <2> HIDE DEF a
  <2> QED
    BY <1>2, <1>10, <2>1, StakesMove DEF ds
<1> QED
  BY <1>11, <1>12

(* A pool that is added is an escrow that holds nothing, as it did before. *)
LEMMA AddStays ==
  ASSUME ChiefInv, ChiefInv', NEW caller, NEW points \in AllocPoints, NEW data \in RewardData,
         Add(caller, points, data)
  PROVE  \A pid \in 1 .. MaxPools : EscrowStep(pid)
<1> SUFFICES ASSUME NEW pid \in 1 .. MaxPools
             PROVE  EscrowStep(pid)
  OBVIOUS
<1> DEFINE n == Len(poolInfo)
<1>1. /\ n \in Nat /\ Pools = 1 .. n /\ Pools' = 1 .. n + 1
      /\ \A i \in 1 .. n : depositInfo'[i] = depositInfo[i]
      /\ depositInfo'[n + 1] = [u \in User |-> <<>>]
  BY AddTypes
<1> HIDE DEF n
<1>2. CASE pid \in 1 .. n
  <2>1. pid \in Pools /\ pid \in Pools' /\ depositInfo'[pid] = depositInfo[pid]
    BY <1>1, <1>2
  <2>2. Stakes(pid)' = Stakes(pid)
    BY <2>1 DEF Stakes, StakeOf, SumOver
  <2> QED
    BY <2>2, StakesStay
<1>3. CASE pid = n + 1
  <2>1. pid \notin Pools /\ pid \in Pools' /\ depositInfo'[pid] = [u \in User |-> <<>>]
    BY <1>1, <1>3
  <2>2. ASSUME NEW u \in User PROVE Stakes(pid)'[u] = Stakes(pid)[u]
    <3>1. Stakes(pid)[u] = 0
      BY <2>1 DEF Stakes, StakeOf
    <3>2. Stakes(pid)'[u] = Total(depositInfo[pid][u], AmountWorth)'
      BY <2>1, TotalsAfter DEF StakesInTotals
    <3>3. Total(depositInfo[pid][u], AmountWorth)' = Total(<<>>, AmountWorth)
      BY <2>1 DEF Total, AmountWorth
    <3> QED
      BY <3>1, <3>2, <3>3, NothingStaked
  <2> QED
    BY <2>2, StakesStay
<1>4. CASE pid \notin 1 .. n + 1
  <2>1. pid \notin Pools /\ pid \notin Pools'
    BY <1>1, <1>4
  <2>2. Stakes(pid)' = Stakes(pid)
    BY <2>1 DEF Stakes, StakeOf
  <2> QED
    BY <2>2, StakesStay
<1> QED
  BY <1>1, <1>2, <1>3, <1>4

LEMMA EscrowInit ==
  ASSUME Init, NEW pid \in 1 .. MaxPools
  PROVE  Escrow(pid)!Init
<1>1. Pools = {}
  BY DEF Init, Pools
<1>2. Held(pid) = 0 /\ Stakes(pid) = [u \in User |-> 0] /\ Frees(pid) = [u \in User |-> 0]
  BY <1>1 DEF Held, Stakes, Frees, StakeOf
<1> QED
  BY <1>2 DEF Held, Stakes, Frees, Escrow!Init

LEMMA EscrowNext ==
  ASSUME ChiefInv, ChiefInv', [Next]_vars
  PROVE  \A pid \in 1 .. MaxPools : EscrowStep(pid)
<1>1. CASE UNCHANGED vars
  BY <1>1, DepositsStay DEF vars, books, Pools
<1>2. CASE AdvanceBlock
  BY <1>2, DepositsStay DEF AdvanceBlock, books, Pools
<1>3. ASSUME NEW caller, NEW r, UpdateBlockReward(caller, r)
      PROVE  \A pid \in 1 .. MaxPools : EscrowStep(pid)
  BY <1>3, DepositsStay DEF UpdateBlockReward, UpdateBlockRewardOf, books, Pools
<1>4. ASSUME NEW caller, NEW n, GovernorWithdrawTribe(caller, n)
      PROVE  \A pid \in 1 .. MaxPools : EscrowStep(pid)
  BY <1>4, DepositsStay DEF GovernorWithdrawTribe, Pools
<1>5. ASSUME NEW caller, Pause(caller)
      PROVE  \A pid \in 1 .. MaxPools : EscrowStep(pid)
  BY <1>5, DepositsStay DEF Pause, books, Pools
<1>6. ASSUME NEW caller, NEW q \in Pools, NEW unlocked, LockPool(caller, q, unlocked)
      PROVE  \A pid \in 1 .. MaxPools : EscrowStep(pid)
  BY <1>6, DepositsStay DEF LockPool, books, Pools
<1>7. ASSUME NEW caller, NEW q \in Pools, NEW lock, NEW m,
             GovernorAddPoolMultiplier(caller, q, lock, m)
      PROVE  \A pid \in 1 .. MaxPools : EscrowStep(pid)
  BY <1>7, DepositsStay DEF GovernorAddPoolMultiplier, books, Pools
<1>8. ASSUME NEW caller, NEW q \in Pools, NEW points, Set(caller, q, points)
      PROVE  \A pid \in 1 .. MaxPools : EscrowStep(pid)
  BY <1>8, DepositsStay DEF Set, SetIn, books, Pools, EmittedBy
<1>9. ASSUME NEW caller, NEW q \in Pools, ResetRewards(caller, q)
      PROVE  \A pid \in 1 .. MaxPools : EscrowStep(pid)
  BY <1>9, DepositsStay DEF ResetRewards, ResetRewardsIn, books, Pools, EmittedBy
<1>10. ASSUME NEW pids, MassUpdatePools(pids)
       PROVE  \A pid \in 1 .. MaxPools : EscrowStep(pid)
  BY <1>10, DepositsStay DEF MassUpdatePools, books, Pools
<1>11. ASSUME NEW q \in Pools, UpdatePool(q)
       PROVE  \A pid \in 1 .. MaxPools : EscrowStep(pid)
  BY <1>11, DepositsStay DEF UpdatePool, books, Pools
<1>12. ASSUME NEW q \in Pools, NEW u, Harvest(u, q)
       PROVE  \A pid \in 1 .. MaxPools : EscrowStep(pid)
  BY <1>12, DepositsStay DEF Harvest, Pools
<1>13. ASSUME NEW caller \in Governor \cup Admin \cup Guardian,
              \/ \E r \in Rewards : UpdateBlockReward(caller, r)
              \/ \E n \in TribeAmounts : GovernorWithdrawTribe(caller, n)
              \/ \E points \in AllocPoints, data \in RewardData : Add(caller, points, data)
              \/ Pause(caller)
              \/ \E q \in Pools :
                   \/ \E unlocked \in BOOLEAN : LockPool(caller, q, unlocked)
                   \/ \E lock \in Locks, m \in Multipliers :
                        GovernorAddPoolMultiplier(caller, q, lock, m)
                   \/ \E points \in AllocPoints : Set(caller, q, points)
                   \/ ResetRewards(caller, q)
       PROVE  \A pid \in 1 .. MaxPools : EscrowStep(pid)
  BY <1>3, <1>4, <1>5, <1>6, <1>7, <1>8, <1>9, <1>13, AddStays
<1>14. ASSUME NEW q \in Pools, NEW u \in User,
              \/ \E n \in Amounts :
                   \/ \E lock \in Locks : Deposit(u, q, n, lock)
                   \/ \E i \in DOMAIN depositInfo[q][u] : WithdrawFromDeposit(u, q, n, i)
              \/ WithdrawAllAndHarvest(u, q)
              \/ Harvest(u, q)
              \/ EmergencyWithdraw(u, q)
       PROVE  \A pid \in 1 .. MaxPools : EscrowStep(pid)
  BY <1>12, <1>14, DepositPuts, WithdrawFromDepositTakes, WithdrawAllAndHarvestTakes,
     EmergencyWithdrawTakes
<1> QED
  BY <1>1, <1>2, <1>10, <1>11, <1>13, <1>14 DEF Next

(* TribalChief.sol:393-640.  Each pool implements an escrow, for any number of users, *)
(* pools and deposits: it holds what is staked in it, and each user takes out no more *)
(* than what is theirs and free, in parts or at once, also in an emergency.            *)
THEOREM PoolsAreEscrows == Spec => StakesAreSafe
<1>1. Init => \A pid \in 1 .. MaxPools : Escrow(pid)!Init
  BY EscrowInit
<1>2. ChiefInv /\ ChiefInv' /\ [Next]_vars =>
        \A pid \in 1 .. MaxPools : [Escrow(pid)!Next]_(Escrow(pid)!vars)
  BY EscrowNext DEF EscrowStep
<1> QED
  BY <1>1, <1>2, ChiefInvariant, PTL DEF Spec, StakesAreSafe

----------------------------------------------------------------------------
(* Rewards.  What a user is owed in units of 1 / ACC_TRIBE_PRECISION, where     *)
(* nothing was rounded yet.                                                    *)
Left(info, pool) ==
  info.virtualAmount * pool.accTribePerShare - ACC_TRIBE_PRECISION * info.rewardDebt
Owed(info, pool) == IF Left(info, pool) > 0 THEN Left(info, pool) ELSE 0
Gain(info, pool) == SharesOf(info.virtualAmount, pool) - info.rewardDebt
Claims(pid) == [u \in User |-> Owed(userInfo[pid][u], poolInfo[pid])]

(* What is owed was given, and what a rounded debt left out. *)
ClaimsCovered ==
  \A pid \in Pools :
    ACC_TRIBE_PRECISION * paid[pid] + SumFunctionOnSet(Claims(pid), User)
      <= ACC_TRIBE_PRECISION * (emitted[pid] + roundings[pid])

(* What is owed is a number, and at least the difference. *)
LEMMA OwedType ==
  ASSUME NEW info \in Info, NEW pool \in Pool
  PROVE  /\ info.virtualAmount * pool.accTribePerShare \in Nat
         /\ ACC_TRIBE_PRECISION * info.rewardDebt \in Int
         /\ Left(info, pool) \in Int /\ Owed(info, pool) \in Nat
         /\ Left(info, pool) <= Owed(info, pool)
<1>1. /\ info.virtualAmount \in Nat /\ info.rewardDebt \in Int
      /\ pool.accTribePerShare \in Nat /\ ACC_TRIBE_PRECISION \in Nat
  BY ChiefAssumption DEF Info, Pool
<1>2. PICK earned \in Nat : earned = info.virtualAmount * pool.accTribePerShare
  BY <1>1, ProductType
<1>3. PICK debt \in Int : debt = ACC_TRIBE_PRECISION * info.rewardDebt
  BY <1>1, IntProduct
<1>4. Left(info, pool) = earned - debt
  BY <1>2, <1>3 DEF Left
<1> QED
  BY <1>2, <1>3, <1>4 DEF Owed

(* What was earned, the part of it that is rounded off, and the debt *)
LEMMA LeftIsGain ==
  ASSUME NEW info \in Info, NEW pool \in Pool
  PROVE  /\ Gain(info, pool) \in Int /\ ACC_TRIBE_PRECISION * Gain(info, pool) \in Int
         /\ ACC_TRIBE_PRECISION * Gain(info, pool) <= Left(info, pool)
         /\ Left(info, pool) < ACC_TRIBE_PRECISION * Gain(info, pool) + ACC_TRIBE_PRECISION
<1>1. /\ info.virtualAmount \in Nat /\ info.rewardDebt \in Int
      /\ pool.accTribePerShare \in Nat /\ ACC_TRIBE_PRECISION \in Nat \ {0}
  BY ChiefAssumption DEF Info, Pool
<1>2. PICK earned \in Nat : earned = info.virtualAmount * pool.accTribePerShare
  BY <1>1, ProductType
<1>3. PICK share \in Nat : share = earned \div ACC_TRIBE_PRECISION
  BY <1>1, DivRemains
<1>4. /\ ACC_TRIBE_PRECISION * share <= earned
      /\ earned < ACC_TRIBE_PRECISION * share + ACC_TRIBE_PRECISION
      /\ ACC_TRIBE_PRECISION * share \in Int
  BY <1>1, <1>3, DivRemains, IntProduct
<1>5. Gain(info, pool) = share - info.rewardDebt
  BY <1>2, <1>3 DEF Gain, SharesOf
<1>6. /\ ACC_TRIBE_PRECISION * (share - info.rewardDebt)
           = ACC_TRIBE_PRECISION * share - ACC_TRIBE_PRECISION * info.rewardDebt
      /\ ACC_TRIBE_PRECISION * info.rewardDebt \in Int
  <2>1. PICK p \in Int, d \in Int : p = ACC_TRIBE_PRECISION /\ d = info.rewardDebt
    BY <1>1
  <2>2. /\ (share - d) * p = share * p - d * p
        /\ share * p = p * share /\ d * p = p * d
    BY Distributes
  <2>3. (share - d) * p = p * (share - d)
    <3>1. share - d \in Int
      OBVIOUS
    <3> QED
      BY <3>1, Distributes
  <2>4. p * d \in Int
    BY IntProduct
  <2> QED
    BY <2>1, <2>2, <2>3, <2>4
<1>7. Left(info, pool) = earned - ACC_TRIBE_PRECISION * info.rewardDebt
  BY <1>2 DEF Left
<1>8. Gain(info, pool) \in Int
  BY <1>1, <1>5
<1> QED
  BY <1>1, <1>4, <1>5, <1>6, <1>7, <1>8

(* A positive gain is owed. *)
LEMMA GainIsOwed ==
  ASSUME NEW info \in Info, NEW pool \in Pool
  PROVE  LET gain == IF Gain(info, pool) > 0 THEN Gain(info, pool) ELSE 0
         IN  gain \in Nat /\ ACC_TRIBE_PRECISION * gain <= Owed(info, pool)
<1>1. /\ Gain(info, pool) \in Int
      /\ ACC_TRIBE_PRECISION * Gain(info, pool) <= Left(info, pool)
      /\ ACC_TRIBE_PRECISION * Gain(info, pool) \in Int
      /\ Left(info, pool) \in Int /\ Owed(info, pool) \in Nat
      /\ Left(info, pool) <= Owed(info, pool)
  BY LeftIsGain, OwedType
<1>2. ACC_TRIBE_PRECISION * 0 = 0
  BY ChiefAssumption
<1> QED
  BY <1>1, <1>2

(* updatePool: no more per share than the pool is given. *)
LEMMA Accrual ==
  ASSUME ChiefInv, NEW pid \in Pools
  PROVE  \E perShare \in Nat :
           /\ UpdatedPool(pid).accTribePerShare = poolInfo[pid].accTribePerShare + perShare
           /\ poolInfo[pid].virtualTotalSupply * perShare
                <= ACC_TRIBE_PRECISION * TribeReward(pid)
<1>1. Types /\ UpdatesArePast /\ AllocPointsAddUp /\ poolInfo[pid] \in Pool
  BY PoolFacts DEF ChiefInv
<1>2. TribeReward(pid) \in Nat
  BY <1>1, RewardType
<1> DEFINE supply == poolInfo[pid].virtualTotalSupply
           perShare == IF TribeReward(pid) = 0 THEN 0
                       ELSE (TribeReward(pid) * ACC_TRIBE_PRECISION) \div supply
<1>3. UpdatedPool(pid) = [poolInfo[pid] EXCEPT !.accTribePerShare = @ + perShare,
                                               !.lastRewardBlock = block]
  BY DEF UpdatedPool
<1>4. supply \in Nat /\ ACC_TRIBE_PRECISION \in Nat
  BY <1>1, ChiefAssumption DEF Pool
<1>5. perShare \in Nat /\ supply * perShare <= ACC_TRIBE_PRECISION * TribeReward(pid)
  <2>1. CASE TribeReward(pid) = 0
    BY <1>4, <2>1
  <2>2. CASE TribeReward(pid) # 0
    <3>1. supply \in Nat \ {0}
      BY <1>4, <2>2 DEF TribeReward
    <3>2. PICK given \in Nat : given = TribeReward(pid) * ACC_TRIBE_PRECISION
      BY <1>2, <1>4, ProductType
    <3>3. given = ACC_TRIBE_PRECISION * TribeReward(pid)
      <4>1. PICK a \in Int, b \in Int : a = TribeReward(pid) /\ b = ACC_TRIBE_PRECISION
        BY <1>2, <1>4
      <4>2. a * b = b * a
        BY Distributes
      <4> QED
        BY <3>2, <4>1, <4>2
    <3>4. perShare = given \div supply
      BY <2>2, <3>2
    <3> HIDE DEF supply, perShare
    <3> QED
      BY <3>1, <3>3, <3>4, DivRemains
  <2> QED
    BY <2>1, <2>2
<1>6. UpdatedPool(pid).accTribePerShare = poolInfo[pid].accTribePerShare + perShare
  <2> HIDE DEF perShare
  <2> QED
    BY <1>1, <1>3 DEF Pool
<1> HIDE DEF perShare
<1> QED
  BY <1>5, <1>6

----------------------------------------------------------------------------
(* What is owed at the values per share of another pool *)
ClaimsAt(pid, pool) == [u \in User |-> Owed(userInfo[pid][u], pool)]

(* An update adds to what is owed, and no more than is given. *)
LEMMA UpdatedClaims ==
  ASSUME ChiefInv, ClaimsCovered, NEW pid \in Pools
  PROVE  ACC_TRIBE_PRECISION * paid[pid] + SumFunctionOnSet(ClaimsAt(pid, UpdatedPool(pid)), User)
           <= ACC_TRIBE_PRECISION * (EmittedBy(pid)[pid] + roundings[pid])
<1> DEFINE pool == poolInfo[pid]
           new == UpdatedPool(pid)
           v == [u \in User |-> userInfo[pid][u].virtualAmount]
           f == ClaimsAt(pid, pool)
           g == ClaimsAt(pid, new)
<1>1. /\ pool \in Pool /\ new \in Pool /\ TribeReward(pid) \in Nat
      /\ \A u \in User : userInfo[pid][u] \in Info
  BY PoolFacts, UpdatedPoolType, RewardType DEF ChiefInv, Types
<1>2. /\ IsFiniteSet(User) /\ ACC_TRIBE_PRECISION \in Nat
      /\ paid[pid] \in Nat /\ emitted[pid] \in Nat /\ roundings[pid] \in Nat
  BY ChiefAssumption DEF ChiefInv, Types
<1>3. PICK perShare \in Nat :
        /\ new.accTribePerShare = pool.accTribePerShare + perShare
        /\ pool.virtualTotalSupply * perShare <= ACC_TRIBE_PRECISION * TribeReward(pid)
  BY Accrual
<1> DEFINE more == [u \in User |-> perShare * v[u]]
           most == [u \in User |-> f[u] + more[u]]
<1>4. \A u \in User : /\ v[u] \in Nat /\ f[u] \in Nat /\ g[u] \in Nat /\ more[u] \in Nat
                      /\ most[u] \in Nat /\ g[u] <= most[u]
  <2> SUFFICES ASSUME NEW u \in User
               PROVE  /\ v[u] \in Nat /\ f[u] \in Nat /\ g[u] \in Nat /\ more[u] \in Nat
                      /\ most[u] \in Nat /\ g[u] <= most[u]
    OBVIOUS
  <2> DEFINE info == userInfo[pid][u]
  <2>1. /\ f[u] = Owed(info, pool) /\ g[u] = Owed(info, new)
        /\ v[u] = info.virtualAmount /\ more[u] = perShare * v[u] /\ most[u] = f[u] + more[u]
    BY DEF ClaimsAt
  <2>2. info \in Info
    BY <1>1
  <2> HIDE DEF info, f, g, v, more, most, pool, new
  <2>3. /\ info.virtualAmount * pool.accTribePerShare \in Nat
        /\ ACC_TRIBE_PRECISION * info.rewardDebt \in Int
        /\ Owed(info, pool) \in Nat /\ Owed(info, new) \in Nat
    BY <1>1, <2>2, OwedType
  <2>4. PICK a \in Nat, n \in Nat : a = pool.accTribePerShare /\ n = info.virtualAmount
    BY <1>1, <2>2 DEF Pool, Info
  <2>5. n * (a + perShare) = n * a + perShare * n
    <3>1. (a + perShare) * n = a * n + perShare * n /\ a * n = n * a
      BY Distributes
    <3>2. (a + perShare) * n = n * (a + perShare)
      BY Distributes
    <3> QED
      BY <3>1, <3>2
  <2>6. perShare * n \in Nat
    BY ProductType
  <2>7. PICK owed \in Int, debt \in Int, extra \in Nat :
          owed = n * a /\ debt = ACC_TRIBE_PRECISION * info.rewardDebt /\ extra = perShare * n
    BY <2>3, <2>4, <2>6
  <2>8. Left(info, pool) = owed - debt /\ Left(info, new) = owed + extra - debt
    BY <1>3, <2>4, <2>5, <2>7 DEF Left
  <2>9. Owed(info, new) <= Owed(info, pool) + extra
    BY <2>8 DEF Owed
  <2> QED
    BY <2>1, <2>3, <2>4, <2>7, <2>9
<1> HIDE DEF f, g, v, most
<1>5. SumFunctionOnSet(g, User) <= SumFunctionOnSet(most, User)
  BY <1>2, <1>4, SumKeepsOrder
<1>6. SumFunctionOnSet(most, User) = SumFunctionOnSet(f, User) + SumFunctionOnSet(more, User)
  <2>1. \A u \in User : f[u] \in Int /\ more[u] \in Int /\ most[u] = f[u] + more[u]
    BY <1>4 DEF most
  <2> HIDE DEF more
  <2> QED
    BY <1>2, <2>1, SumOfPairs
<1>7. SumFunctionOnSet(more, User) = perShare * SumFunctionOnSet(v, User)
  <2>1. \A u \in User : v[u] \in Int /\ more[u] \in Int /\ more[u] = perShare * v[u]
    BY <1>4
  <2> HIDE DEF more
  <2> QED
    BY <1>2, <2>1, SumScales
<1> HIDE DEF more
<1>8. SumFunctionOnSet(v, User) <= pool.virtualTotalSupply
  <2>1. SumFunction([u \in User |-> userInfo[pid][u].virtualAmount]) <= poolInfo[pid].virtualTotalSupply
    BY DEF ChiefInv, VirtualAmountsSuffice
  <2> QED
    BY <2>1 DEF v, SumFunction
<1>9. perShare * SumFunctionOnSet(v, User) <= ACC_TRIBE_PRECISION * TribeReward(pid)
  <2>1. PICK s \in Nat, t \in Nat :
          s = SumFunctionOnSet(v, User) /\ t = pool.virtualTotalSupply
    BY <1>1, <1>2, <1>4, SumIsNat DEF Pool
  <2>2. s * perShare <= t * perShare
    BY <1>8, <2>1, ProductMonotonic
  <2>3. s * perShare = perShare * s /\ s * perShare \in Int /\ t * perShare \in Int
    BY Distributes, IntProduct
  <2>4. ACC_TRIBE_PRECISION * TribeReward(pid) \in Int
    BY <1>1, <1>2, IntProduct
  <2>5. t * perShare <= ACC_TRIBE_PRECISION * TribeReward(pid)
    BY <1>3, <2>1
  <2>6. perShare * s <= ACC_TRIBE_PRECISION * TribeReward(pid)
    <3> HIDE DEF pool, new
    <3> QED
      BY <2>2, <2>3, <2>4, <2>5
  <2> QED
    BY <2>1, <2>6
<1>10. ACC_TRIBE_PRECISION * paid[pid] + SumFunctionOnSet(f, User)
         <= ACC_TRIBE_PRECISION * (emitted[pid] + roundings[pid])
  BY DEF ClaimsCovered, f, Claims, ClaimsAt
<1>11. EmittedBy(pid)[pid] = emitted[pid] + TribeReward(pid)
  BY DEF EmittedBy, ChiefInv, Types
<1>12. ACC_TRIBE_PRECISION * (emitted[pid] + TribeReward(pid) + roundings[pid])
         = ACC_TRIBE_PRECISION * (emitted[pid] + roundings[pid])
             + ACC_TRIBE_PRECISION * TribeReward(pid)
  <2>1. PICK p \in Int, s \in Int, t \in Int :
          p = ACC_TRIBE_PRECISION /\ s = emitted[pid] + roundings[pid] /\ t = TribeReward(pid)
    BY <1>1, <1>2
  <2>2. emitted[pid] + TribeReward(pid) + roundings[pid] = s + t
    BY <1>1, <1>2, <2>1
  <2>3. (s + t) * p = s * p + t * p /\ s * p = p * s /\ t * p = p * t
    BY Distributes
  <2>4. (s + t) * p = p * (s + t)
    BY Distributes
  <2> QED
    BY <2>1, <2>2, <2>3, <2>4
<1>13. /\ SumFunctionOnSet(f, User) \in Int /\ SumFunctionOnSet(g, User) \in Int
       /\ SumFunctionOnSet(more, User) \in Int
  <2>1. \A u \in User : f[u] \in Int /\ g[u] \in Int /\ more[u] \in Int
    BY <1>4
  <2> QED
    BY <1>2, <2>1, SumIsInt
<1>14. /\ ACC_TRIBE_PRECISION * paid[pid] \in Int
       /\ ACC_TRIBE_PRECISION * (emitted[pid] + roundings[pid]) \in Int
       /\ ACC_TRIBE_PRECISION * TribeReward(pid) \in Int
  BY <1>1, <1>2, IntProduct
<1>15. ACC_TRIBE_PRECISION * paid[pid] + SumFunctionOnSet(g, User)
         <= ACC_TRIBE_PRECISION * (emitted[pid] + roundings[pid])
              + ACC_TRIBE_PRECISION * TribeReward(pid)
  <2>1. SumFunctionOnSet(g, User) <= SumFunctionOnSet(f, User) + SumFunctionOnSet(more, User)
    BY <1>5, <1>6
  <2>2. SumFunctionOnSet(more, User) <= ACC_TRIBE_PRECISION * TribeReward(pid)
    BY <1>7, <1>9
  <2> QED
    BY <1>10, <1>13, <1>14, <2>1, <2>2
<1> QED
  BY <1>11, <1>12, <1>15 DEF g

----------------------------------------------------------------------------
(* The transactions of a user: its pool is updated, its info becomes info, it  *)
(* is paid p, and r debts are rounded.                                          *)
UserPays(u, pid, info, p, r) ==
  /\ userInfo' = [userInfo EXCEPT ![pid] = [userInfo[pid] EXCEPT ![u] = info]]
  /\ Pools' = Pools /\ \A i \in Pools \ {pid} : poolInfo'[i] = poolInfo[i]
  /\ poolInfo'[pid].accTribePerShare = UpdatedPool(pid).accTribePerShare
  /\ poolInfo'[pid].lastRewardBlock = block
  /\ emitted' = EmittedBy(pid)
  /\ paid' = [paid EXCEPT ![pid] = paid[pid] + p]
  /\ roundings' = [roundings EXCEPT ![pid] = roundings[pid] + r]
  /\ UNCHANGED <<block, settings>>

(* Two states of a pool differ in nothing that rewards depend on. *)
EarnsAs(new, old) ==
  /\ new.allocPoint = old.allocPoint
  /\ new.virtualTotalSupply = old.virtualTotalSupply
  /\ new.lastRewardBlock = old.lastRewardBlock
  /\ new.accTribePerShare = old.accTribePerShare

(* All others: some pools are updated. *)
PoolsPay ==
  /\ Pools' = Pools /\ UNCHANGED <<userInfo, paid, roundings>>
  /\ block' >= block
  /\ \A i \in Pools :
       \/ /\ EarnsAs(poolInfo'[i], poolInfo[i])
          /\ emitted'[i] = emitted[i]
       \/ /\ poolInfo'[i].accTribePerShare = UpdatedPool(i).accTribePerShare
          /\ poolInfo'[i].lastRewardBlock = block'
          /\ emitted'[i] = EmittedBy(i)[i]

(* What is owed depends on the value per share of a pool only. *)
LEMMA ClaimsAfter ==
  ASSUME NEW pid, NEW pool, poolInfo'[pid].accTribePerShare = pool.accTribePerShare
  PROVE  Claims(pid)' = [u \in User |-> Owed(userInfo'[pid][u], pool)]
BY DEF Claims, Owed, Left

(* An update of pools that pays nothing keeps the claims covered, *)
LEMMA PoolsPayCovered ==
  ASSUME ChiefInv, ClaimsCovered, PoolsPay
  PROVE  ClaimsCovered'
<1> SUFFICES ASSUME NEW pid \in Pools
             PROVE  ACC_TRIBE_PRECISION * paid'[pid] + SumFunctionOnSet(Claims(pid)', User)
                      <= ACC_TRIBE_PRECISION * (emitted'[pid] + roundings'[pid])
  BY DEF ClaimsCovered, PoolsPay
<1>1. UNCHANGED <<userInfo, paid, roundings>>
  BY DEF PoolsPay
<1>2. CASE /\ EarnsAs(poolInfo'[pid], poolInfo[pid])
           /\ emitted'[pid] = emitted[pid]
  <2>1. Claims(pid)' = Claims(pid)
    BY <1>1, <1>2, ClaimsAfter DEF Claims, EarnsAs
  <2> QED
    BY <1>1, <1>2, <2>1 DEF ClaimsCovered
<1>3. CASE /\ poolInfo'[pid].accTribePerShare = UpdatedPool(pid).accTribePerShare
           /\ emitted'[pid] = EmittedBy(pid)[pid]
  <2>1. Claims(pid)' = ClaimsAt(pid, UpdatedPool(pid))
    BY <1>1, <1>3, ClaimsAfter DEF ClaimsAt
  <2> QED
    BY <1>1, <1>3, <2>1, UpdatedClaims
<1> QED
  BY <1>2, <1>3 DEF PoolsPay

(* and so does a payment of no more than what the user is owed. *)
LEMMA UserPaysCovered ==
  ASSUME ChiefInv, ClaimsCovered, NEW u \in User, NEW pid \in Pools, NEW info \in Info,
         NEW p \in Nat, NEW r \in Nat, UserPays(u, pid, info, p, r),
         ACC_TRIBE_PRECISION * p + Owed(info, UpdatedPool(pid))
           <= Owed(userInfo[pid][u], UpdatedPool(pid)) + ACC_TRIBE_PRECISION * r
  PROVE  ClaimsCovered'
<1> DEFINE P == ACC_TRIBE_PRECISION
           old == userInfo[pid][u]
           pool == UpdatedPool(pid)
<1>1. /\ pool \in Pool /\ EmittedBy(pid) \in [Pools -> Nat]
      /\ userInfo \in [Pools -> [User -> Info]]
      /\ paid \in [Pools -> Nat] /\ emitted \in [Pools -> Nat] /\ roundings \in [Pools -> Nat]
      /\ IsFiniteSet(User) /\ P \in Nat
  BY UpdatedPoolType, ChiefAssumption DEF ChiefInv, Types
<1>2. /\ \A i \in Pools \ {pid} : userInfo'[i] = userInfo[i]
      /\ \A x \in User : userInfo'[pid][x] = IF x = u THEN info ELSE userInfo[pid][x]
  BY <1>1 DEF UserPays
<1>3. ASSUME NEW i \in Pools, i # pid
      PROVE  P * paid'[i] + SumFunctionOnSet(Claims(i)', User) <= P * (emitted'[i] + roundings'[i])
  <2>1. Claims(i)' = Claims(i)
    BY <1>2, <1>3, ClaimsAfter DEF UserPays, Claims
  <2>2. /\ paid'[i] = paid[i] /\ emitted'[i] = emitted[i] /\ roundings'[i] = roundings[i]
    BY <1>1, <1>3 DEF UserPays, EmittedBy
  <2> QED
    BY <2>1, <2>2 DEF ClaimsCovered
<1>4. P * paid'[pid] + SumFunctionOnSet(Claims(pid)', User) <= P * (emitted'[pid] + roundings'[pid])
  <2> DEFINE f == ClaimsAt(pid, pool)
             g == Claims(pid)'
  <2>1. g = [x \in User |-> Owed(userInfo'[pid][x], pool)]
    BY ClaimsAfter DEF UserPays
  <2>2. \A x \in User : userInfo[pid][x] \in Info /\ userInfo'[pid][x] \in Info
    BY <1>1, <1>2
  <2>3. \A x \in User : f[x] \in Int /\ g[x] \in Int /\ (x # u => g[x] = f[x])
    <3> HIDE DEF pool, g
    <3>1. ASSUME NEW x \in User
          PROVE  f[x] \in Int /\ g[x] \in Int /\ (x # u => g[x] = f[x])
      <4>1. f[x] = Owed(userInfo[pid][x], pool) /\ g[x] = Owed(userInfo'[pid][x], pool)
        BY <2>1 DEF ClaimsAt
      <4>2. Owed(userInfo[pid][x], pool) \in Nat /\ Owed(userInfo'[pid][x], pool) \in Nat
        BY <1>1, <2>2, OwedType
      <4> QED
        BY <1>2, <4>1, <4>2
    <3> QED
      BY <3>1
  <2>4. f[u] = Owed(old, pool) /\ g[u] = Owed(info, pool)
    BY <1>2, <2>1 DEF ClaimsAt
  <2> HIDE DEF f, g
  <2>5. SumFunctionOnSet(g, User) = SumFunctionOnSet(f, User) - f[u] + g[u]
    BY <1>1, <2>3, SumChanges
  <2>6. SumFunctionOnSet(f, User) \in Int /\ f[u] \in Int /\ g[u] \in Int
    BY <1>1, <2>3, SumIsInt
  <2>7. P * paid[pid] + SumFunctionOnSet(f, User) <= P * (EmittedBy(pid)[pid] + roundings[pid])
    BY UpdatedClaims DEF f
  <2>8. /\ emitted'[pid] = EmittedBy(pid)[pid] /\ paid'[pid] = paid[pid] + p
        /\ roundings'[pid] = roundings[pid] + r
    BY <1>1 DEF UserPays
  <2>9. PICK a \in Nat, e \in Nat, s \in Nat :
          a = paid[pid] /\ e = EmittedBy(pid)[pid] /\ s = roundings[pid]
    BY <1>1
  <2>10. P * (a + p) = P * a + P * p /\ P * a \in Int /\ P * p \in Int
    BY <1>1, DistributesLeft, IntProduct
  <2>11. P * (e + s + r) = P * (e + s) + P * r /\ P * (e + s) \in Int /\ P * r \in Int
    <3>1. e + s \in Int
      OBVIOUS
    <3> QED
      BY <1>1, <3>1, DistributesLeft, IntProduct
  <2>12. P * p + g[u] <= f[u] + P * r
    BY <2>4
  <2>13. P * a + SumFunctionOnSet(f, User) <= P * (e + s)
    BY <2>7, <2>9
  <2> HIDE DEF P, pool
  <2>14. P * (a + p) + SumFunctionOnSet(g, User) <= P * (e + s + r)
    BY <2>5, <2>6, <2>10, <2>11, <2>12, <2>13
  <2>15. e + (s + r) = e + s + r
    BY <2>9
  <2> QED
    BY <2>8, <2>9, <2>14, <2>15 DEF g
<1> QED
  BY <1>3, <1>4 DEF ClaimsCovered, UserPays

----------------------------------------------------------------------------
(* What is in a share: its exact value and what is rounded off. *)
LEMMA ShareBounds ==
  ASSUME NEW n \in Nat, NEW pool \in Pool
  PROVE  /\ n * pool.accTribePerShare \in Nat
         /\ SharesOf(n, pool) \in Nat /\ ACC_TRIBE_PRECISION * SharesOf(n, pool) \in Nat
         /\ ACC_TRIBE_PRECISION * SharesOf(n, pool) <= n * pool.accTribePerShare
         /\ n * pool.accTribePerShare
              < ACC_TRIBE_PRECISION * SharesOf(n, pool) + ACC_TRIBE_PRECISION
<1>1. pool.accTribePerShare \in Nat /\ ACC_TRIBE_PRECISION \in Nat \ {0}
  BY ChiefAssumption DEF Pool
<1>2. PICK earned \in Nat : earned = n * pool.accTribePerShare
  BY <1>1, ProductType
<1>3. /\ earned \div ACC_TRIBE_PRECISION \in Nat
      /\ ACC_TRIBE_PRECISION * (earned \div ACC_TRIBE_PRECISION) <= earned
      /\ earned < ACC_TRIBE_PRECISION * (earned \div ACC_TRIBE_PRECISION) + ACC_TRIBE_PRECISION
  BY <1>1, DivRemains
<1>4. SharesOf(n, pool) = earned \div ACC_TRIBE_PRECISION
  BY <1>2 DEF SharesOf
<1>5. ACC_TRIBE_PRECISION * SharesOf(n, pool) \in Nat
  BY <1>1, <1>3, <1>4, ProductType
<1> QED
  BY <1>2, <1>3, <1>4, <1>5

(* deposit: the new debt is rounded down, so the user may be owed one part more. *)
LEMMA StakingMore ==
  ASSUME NEW old \in Info, NEW info \in Info, NEW pool \in Pool, NEW n \in Nat,
         info.virtualAmount = old.virtualAmount + n,
         info.rewardDebt = old.rewardDebt + SharesOf(n, pool)
  PROVE  /\ Owed(info, pool) <= Owed(old, pool) + ACC_TRIBE_PRECISION
         /\ Gain(info, pool) >= Gain(old, pool)
<1> DEFINE P == ACC_TRIBE_PRECISION
<1>1. PICK v \in Nat, d \in Int, a \in Nat, s \in Nat :
        /\ v = old.virtualAmount /\ d = old.rewardDebt
        /\ a = pool.accTribePerShare /\ s = SharesOf(n, pool)
  BY SharesType DEF Info, Pool
<1>2. P \in Nat \ {0}
  BY ChiefAssumption
<1>3. /\ (v + n) * a = v * a + n * a /\ v * a \in Nat /\ n * a \in Nat
      /\ P * (d + s) = P * d + P * s /\ P * d \in Int /\ P * s \in Int
  BY <1>2, Distributes, DistributesLeft, IntProduct, ProductType
<1>4. P * s <= n * a /\ n * a < P * s + P
  BY <1>1, ShareBounds
<1>5. Left(old, pool) = v * a - P * d /\ Left(info, pool) = (v + n) * a - P * (d + s)
  BY <1>1 DEF Left
<1>6. Owed(info, pool) <= Owed(old, pool) + P
  <2>1. PICK va \in Int, na \in Int, pd \in Int, ps \in Int :
          va = v * a /\ na = n * a /\ pd = P * d /\ ps = P * s
    BY <1>3
  <2>2. Left(old, pool) = va - pd /\ Left(info, pool) = va - pd + (na - ps) /\ na - ps < P
    BY <1>2, <1>3, <1>4, <1>5, <2>1
  <2> HIDE DEF P
  <2> QED
    BY <1>2, <2>2 DEF Owed
<1>7. (v * a) \div P + (n * a) \div P <= (v * a + n * a) \div P
  BY <1>2, <1>3, PartsRoundDown
<1>8. /\ Gain(old, pool) = (v * a) \div P - d
      /\ Gain(info, pool) = (v * a + n * a) \div P - (d + s) /\ s = (n * a) \div P
  BY <1>1, <1>3 DEF Gain, SharesOf
<1>9. /\ (v * a) \div P \in Nat /\ (v * a + n * a) \div P \in Nat
  <2>1. v * a + n * a \in Nat
    BY <1>3
  <2> QED
    BY <1>2, <1>3, <2>1, DivRemains
<1>10. Gain(info, pool) >= Gain(old, pool)
  <2>1. PICK x \in Int, y \in Int : x = (v * a) \div P /\ y = (v * a + n * a) \div P
    BY <1>9
  <2>2. x + s <= y
    BY <1>7, <1>8, <2>1
  <2>3. Gain(old, pool) = x - d /\ Gain(info, pool) = y - (d + s)
    BY <1>8, <2>1
  <2> QED
    BY <2>2, <2>3
<1> QED
  BY <1>6, <1>10

(* withdrawFromDeposit: the debt loses less than what was earned. *)
LEMMA StakingLess ==
  ASSUME NEW old \in Info, NEW info \in Info, NEW pool \in Pool, NEW n \in Nat,
         info.virtualAmount + n = old.virtualAmount,
         info.rewardDebt = old.rewardDebt - SharesOf(n, pool)
  PROVE  /\ Owed(info, pool) <= Owed(old, pool)
         /\ Gain(info, pool) >= Gain(old, pool) - 1
<1> DEFINE P == ACC_TRIBE_PRECISION
<1>1. PICK v \in Nat, d \in Int, a \in Nat, s \in Nat :
        /\ v = info.virtualAmount /\ d = info.rewardDebt
        /\ a = pool.accTribePerShare /\ s = SharesOf(n, pool)
  BY SharesType DEF Info, Pool
<1>2. P \in Nat \ {0} /\ old.rewardDebt = d + s
  BY <1>1, ChiefAssumption DEF Info
<1>3. /\ (v + n) * a = v * a + n * a /\ v * a \in Nat /\ n * a \in Nat
      /\ P * (d + s) = P * d + P * s /\ P * d \in Int /\ P * s \in Int
  BY <1>2, Distributes, DistributesLeft, IntProduct, ProductType
<1>4. P * s <= n * a
  BY <1>1, ShareBounds
<1>5. Left(info, pool) = v * a - P * d /\ Left(old, pool) = (v + n) * a - P * (d + s)
  BY <1>1, <1>2 DEF Left
<1>6. Owed(info, pool) <= Owed(old, pool)
  <2>1. PICK va \in Int, na \in Int, pd \in Int, ps \in Int :
          va = v * a /\ na = n * a /\ pd = P * d /\ ps = P * s
    BY <1>3
  <2>2. Left(info, pool) = va - pd /\ Left(old, pool) = va - pd + (na - ps) /\ na - ps >= 0
    BY <1>3, <1>4, <1>5, <2>1
  <2> HIDE DEF P
  <2> QED
    BY <2>2 DEF Owed
<1>7. (v * a + n * a) \div P <= (v * a) \div P + (n * a) \div P + 1
  BY <1>2, <1>3, PartsLoseOne
<1>8. /\ Gain(info, pool) = (v * a) \div P - d
      /\ Gain(old, pool) = (v * a + n * a) \div P - (d + s) /\ s = (n * a) \div P
  BY <1>1, <1>2, <1>3 DEF Gain, SharesOf
<1>9. /\ (v * a) \div P \in Nat /\ (v * a + n * a) \div P \in Nat
  <2>1. v * a + n * a \in Nat
    BY <1>3
  <2> QED
    BY <1>2, <1>3, <2>1, DivRemains
<1>10. Gain(info, pool) >= Gain(old, pool) - 1
  <2>1. PICK x \in Int, y \in Int : x = (v * a) \div P /\ y = (v * a + n * a) \div P
    BY <1>9
  <2>2. y <= x + s + 1
    BY <1>7, <1>8, <2>1
  <2>3. Gain(info, pool) = x - d /\ Gain(old, pool) = y - (d + s)
    BY <1>8, <2>1
  <2> QED
    BY <2>2, <2>3
<1> QED
  BY <1>6, <1>10

(* Where the debt is set to the share of what is staked, only the rest is owed. *)
LEMMA DebtSettled ==
  ASSUME NEW info \in Info, NEW pool \in Pool,
         info.rewardDebt = SharesOf(info.virtualAmount, pool)
  PROVE  Gain(info, pool) = 0 /\ Owed(info, pool) < ACC_TRIBE_PRECISION
<1>1. Gain(info, pool) = 0
  <2>1. info.virtualAmount \in Nat
    BY DEF Info
  <2>2. SharesOf(info.virtualAmount, pool) \in Nat
    BY <2>1, SharesType
  <2> QED
    BY <2>2 DEF Gain
<1>2. ACC_TRIBE_PRECISION \in Nat \ {0} /\ ACC_TRIBE_PRECISION * 0 = 0
  BY ChiefAssumption
<1>3. Left(info, pool) \in Int /\ Left(info, pool) < ACC_TRIBE_PRECISION
  <2>1. Left(info, pool) \in Int
    BY OwedType
  <2>2. Left(info, pool) < ACC_TRIBE_PRECISION * Gain(info, pool) + ACC_TRIBE_PRECISION
    BY LeftIsGain
  <2> QED
    BY <1>1, <1>2, <2>1, <2>2
<1> QED
  BY <1>1, <1>2, <1>3 DEF Owed

(* _harvest: what is paid was owed, and what is still owed was not paid. *)
LEMMA PaymentIsOwed ==
  ASSUME NEW old \in Info, NEW info \in Info, NEW pool \in Pool,
         info.virtualAmount = old.virtualAmount,
         info.rewardDebt = SharesOf(info.virtualAmount, pool), Gain(old, pool) \in Nat
  PROVE  ACC_TRIBE_PRECISION * Gain(old, pool) + Owed(info, pool) <= Owed(old, pool)
<1> DEFINE P == ACC_TRIBE_PRECISION
<1>1. PICK v \in Nat, d \in Int, a \in Nat, s \in Nat :
        /\ v = old.virtualAmount /\ d = old.rewardDebt
        /\ a = pool.accTribePerShare /\ s = SharesOf(v, pool)
  BY SharesType DEF Info, Pool
<1>2. P \in Nat
  BY ChiefAssumption
<1>3. /\ P * (s - d) = P * s - P * d /\ P * s \in Int /\ P * d \in Int /\ v * a \in Nat
  BY <1>2, DistributesLeft, IntProduct, ProductType
<1>4. /\ Left(old, pool) = v * a - P * d /\ Left(info, pool) = v * a - P * s
      /\ Gain(old, pool) = s - d
  BY <1>1 DEF Left, Gain
<1>5. P * s <= v * a /\ P * Gain(old, pool) \in Nat
  BY <1>1, <1>2, ShareBounds, ProductType
<1>6. PICK va \in Int, ps \in Int, pd \in Int : va = v * a /\ ps = P * s /\ pd = P * d
  BY <1>3
<1>7. /\ Left(old, pool) = va - pd /\ Left(info, pool) = va - ps
      /\ P * Gain(old, pool) = ps - pd /\ ps <= va /\ ps - pd >= 0
  BY <1>3, <1>4, <1>5, <1>6
<1> HIDE DEF P
<1>8. P * Gain(old, pool) + Owed(info, pool) <= Owed(old, pool)
  BY <1>7 DEF Owed
<1> QED
  BY <1>8 DEF P

----------------------------------------------------------------------------
(* Each transaction of a user, with its info, its payment and its roundings *)

(* The pool was updated, and something of it that is no reward changed. *)
LEMMA PaidPool ==
  ASSUME NEW pid \in Pools, NEW new, poolInfo' = [poolInfo EXCEPT ![pid] = new],
         new.accTribePerShare = UpdatedPool(pid).accTribePerShare, new.lastRewardBlock = block
  PROVE  /\ Pools' = Pools /\ \A i \in Pools \ {pid} : poolInfo'[i] = poolInfo[i]
         /\ poolInfo'[pid].accTribePerShare = UpdatedPool(pid).accTribePerShare
         /\ poolInfo'[pid].lastRewardBlock = block
<1>1. poolInfo'[pid] = new
  BY DEF Pools
<1> QED
  BY <1>1 DEF Pools

(* The pool after a deposit, and after a withdrawal *)
LEMMA PoolMore ==
  ASSUME ChiefInv, NEW pid \in Pools, NEW virtual \in Nat,
         poolInfo' = [poolInfo EXCEPT
           ![pid] = [UpdatedPool(pid) EXCEPT !.virtualTotalSupply = @ + virtual]]
  PROVE  /\ Pools' = Pools /\ \A i \in Pools \ {pid} : poolInfo'[i] = poolInfo[i]
         /\ poolInfo'[pid].accTribePerShare = UpdatedPool(pid).accTribePerShare
         /\ poolInfo'[pid].lastRewardBlock = block
<1> DEFINE new == [UpdatedPool(pid) EXCEPT !.virtualTotalSupply = @ + virtual]
<1>1. UpdatedPool(pid) \in Pool /\ UpdatedPool(pid).lastRewardBlock = block
  BY UpdatedPoolType DEF ChiefInv
<1>2. /\ new.accTribePerShare = UpdatedPool(pid).accTribePerShare
      /\ new.lastRewardBlock = block
  BY <1>1 DEF Pool
<1>3. poolInfo' = [poolInfo EXCEPT ![pid] = new]
  OBVIOUS
<1> HIDE DEF new
<1> QED
  BY <1>2, <1>3, PaidPool

(* keeps its value per share, and the others are as they were. *)
LEMMA PoolLess ==
  ASSUME ChiefInv, NEW pid \in Pools, NEW virtual \in Nat,
         poolInfo' = [poolInfo EXCEPT
           ![pid] = [UpdatedPool(pid) EXCEPT !.virtualTotalSupply = @ - virtual]]
  PROVE  /\ Pools' = Pools /\ \A i \in Pools \ {pid} : poolInfo'[i] = poolInfo[i]
         /\ poolInfo'[pid].accTribePerShare = UpdatedPool(pid).accTribePerShare
         /\ poolInfo'[pid].lastRewardBlock = block
<1> DEFINE new == [UpdatedPool(pid) EXCEPT !.virtualTotalSupply = @ - virtual]
<1>1. UpdatedPool(pid) \in Pool /\ UpdatedPool(pid).lastRewardBlock = block
  BY UpdatedPoolType DEF ChiefInv
<1>2. /\ new.accTribePerShare = UpdatedPool(pid).accTribePerShare
      /\ new.lastRewardBlock = block
  BY <1>1 DEF Pool
<1>3. poolInfo' = [poolInfo EXCEPT ![pid] = new]
  OBVIOUS
<1> HIDE DEF new
<1> QED
  BY <1>2, <1>3, PaidPool

(* A step that pays and rounds nothing leaves both counters alone. *)
LEMMA HistoryStays ==
  ASSUME ChiefInv, NEW pid \in Pools
  PROVE  /\ paid = [paid EXCEPT ![pid] = paid[pid] + 0]
         /\ roundings = [roundings EXCEPT ![pid] = roundings[pid] + 0]
BY DEF ChiefInv, Types

(* TribalChief.sol:393-438.  A deposit adds to what is owed at most what its debt rounds off. *)
LEMMA DepositPays ==
  ASSUME ChiefInv, NEW u \in User, NEW pid \in Pools, NEW n \in Amounts, NEW lock \in Locks,
         Deposit(u, pid, n, lock)
  PROVE  \E info \in Info :
           /\ UserPays(u, pid, info, 0, 1)
           /\ Owed(info, UpdatedPool(pid))
                <= Owed(userInfo[pid][u], UpdatedPool(pid)) + ACC_TRIBE_PRECISION
           /\ Gain(info, UpdatedPool(pid)) >= Gain(userInfo[pid][u], UpdatedPool(pid))
<1> DEFINE old == userInfo[pid][u]
           pool == UpdatedPool(pid)
           virtual == Multiplied(n, rewardMultipliers[pid][lock])
           info == [virtualAmount |-> old.virtualAmount + virtual,
                    rewardDebt |-> old.rewardDebt + SharesOf(virtual, pool)]
<1>1. /\ old \in Info /\ old.virtualAmount \in Nat /\ old.rewardDebt \in Int
      /\ pool \in Pool /\ n \in Nat /\ rewardMultipliers[pid][lock] \in Nat
  BY StakeType, UpdatedPoolType, ChiefAssumption DEF ChiefInv, Types, Info
<1>2. virtual \in Nat /\ SharesOf(virtual, pool) \in Nat
  BY <1>1, MultipliedType, SharesType
<1>3. /\ userInfo' = [userInfo EXCEPT ![pid] = [userInfo[pid] EXCEPT ![u] = info]]
      /\ poolInfo' = [poolInfo EXCEPT
           ![pid] = [UpdatedPool(pid) EXCEPT !.virtualTotalSupply = @ + virtual]]
      /\ emitted' = EmittedBy(pid)
      /\ roundings' = [roundings EXCEPT ![pid] = roundings[pid] + 1]
      /\ UNCHANGED <<block, settings, paid>>
  BY DEF Deposit, DepositInto
<1>4. /\ info \in Info /\ info.virtualAmount = old.virtualAmount + virtual
      /\ info.rewardDebt = old.rewardDebt + SharesOf(virtual, pool)
  <2> HIDE DEF old, pool, virtual
  <2> QED
    BY <1>1, <1>2 DEF Info
<1> HIDE DEF info, virtual
<1>5. UserPays(u, pid, info, 0, 1)
  BY <1>2, <1>3, PoolMore, HistoryStays DEF UserPays
<1>6. /\ Owed(info, pool) <= Owed(old, pool) + ACC_TRIBE_PRECISION
      /\ Gain(info, pool) >= Gain(old, pool)
  <2> HIDE DEF old, pool
  <2> QED
    BY <1>1, <1>2, <1>4, StakingMore
<1> QED
  BY <1>4, <1>5, <1>6

(* TribalChief.sol:522-553.  A withdrawal adds nothing to what is owed. *)
LEMMA WithdrawFromDepositPays ==
  ASSUME ChiefInv, NEW u \in User, NEW pid \in Pools, NEW n \in Amounts,
         NEW i \in DOMAIN depositInfo[pid][u], WithdrawFromDeposit(u, pid, n, i)
  PROVE  \E info \in Info :
           /\ UserPays(u, pid, info, 0, 0)
           /\ Owed(info, UpdatedPool(pid)) <= Owed(userInfo[pid][u], UpdatedPool(pid))
           /\ Gain(info, UpdatedPool(pid)) >= Gain(userInfo[pid][u], UpdatedPool(pid)) - 1
<1> DEFINE old == userInfo[pid][u]
           pool == UpdatedPool(pid)
           d == depositInfo[pid][u][i]
           virtual == Multiplied(n, d.multiplier)
           info == [virtualAmount |-> old.virtualAmount - virtual,
                    rewardDebt |-> old.rewardDebt - SharesOf(virtual, pool)]
<1>1. /\ old \in Info /\ old.virtualAmount \in Nat /\ old.rewardDebt \in Int
      /\ pool \in Pool /\ n \in Nat /\ depositInfo[pid][u] \in Seq(Record)
  BY StakeType, UpdatedPoolType, ChiefAssumption DEF ChiefInv, Types, Info
<1>2. d \in Record /\ d.multiplier \in Nat
  BY <1>1, WorthTypes, TotalTerms DEF Record
<1>3. virtual \in Nat /\ SharesOf(virtual, pool) \in Nat
  <2> HIDE DEF d, pool
  <2> QED
    BY <1>1, <1>2, MultipliedType, SharesType
<1>4. /\ virtual <= old.virtualAmount
      /\ userInfo' = [userInfo EXCEPT ![pid] = [userInfo[pid] EXCEPT ![u] = info]]
      /\ poolInfo' = [poolInfo EXCEPT
           ![pid] = [UpdatedPool(pid) EXCEPT !.virtualTotalSupply = @ - virtual]]
      /\ emitted' = EmittedBy(pid)
      /\ UNCHANGED <<block, settings, paid, roundings>>
  BY DEF WithdrawFromDeposit
<1>5. /\ info \in Info /\ info.virtualAmount = old.virtualAmount - virtual
      /\ info.rewardDebt = old.rewardDebt - SharesOf(virtual, pool)
  <2> HIDE DEF old, pool, virtual
  <2>1. old.virtualAmount - virtual \in Nat /\ old.rewardDebt - SharesOf(virtual, pool) \in Int
    BY <1>1, <1>3, <1>4
  <2> QED
    BY <2>1 DEF Info
<1> HIDE DEF info, virtual
<1>6. UserPays(u, pid, info, 0, 0)
  BY <1>3, <1>4, PoolLess, HistoryStays DEF UserPays
<1>7. /\ Owed(info, pool) <= Owed(old, pool) /\ Gain(info, pool) >= Gain(old, pool) - 1
  <2>1. info.virtualAmount + virtual = old.virtualAmount
    BY <1>1, <1>3, <1>5
  <2> HIDE DEF old, pool
  <2> QED
    BY <1>1, <1>3, <1>5, <2>1, StakingLess
<1> QED
  BY <1>5, <1>6, <1>7

(* emergencyWithdraw gives up what is owed. *)
LEMMA NothingOwed ==
  ASSUME NEW pool \in Pool
  PROVE  NoUserInfo \in Info /\ Owed(NoUserInfo, pool) = 0 /\ Gain(NoUserInfo, pool) = 0
<1>1. /\ NoUserInfo \in Info /\ NoUserInfo.virtualAmount = 0 /\ NoUserInfo.rewardDebt = 0
  BY DEF NoUserInfo, Info
<1>2. /\ pool.accTribePerShare \in Nat /\ ACC_TRIBE_PRECISION \in Nat \ {0}
  BY ChiefAssumption DEF Pool
<1>3. /\ 0 * pool.accTribePerShare = 0 /\ ACC_TRIBE_PRECISION * 0 = 0
      /\ 0 \div ACC_TRIBE_PRECISION = 0
  BY <1>2, Z3
<1>4. Left(NoUserInfo, pool) = 0 /\ Gain(NoUserInfo, pool) = 0
  BY <1>1, <1>3 DEF Left, Gain, SharesOf
<1> QED
  BY <1>1, <1>4 DEF Owed

(* An emergency withdrawal forgoes what is owed. *)
LEMMA EmergencyWithdrawPays ==
  ASSUME ChiefInv, NEW u \in User, NEW pid \in Pools, EmergencyWithdraw(u, pid)
  PROVE  UserPays(u, pid, NoUserInfo, 0, 0)
<1> DEFINE virtual == SumOver(depositInfo[pid][u], DepositVirtual)
<1>1. virtual \in Nat
  BY StakeType, SumsAreTotals
<1>2. /\ userInfo' = [userInfo EXCEPT ![pid] = [userInfo[pid] EXCEPT ![u] = NoUserInfo]]
      /\ poolInfo' = [poolInfo EXCEPT
           ![pid] = [UpdatedPool(pid) EXCEPT !.virtualTotalSupply = @ - virtual]]
      /\ emitted' = EmittedBy(pid)
      /\ UNCHANGED <<block, settings, paid, roundings>>
  BY DEF EmergencyWithdraw, TakeAll
<1> HIDE DEF virtual
<1> QED
  BY <1>1, <1>2, PoolLess, HistoryStays DEF UserPays

----------------------------------------------------------------------------
(* What pendingRewards shows is the gain after an update. *)
LEMMA PendingIsGain ==
  ASSUME NEW u, NEW pid
  PROVE  Pending(u, pid) = Gain(userInfo[pid][u], UpdatedPool(pid))
BY DEF Pending, Gain

(* What _harvest pays is what a user has gained. *)
LEMMA PaymentsAreGains ==
  ASSUME ChiefInv, NEW u \in User, NEW pid \in Pools, PayPending(u, pid)
  PROVE  /\ Gain(userInfo[pid][u], UpdatedPool(pid)) \in Nat
         /\ paid' = [paid EXCEPT ![pid] = paid[pid] + Gain(userInfo[pid][u], UpdatedPool(pid))]
         /\ ACC_TRIBE_PRECISION * Gain(userInfo[pid][u], UpdatedPool(pid))
              <= Owed(userInfo[pid][u], UpdatedPool(pid))
<1> DEFINE gain == Gain(userInfo[pid][u], UpdatedPool(pid))
<1>1. gain = Pending(u, pid)
  BY PendingIsGain
<1>2. gain \in 0 .. tribe /\ tribe \in Nat
  BY <1>1 DEF PayPending, CanHarvest, ChiefInv, Types
<1>3. paid' = [paid EXCEPT ![pid] = paid[pid] + gain]
  BY <1>1 DEF PayPending
<1>4. userInfo[pid][u] \in Info /\ UpdatedPool(pid) \in Pool
  BY StakeType, UpdatedPoolType DEF ChiefInv
<1>5. ACC_TRIBE_PRECISION * gain <= Owed(userInfo[pid][u], UpdatedPool(pid))
  <2>1. gain \in Int /\ (gain = 0 \/ gain > 0)
    BY <1>2
  <2>2. (IF gain > 0 THEN gain ELSE 0) = gain
    BY <2>1
  <2> QED
    BY <1>4, <2>2, GainIsOwed
<1>6. gain \in Nat
  BY <1>2
<1> QED
  BY <1>3, <1>5, <1>6

(* A harvest pays the whole gain, which was owed. *)
LEMMA HarvestPays ==
  ASSUME ChiefInv, NEW u \in User, NEW pid \in Pools, Harvest(u, pid)
  PROVE  \E info \in Info :
           /\ Gain(userInfo[pid][u], UpdatedPool(pid)) \in Nat
           /\ UserPays(u, pid, info, Gain(userInfo[pid][u], UpdatedPool(pid)), 0)
           /\ ACC_TRIBE_PRECISION * Gain(userInfo[pid][u], UpdatedPool(pid))
                + Owed(info, UpdatedPool(pid)) <= Owed(userInfo[pid][u], UpdatedPool(pid))
           /\ Gain(info, UpdatedPool(pid)) = 0
<1> DEFINE old == userInfo[pid][u]
           pool == UpdatedPool(pid)
           info == [old EXCEPT !.rewardDebt = SharesOf(old.virtualAmount, pool)]
<1>1. /\ old \in Info /\ old.virtualAmount \in Nat /\ pool \in Pool
      /\ pool.lastRewardBlock = block
  BY StakeType, UpdatedPoolType DEF ChiefInv, Info
<1>2. /\ PayPending(u, pid)
      /\ userInfo' = [userInfo EXCEPT ![pid] = [userInfo[pid] EXCEPT ![u] = info]]
      /\ poolInfo' = [poolInfo EXCEPT ![pid] = pool]
      /\ emitted' = EmittedBy(pid)
      /\ UNCHANGED <<block, settings, roundings>>
  BY DEF Harvest
<1>3. SharesOf(old.virtualAmount, pool) \in Nat
  <2> HIDE DEF old, pool
  <2> QED
    BY <1>1, SharesType
<1>4. /\ info \in Info /\ info.virtualAmount = old.virtualAmount
      /\ info.rewardDebt = SharesOf(info.virtualAmount, pool)
  <2> HIDE DEF old, pool
  <2> QED
    BY <1>1, <1>3 DEF Info
<1> HIDE DEF info
<1>5. /\ Gain(old, pool) \in Nat
      /\ paid' = [paid EXCEPT ![pid] = paid[pid] + Gain(old, pool)]
  BY <1>2, PaymentsAreGains
<1>6. /\ Pools' = Pools /\ \A i \in Pools \ {pid} : poolInfo'[i] = poolInfo[i]
      /\ poolInfo'[pid].accTribePerShare = pool.accTribePerShare
      /\ poolInfo'[pid].lastRewardBlock = block
  BY <1>1, <1>2, PaidPool
<1>7. UserPays(u, pid, info, Gain(old, pool), 0)
  BY <1>2, <1>5, <1>6, HistoryStays DEF UserPays
<1>8. /\ ACC_TRIBE_PRECISION * Gain(old, pool) + Owed(info, pool) <= Owed(old, pool)
      /\ Gain(info, pool) = 0
  <2> HIDE DEF old, pool
  <2> QED
    BY <1>1, <1>4, <1>5, PaymentIsOwed, DebtSettled
<1> QED
  BY <1>4, <1>5, <1>7, <1>8

(* So does withdrawAllAndHarvest, but its debts may round once. *)
LEMMA WithdrawAllAndHarvestPays ==
  ASSUME ChiefInv, NEW u \in User, NEW pid \in Pools, WithdrawAllAndHarvest(u, pid)
  PROVE  \E info \in Info, r \in {0, 1} :
           /\ Gain(userInfo[pid][u], UpdatedPool(pid)) \in Nat
           /\ UserPays(u, pid, info, Gain(userInfo[pid][u], UpdatedPool(pid)), r)
           /\ ACC_TRIBE_PRECISION * Gain(userInfo[pid][u], UpdatedPool(pid))
                + Owed(info, UpdatedPool(pid))
                <= Owed(userInfo[pid][u], UpdatedPool(pid)) + ACC_TRIBE_PRECISION * r
           /\ Gain(info, UpdatedPool(pid)) = 0
<1> DEFINE old == userInfo[pid][u]
           ds == depositInfo[pid][u]
           pool == UpdatedPool(pid)
           free == {i \in DOMAIN ds : IsFree(ds[i], pool)}
           virtual == SumFunctionOnSet([i \in free |-> DepositVirtual(ds[i])], free)
           rest == old.virtualAmount - virtual
           info == [virtualAmount |-> rest, rewardDebt |-> SharesOf(rest, pool)]
<1>1. /\ old \in Info /\ old.virtualAmount \in Nat /\ pool \in Pool
      /\ ds \in Seq(Record) /\ ACC_TRIBE_PRECISION \in Nat
  BY StakeType, UpdatedPoolType, ChiefAssumption DEF ChiefInv, Info
<1>2. virtual \in Nat
  <2> DEFINE worth == [i \in free |-> DepositVirtual(ds[i])]
  <2>1. IsFiniteSet(DOMAIN ds) /\ \A i \in DOMAIN ds : ds[i] \in Record /\ VirtualWorth[ds[i]] \in Nat
    BY <1>1, TotalTerms, WorthTypes
  <2>2. IsFiniteSet(free)
    <3>1. free \subseteq DOMAIN ds
      OBVIOUS
    <3> HIDE DEF free, ds
    <3> QED
      BY <2>1, <3>1, FS_Subset
  <2>3. \A i \in free : worth[i] \in Nat
    BY <2>1 DEF VirtualWorth
  <2> HIDE DEF worth, free
  <2> QED
    BY <2>2, <2>3, SumIsNat DEF worth
<1>3. /\ PayPending(u, pid)
      /\ poolInfo' = [poolInfo EXCEPT
           ![pid] = [UpdatedPool(pid) EXCEPT !.virtualTotalSupply = @ - virtual]]
      /\ emitted' = EmittedBy(pid)
      /\ UNCHANGED <<block, settings>>
  BY DEF WithdrawAllAndHarvest
<1>4. /\ free = DOMAIN ds =>
           /\ userInfo' = [userInfo EXCEPT ![pid] = [userInfo[pid] EXCEPT ![u] = NoUserInfo]]
           /\ roundings' = roundings
      /\ free # DOMAIN ds =>
           /\ rest >= 0
           /\ userInfo' = [userInfo EXCEPT ![pid] = [userInfo[pid] EXCEPT ![u] = info]]
           /\ roundings' = [roundings EXCEPT ![pid] = IF virtual = 0 THEN @ ELSE @ + 1]
  BY DEF WithdrawAllAndHarvest
<1> HIDE DEF free, virtual
<1>5. /\ Gain(old, pool) \in Nat
      /\ paid' = [paid EXCEPT ![pid] = paid[pid] + Gain(old, pool)]
      /\ ACC_TRIBE_PRECISION * Gain(old, pool) <= Owed(old, pool)
      /\ Owed(old, pool) \in Nat /\ ACC_TRIBE_PRECISION * Gain(old, pool) \in Nat
  <2>1. /\ Gain(old, pool) \in Nat
        /\ paid' = [paid EXCEPT ![pid] = paid[pid] + Gain(old, pool)]
        /\ ACC_TRIBE_PRECISION * Gain(old, pool) <= Owed(old, pool)
    BY <1>3, PaymentsAreGains
  <2> HIDE DEF old, pool
  <2> QED
    BY <1>1, <2>1, OwedType, ProductType
<1>6. /\ Pools' = Pools /\ \A i \in Pools \ {pid} : poolInfo'[i] = poolInfo[i]
      /\ poolInfo'[pid].accTribePerShare = pool.accTribePerShare
      /\ poolInfo'[pid].lastRewardBlock = block
  BY <1>2, <1>3, PoolLess
<1>7. ASSUME NEW new \in Info, NEW r \in {0, 1},
             userInfo' = [userInfo EXCEPT ![pid] = [userInfo[pid] EXCEPT ![u] = new]],
             roundings' = [roundings EXCEPT ![pid] = roundings[pid] + r]
      PROVE  UserPays(u, pid, new, Gain(old, pool), r)
  BY <1>3, <1>5, <1>6, <1>7 DEF UserPays
<1>8. CASE free = DOMAIN ds
  <2>1. /\ NoUserInfo \in Info /\ Owed(NoUserInfo, pool) = 0 /\ Gain(NoUserInfo, pool) = 0
    BY <1>1, NothingOwed
  <2>2. UserPays(u, pid, NoUserInfo, Gain(old, pool), 0)
    BY <1>4, <1>7, <1>8, <2>1, HistoryStays
  <2>3. ACC_TRIBE_PRECISION * Gain(old, pool) + 0 <= Owed(old, pool) + ACC_TRIBE_PRECISION * 0
    <3> HIDE DEF old, pool
    <3> QED
      BY <1>1, <1>5
  <2> QED
    BY <1>5, <2>1, <2>2, <2>3
<1>9. CASE free # DOMAIN ds
  <2>1. rest \in Nat
    <3> HIDE DEF old
    <3> QED
      BY <1>1, <1>2, <1>4, <1>9
  <2>2. /\ info \in Info /\ info.virtualAmount = rest
        /\ info.rewardDebt = SharesOf(info.virtualAmount, pool)
    <3>1. SharesOf(rest, pool) \in Nat
      BY <1>1, <2>1, SharesType
    <3> HIDE DEF rest, pool
    <3> QED
      BY <2>1, <3>1 DEF Info
  <2>3. /\ userInfo' = [userInfo EXCEPT ![pid] = [userInfo[pid] EXCEPT ![u] = info]]
        /\ roundings' = [roundings EXCEPT ![pid] = IF virtual = 0 THEN @ ELSE @ + 1]
    BY <1>4, <1>9
  <2> HIDE DEF info
  <2>4. /\ Gain(info, pool) = 0 /\ Owed(info, pool) < ACC_TRIBE_PRECISION
        /\ Owed(info, pool) \in Nat
    BY <1>1, <2>2, DebtSettled, OwedType
  <2>5. CASE virtual = 0
    <3>1. UserPays(u, pid, info, Gain(old, pool), 0)
      BY <1>7, <2>2, <2>3, <2>5, HistoryStays
    <3>2. ACC_TRIBE_PRECISION * Gain(old, pool) + Owed(info, pool) <= Owed(old, pool)
      <4>1. info.virtualAmount = old.virtualAmount
        BY <1>1, <2>2, <2>5
      <4> HIDE DEF old, pool
      <4> QED
        BY <1>1, <1>5, <2>2, <4>1, PaymentIsOwed
    <3>3. Owed(old, pool) = Owed(old, pool) + ACC_TRIBE_PRECISION * 0
      <4> HIDE DEF old, pool
      <4> QED
        BY <1>1, <1>5
    <3> QED
      BY <1>5, <2>2, <2>4, <3>1, <3>2, <3>3
  <2>6. CASE virtual # 0
    <3>1. UserPays(u, pid, info, Gain(old, pool), 1)
      BY <1>7, <2>2, <2>3, <2>6
    <3>2. ACC_TRIBE_PRECISION * Gain(old, pool) + Owed(info, pool)
            <= Owed(old, pool) + ACC_TRIBE_PRECISION * 1
      <4> HIDE DEF old, pool
      <4> QED
        BY <1>1, <1>5, <2>4
    <3> QED
      BY <1>5, <2>2, <2>4, <3>1, <3>2
  <2> QED
    BY <2>5, <2>6
<1> QED
  BY <1>8, <1>9

----------------------------------------------------------------------------
(* The transactions that update pools or none of them.  A step that touches no *)
(* pool pays nothing.                                                         *)
LEMMA PoolsUnpaid ==
  ASSUME ChiefInv, UNCHANGED <<poolInfo, userInfo, paid, roundings, emitted>>,
         block' \in Nat, block' >= block
  PROVE  PoolsPay
BY DEF PoolsPay, EarnsAs, Pools

(* One pool is replaced, by one that earns as it did or by the updated one. *)
LEMMA PoolPays ==
  ASSUME ChiefInv, NEW pid \in Pools, NEW new, poolInfo' = [poolInfo EXCEPT ![pid] = new],
         UNCHANGED <<block, userInfo, paid, roundings>>,
         \/ EarnsAs(new, poolInfo[pid]) /\ emitted' = emitted
         \/ /\ new.accTribePerShare = UpdatedPool(pid).accTribePerShare
            /\ new.lastRewardBlock = block /\ emitted' = EmittedBy(pid)
  PROVE  PoolsPay
<1>1. Pools' = Pools /\ poolInfo'[pid] = new /\ \A i \in Pools \ {pid} : poolInfo'[i] = poolInfo[i]
  BY DEF Pools
<1>2. \A i \in Pools \ {pid} : EarnsAs(poolInfo'[i], poolInfo[i]) /\ emitted'[i] = emitted[i]
  BY <1>1 DEF EarnsAs, EmittedBy, ChiefInv, Types
<1>3. block' = block /\ block' >= block
  BY ChiefAssumption DEF ChiefInv, Types
<1>4. \/ EarnsAs(poolInfo'[pid], poolInfo[pid]) /\ emitted'[pid] = emitted[pid]
      \/ /\ poolInfo'[pid].accTribePerShare = UpdatedPool(pid).accTribePerShare
         /\ poolInfo'[pid].lastRewardBlock = block' /\ emitted'[pid] = EmittedBy(pid)[pid]
  BY <1>1, <1>3
<1> QED
  BY <1>1, <1>2, <1>3, <1>4 DEF PoolsPay

(* Neither does locking or unlocking a pool, *)
LEMMA LockingPays ==
  ASSUME ChiefInv, NEW pid \in Pools, NEW unlocked,
         poolInfo' = [poolInfo EXCEPT ![pid].unlocked = unlocked],
         UNCHANGED <<block, userInfo, paid, roundings, emitted>>
  PROVE  PoolsPay
<1> DEFINE new == [poolInfo[pid] EXCEPT !.unlocked = unlocked]
<1>1. EarnsAs(new, poolInfo[pid])
  BY PoolFacts DEF ChiefInv, Pool, EarnsAs
<1>2. poolInfo' = [poolInfo EXCEPT ![pid] = new]
  OBVIOUS
<1> HIDE DEF new
<1> QED
  BY <1>1, <1>2, PoolPays

(* updating one, *)
LEMMA UpdatePays ==
  ASSUME ChiefInv, NEW pid \in Pools, NEW new,
         poolInfo' = [poolInfo EXCEPT ![pid] = new],
         new.accTribePerShare = UpdatedPool(pid).accTribePerShare, new.lastRewardBlock = block,
         emitted' = EmittedBy(pid), UNCHANGED <<block, userInfo, paid, roundings>>
  PROVE  PoolsPay
BY PoolPays

(* updating many, *)
LEMMA MassUpdatePoolsPays ==
  ASSUME ChiefInv, NEW pids \in SUBSET Pools, MassUpdatePools(pids)
  PROVE  PoolsPay
<1>1. /\ UNCHANGED <<block, userInfo, paid, roundings>>
      /\ poolInfo' = [i \in Pools |-> IF i \in pids THEN UpdatedPool(i) ELSE poolInfo[i]]
      /\ emitted' = [i \in Pools |-> IF i \in pids THEN EmittedBy(i)[i] ELSE emitted[i]]
  BY DEF MassUpdatePools, books
<1>2. \A i \in Pools : UpdatedPool(i).lastRewardBlock = block
  BY UpdatedPoolType DEF ChiefInv
<1>3. block' = block /\ block' >= block
  BY <1>1, ChiefAssumption DEF ChiefInv, Types
<1>4. Pools' = Pools
  BY <1>1 DEF Pools
<1>5. ASSUME NEW i \in Pools
      PROVE  \/ EarnsAs(poolInfo'[i], poolInfo[i]) /\ emitted'[i] = emitted[i]
             \/ /\ poolInfo'[i].accTribePerShare = UpdatedPool(i).accTribePerShare
                /\ poolInfo'[i].lastRewardBlock = block' /\ emitted'[i] = EmittedBy(i)[i]
  BY <1>1, <1>2, <1>3 DEF EarnsAs
<1> QED
  BY <1>1, <1>3, <1>4, <1>5 DEF PoolsPay

(* giving it other points, *)
LEMMA SetPays ==
  ASSUME ChiefInv, NEW caller, NEW pid \in Pools, NEW points, Set(caller, pid, points)
  PROVE  PoolsPay
<1> DEFINE new == [UpdatedPool(pid) EXCEPT !.allocPoint = points]
<1>1. UpdatedPool(pid) \in Pool /\ UpdatedPool(pid).lastRewardBlock = block
  BY UpdatedPoolType DEF ChiefInv
<1>2. /\ new.accTribePerShare = UpdatedPool(pid).accTribePerShare
      /\ new.lastRewardBlock = block
  BY <1>1 DEF Pool
<1>3. /\ poolInfo' = [poolInfo EXCEPT ![pid] = new]
      /\ emitted' = EmittedBy(pid) /\ UNCHANGED <<block, userInfo, paid, roundings>>
  BY DEF Set, SetIn, books, EmittedBy
<1> HIDE DEF new
<1> QED
  BY <1>2, <1>3, UpdatePays

(* or taking all of them. *)
LEMMA ResetRewardsPays ==
  ASSUME ChiefInv, NEW caller, NEW pid \in Pools, ResetRewards(caller, pid)
  PROVE  PoolsPay
<1> DEFINE new == [UpdatedPool(pid) EXCEPT !.allocPoint = 0, !.unlocked = TRUE]
<1>1. UpdatedPool(pid) \in Pool /\ UpdatedPool(pid).lastRewardBlock = block
  BY UpdatedPoolType DEF ChiefInv
<1>2. /\ new.accTribePerShare = UpdatedPool(pid).accTribePerShare
      /\ new.lastRewardBlock = block
  BY <1>1 DEF Pool
<1>3. /\ poolInfo' = [poolInfo EXCEPT ![pid] = new]
      /\ emitted' = EmittedBy(pid) /\ UNCHANGED <<block, userInfo, paid, roundings>>
  BY DEF ResetRewards, ResetRewardsIn, books, EmittedBy
<1> HIDE DEF new
<1> QED
  BY <1>2, <1>3, UpdatePays

(* A pool that is added owes nothing, and the others what they did. *)
LEMMA AddHistory ==
  ASSUME ChiefInv, NEW caller, NEW points \in AllocPoints, NEW data \in RewardData,
         Add(caller, points, data)
  PROVE  LET n == Len(poolInfo)
         IN  /\ n \in Nat /\ Pools = 1 .. n /\ Pools' = 1 .. n + 1
             /\ \A i \in 1 .. n :
                  /\ poolInfo'[i] = poolInfo[i] /\ userInfo'[i] = userInfo[i]
                  /\ paid'[i] = paid[i] /\ emitted'[i] = emitted[i]
                  /\ roundings'[i] = roundings[i]
             /\ userInfo'[n + 1] = [u \in User |-> NoUserInfo]
             /\ poolInfo'[n + 1] \in Pool
             /\ paid'[n + 1] = 0 /\ emitted'[n + 1] = 0 /\ roundings'[n + 1] = 0
<1> DEFINE n == Len(poolInfo)
<1>1. /\ n \in Nat /\ Pools = 1 .. n /\ Pools' = 1 .. n + 1 /\ Types'
      /\ \A i \in 1 .. n : poolInfo'[i] = poolInfo[i] /\ userInfo'[i] = userInfo[i]
      /\ userInfo'[n + 1] = [u \in User |-> NoUserInfo]
  BY AddTypes
<1>2. /\ emitted' = Append(emitted, 0) /\ paid' = Append(paid, 0)
      /\ roundings' = Append(roundings, 0)
  BY DEF Add, AddTo
<1>3. /\ emitted \in [1 .. n -> Nat] /\ paid \in [1 .. n -> Nat] /\ roundings \in [1 .. n -> Nat]
  BY <1>1 DEF ChiefInv, Types
<1>4. poolInfo'[n + 1] \in Pool
  <2>1. poolInfo' \in Seq(Pool) /\ DOMAIN poolInfo' = 1 .. n + 1 /\ n + 1 \in 1 .. n + 1
    BY <1>1 DEF Types, Pools
  <2>2. poolInfo' \in [1 .. Len(poolInfo') -> Pool]
    BY <2>1, LenProperties
  <2> QED
    BY <2>1, <2>2
<1> HIDE DEF n
<1>5. emitted'[n + 1] = 0 /\ \A i \in 1 .. n : emitted'[i] = emitted[i]
  BY <1>1, <1>2, <1>3, Appends
<1>6. paid'[n + 1] = 0 /\ \A i \in 1 .. n : paid'[i] = paid[i]
  BY <1>1, <1>2, <1>3, Appends
<1>7. roundings'[n + 1] = 0 /\ \A i \in 1 .. n : roundings'[i] = roundings[i]
  BY <1>1, <1>2, <1>3, Appends
<1> QED
  BY <1>1, <1>4, <1>5, <1>6, <1>7 DEF n

(* A new pool owes nothing. *)
LEMMA AddCovered ==
  ASSUME ChiefInv, ClaimsCovered, NEW caller, NEW points \in AllocPoints, NEW data \in RewardData,
         Add(caller, points, data)
  PROVE  ClaimsCovered'
<1> DEFINE n == Len(poolInfo)
<1>1. /\ n \in Nat /\ Pools = 1 .. n /\ Pools' = 1 .. n + 1
      /\ \A i \in 1 .. n :
           /\ poolInfo'[i] = poolInfo[i] /\ userInfo'[i] = userInfo[i]
           /\ paid'[i] = paid[i] /\ emitted'[i] = emitted[i] /\ roundings'[i] = roundings[i]
      /\ userInfo'[n + 1] = [u \in User |-> NoUserInfo] /\ poolInfo'[n + 1] \in Pool
      /\ paid'[n + 1] = 0 /\ emitted'[n + 1] = 0 /\ roundings'[n + 1] = 0
  BY AddHistory
<1> HIDE DEF n
<1>2. ASSUME NEW i \in 1 .. n
      PROVE  ACC_TRIBE_PRECISION * paid'[i] + SumFunctionOnSet(Claims(i)', User)
               <= ACC_TRIBE_PRECISION * (emitted'[i] + roundings'[i])
  <2>1. Claims(i)' = Claims(i)
    BY <1>1, ClaimsAfter DEF Claims
  <2> QED
    BY <1>1, <2>1 DEF ClaimsCovered
<1>3. ASSUME NEW i, i = n + 1
      PROVE  ACC_TRIBE_PRECISION * paid'[i] + SumFunctionOnSet(Claims(i)', User)
               <= ACC_TRIBE_PRECISION * (emitted'[i] + roundings'[i])
  <2>1. Claims(i)' = [u \in User |-> Owed(userInfo'[i][u], poolInfo'[i])]
    BY ClaimsAfter
  <2>2. PICK claims : claims = Claims(i)'
    OBVIOUS
  <2>3. \A u \in User : claims[u] = 0
    BY <1>1, <1>3, <2>1, <2>2, NothingOwed
  <2>4. SumFunctionOnSet(claims, User) = 0
    BY <2>3, ChiefAssumption, SumOfZeros
  <2>5. ACC_TRIBE_PRECISION * 0 = 0 /\ 0 + 0 = 0
    BY ChiefAssumption
  <2> QED
    BY <1>1, <1>3, <2>2, <2>4, <2>5
<1>4. \A i \in 1 .. n + 1 : i \in 1 .. n \/ i = n + 1
  BY <1>1
<1> QED
  BY <1>1, <1>2, <1>3, <1>4 DEF ClaimsCovered

----------------------------------------------------------------------------
SomeAdd ==
  \E caller \in Governor \cup Admin \cup Guardian, points \in AllocPoints, data \in RewardData :
    Add(caller, points, data)

SomeTransaction ==
  \E pid \in Pools, u \in User :
    \/ \E n \in Amounts :
         \/ \E lock \in Locks : Deposit(u, pid, n, lock)
         \/ \E i \in DOMAIN depositInfo[pid][u] : WithdrawFromDeposit(u, pid, n, i)
    \/ WithdrawAllAndHarvest(u, pid)
    \/ Harvest(u, pid)
    \/ EmergencyWithdraw(u, pid)

(* Every other step updates some pools or none. *)
LEMMA AllPoolsPay ==
  ASSUME ChiefInv, [Next]_vars
  PROVE  PoolsPay \/ SomeAdd \/ SomeTransaction
<1>1. block \in Nat
  BY ChiefAssumption DEF ChiefInv, Types
<1>2. CASE UNCHANGED vars
  BY <1>1, <1>2, PoolsUnpaid DEF vars, books
<1>3. CASE AdvanceBlock
  BY <1>1, <1>3, PoolsUnpaid DEF AdvanceBlock, books
<1>4. ASSUME NEW caller,
             \/ \E r \in Rewards : UpdateBlockReward(caller, r)
             \/ \E n \in TribeAmounts : GovernorWithdrawTribe(caller, n)
             \/ Pause(caller)
      PROVE  PoolsPay
  <2>1. UNCHANGED <<block, poolInfo, userInfo, paid, roundings, emitted>>
    BY <1>4 DEF UpdateBlockReward, UpdateBlockRewardOf, GovernorWithdrawTribe, Pause, books
  <2> QED
    BY <1>1, <2>1, PoolsUnpaid
<1>5. ASSUME NEW caller, NEW pid \in Pools,
             \/ \E unlocked \in BOOLEAN : LockPool(caller, pid, unlocked)
             \/ \E lock \in Locks, m \in Multipliers :
                  GovernorAddPoolMultiplier(caller, pid, lock, m)
             \/ \E points \in AllocPoints : Set(caller, pid, points)
      PROVE  PoolsPay
  <2>1. ASSUME NEW unlocked \in BOOLEAN, LockPool(caller, pid, unlocked) PROVE PoolsPay
    BY <2>1, LockingPays DEF LockPool, books
  <2>2. ASSUME NEW lock \in Locks, NEW m \in Multipliers,
               GovernorAddPoolMultiplier(caller, pid, lock, m)
        PROVE  PoolsPay
    <3>1. \E unlocked : poolInfo' = [poolInfo EXCEPT ![pid].unlocked = unlocked]
      BY <2>2 DEF GovernorAddPoolMultiplier
    <3>2. UNCHANGED <<block, userInfo, paid, roundings, emitted>>
      BY <2>2 DEF GovernorAddPoolMultiplier, books
    <3> QED
      BY <3>1, <3>2, LockingPays
  <2>3. ASSUME NEW points \in AllocPoints, Set(caller, pid, points) PROVE PoolsPay
    BY <2>3, SetPays
  <2> QED
    BY <1>5, <2>1, <2>2, <2>3
<1>6. ASSUME NEW caller, NEW pid \in Pools, ResetRewards(caller, pid)
      PROVE  PoolsPay
  BY <1>6, ResetRewardsPays
<1>7. CASE \E pids \in SUBSET Pools : MassUpdatePools(pids)
  BY <1>7, MassUpdatePoolsPays
<1>8. ASSUME NEW pid \in Pools, UpdatePool(pid)
      PROVE  PoolsPay
  <2>1. UpdatedPool(pid).lastRewardBlock = block
    BY UpdatedPoolType DEF ChiefInv
  <2>2. /\ poolInfo' = [poolInfo EXCEPT ![pid] = UpdatedPool(pid)]
        /\ emitted' = EmittedBy(pid) /\ UNCHANGED <<block, userInfo, paid, roundings>>
    BY <1>8 DEF UpdatePool, books
  <2> QED
    BY <2>1, <2>2, UpdatePays
<1>9. ASSUME NEW caller \in Governor \cup Admin \cup Guardian,
             NEW points \in AllocPoints, NEW data \in RewardData, Add(caller, points, data)
      PROVE  SomeAdd
  BY <1>9 DEF SomeAdd
<1>10. ASSUME NEW pid \in Pools, NEW u \in User,
              \/ \E n \in Amounts :
                   \/ \E lock \in Locks : Deposit(u, pid, n, lock)
                   \/ \E i \in DOMAIN depositInfo[pid][u] : WithdrawFromDeposit(u, pid, n, i)
              \/ WithdrawAllAndHarvest(u, pid)
              \/ Harvest(u, pid)
              \/ EmergencyWithdraw(u, pid)
       PROVE  SomeTransaction
  BY <1>10 DEF SomeTransaction
<1> QED
  BY <1>2, <1>3, <1>4, <1>5, <1>6, <1>7, <1>8, <1>9, <1>10 DEF Next

(* Every step keeps the claims covered. *)
LEMMA CoveredKeeps ==
  ASSUME ChiefInv, ClaimsCovered, [Next]_vars
  PROVE  ClaimsCovered'
<1> DEFINE P == ACC_TRIBE_PRECISION
<1>1. P \in Nat /\ P * 0 = 0 /\ P * 1 = P
  BY ChiefAssumption
<1>2. CASE PoolsPay
  BY <1>2, PoolsPayCovered
<1>3. ASSUME NEW caller, NEW points \in AllocPoints, NEW data \in RewardData,
             Add(caller, points, data)
      PROVE  ClaimsCovered'
  BY <1>3, AddCovered
<1>4. ASSUME NEW pid \in Pools, NEW u \in User
      PROVE  /\ userInfo[pid][u] \in Info /\ UpdatedPool(pid) \in Pool
             /\ Owed(userInfo[pid][u], UpdatedPool(pid)) \in Nat
  <2>1. userInfo[pid][u] \in Info /\ UpdatedPool(pid) \in Pool
    BY StakeType, UpdatedPoolType DEF ChiefInv
  <2> QED
    BY <2>1, OwedType
<1>5. ASSUME NEW pid \in Pools, NEW u \in User, NEW info \in Info, NEW r \in {0, 1},
             UserPays(u, pid, info, 0, r),
             Owed(info, UpdatedPool(pid)) <= Owed(userInfo[pid][u], UpdatedPool(pid)) + P * r
      PROVE  ClaimsCovered'
  <2>1. Owed(info, UpdatedPool(pid)) \in Nat
    BY <1>4, OwedType
  <2>2. P * 0 + Owed(info, UpdatedPool(pid)) <= Owed(userInfo[pid][u], UpdatedPool(pid)) + P * r
    BY <1>1, <1>5, <2>1
  <2> QED
    BY <1>5, <2>2, UserPaysCovered
<1>6. ASSUME NEW pid \in Pools, NEW u \in User, NEW n \in Amounts, NEW lock \in Locks,
             Deposit(u, pid, n, lock)
      PROVE  ClaimsCovered'
  <2>1. PICK info \in Info :
          /\ UserPays(u, pid, info, 0, 1)
          /\ Owed(info, UpdatedPool(pid)) <= Owed(userInfo[pid][u], UpdatedPool(pid)) + P
    BY <1>6, DepositPays
  <2> QED
    BY <1>1, <1>5, <2>1
<1>7. ASSUME NEW pid \in Pools, NEW u \in User, NEW info \in Info,
             UserPays(u, pid, info, 0, 0),
             Owed(info, UpdatedPool(pid)) <= Owed(userInfo[pid][u], UpdatedPool(pid))
      PROVE  ClaimsCovered'
  <2>1. Owed(userInfo[pid][u], UpdatedPool(pid))
          = Owed(userInfo[pid][u], UpdatedPool(pid)) + P * 0
    BY <1>1, <1>4
  <2> QED
    BY <1>5, <1>7, <2>1
<1>8. ASSUME NEW pid \in Pools, NEW u \in User, NEW n \in Amounts,
             NEW i \in DOMAIN depositInfo[pid][u], WithdrawFromDeposit(u, pid, n, i)
      PROVE  ClaimsCovered'
  BY <1>7, <1>8, WithdrawFromDepositPays
<1>9. ASSUME NEW pid \in Pools, NEW u \in User, EmergencyWithdraw(u, pid)
      PROVE  ClaimsCovered'
  <2>1. UserPays(u, pid, NoUserInfo, 0, 0)
    BY <1>9, EmergencyWithdrawPays
  <2>2. NoUserInfo \in Info /\ Owed(NoUserInfo, UpdatedPool(pid)) = 0
    BY <1>4, NothingOwed
  <2>3. Owed(NoUserInfo, UpdatedPool(pid)) <= Owed(userInfo[pid][u], UpdatedPool(pid))
    BY <1>4, <2>2
  <2> QED
    BY <1>7, <2>1, <2>2, <2>3
<1>10. ASSUME NEW pid \in Pools, NEW u \in User, WithdrawAllAndHarvest(u, pid)
       PROVE  ClaimsCovered'
  <2>1. PICK info \in Info, r \in {0, 1} :
          /\ Gain(userInfo[pid][u], UpdatedPool(pid)) \in Nat
          /\ UserPays(u, pid, info, Gain(userInfo[pid][u], UpdatedPool(pid)), r)
          /\ P * Gain(userInfo[pid][u], UpdatedPool(pid)) + Owed(info, UpdatedPool(pid))
               <= Owed(userInfo[pid][u], UpdatedPool(pid)) + P * r
    BY <1>10, WithdrawAllAndHarvestPays
  <2>2. r \in Nat
    OBVIOUS
  <2> QED
    BY <2>1, <2>2, UserPaysCovered
<1>11. ASSUME NEW pid \in Pools, NEW u \in User, Harvest(u, pid)
       PROVE  ClaimsCovered'
  <2>1. PICK info \in Info :
          /\ Gain(userInfo[pid][u], UpdatedPool(pid)) \in Nat
          /\ UserPays(u, pid, info, Gain(userInfo[pid][u], UpdatedPool(pid)), 0)
          /\ P * Gain(userInfo[pid][u], UpdatedPool(pid)) + Owed(info, UpdatedPool(pid))
               <= Owed(userInfo[pid][u], UpdatedPool(pid))
    BY <1>11, HarvestPays
  <2>2. Owed(userInfo[pid][u], UpdatedPool(pid))
          = Owed(userInfo[pid][u], UpdatedPool(pid)) + P * 0
    BY <1>1, <1>4
  <2> QED
    BY <2>1, <2>2, UserPaysCovered
<1> HIDE DEF P
<1> QED
  BY <1>2, <1>3, <1>6, <1>8, <1>9, <1>10, <1>11, AllPoolsPay DEF SomeAdd, SomeTransaction

(* Whoever is owed something can be paid. *)
LEMMA CoveredMeans ==
  ASSUME ChiefInv, ClaimsCovered
  PROVE  RewardsAreEmitted
<1> DEFINE P == ACC_TRIBE_PRECISION
<1> SUFFICES ASSUME NEW pid \in Pools
             PROVE  paid[pid] + SumFunction([u \in User |->
                        IF Pending(u, pid) > 0 THEN Pending(u, pid) ELSE 0])
                      <= emitted[pid] + TribeReward(pid) + roundings[pid]
  BY DEF RewardsAreEmitted
<1> DEFINE pool == UpdatedPool(pid)
           f == [u \in User |-> IF Pending(u, pid) > 0 THEN Pending(u, pid) ELSE 0]
           g == [u \in User |-> P * f[u]]
           claims == ClaimsAt(pid, pool)
<1>1. /\ pool \in Pool /\ IsFiniteSet(User) /\ P \in Nat \ {0}
      /\ paid[pid] \in Nat /\ emitted[pid] \in Nat /\ roundings[pid] \in Nat
      /\ TribeReward(pid) \in Nat
      /\ \A u \in User : userInfo[pid][u] \in Info
  BY UpdatedPoolType, RewardType, ChiefAssumption DEF ChiefInv, Types
<1>2. \A u \in User : /\ f[u] \in Nat /\ g[u] \in Nat /\ claims[u] \in Nat
                      /\ g[u] = P * f[u] /\ g[u] <= claims[u]
  <2> SUFFICES ASSUME NEW u \in User
               PROVE  /\ f[u] \in Nat /\ g[u] \in Nat /\ claims[u] \in Nat
                      /\ g[u] = P * f[u] /\ g[u] <= claims[u]
    OBVIOUS
  <2> DEFINE info == userInfo[pid][u]
             gain == IF Gain(info, pool) > 0 THEN Gain(info, pool) ELSE 0
  <2>1. f[u] = gain
    BY PendingIsGain
  <2>2. claims[u] = Owed(info, pool) /\ g[u] = P * f[u]
    BY DEF ClaimsAt
  <2>3. info \in Info
    BY <1>1
  <2> HIDE DEF info, pool, f, g, claims
  <2>4. gain \in Nat /\ P * gain <= Owed(info, pool)
    BY <1>1, <2>3, GainIsOwed
  <2>5. Owed(info, pool) \in Nat
    BY <1>1, <2>3, OwedType
  <2> HIDE DEF gain
  <2>6. P * gain \in Nat
    BY <1>1, <2>4, ProductType
  <2> QED
    BY <2>1, <2>2, <2>4, <2>5, <2>6
<1> HIDE DEF f, g, claims
<1>3. SumFunctionOnSet(g, User) = P * SumFunctionOnSet(f, User)
  <2>1. P \in Int /\ \A u \in User : f[u] \in Int /\ g[u] \in Int /\ g[u] = P * f[u]
    BY <1>1, <1>2
  <2> QED
    BY <1>1, <2>1, SumScales
<1>4. SumFunctionOnSet(g, User) <= SumFunctionOnSet(claims, User)
  <2>1. \A u \in User : g[u] \in Int /\ claims[u] \in Int /\ g[u] <= claims[u]
    BY <1>2
  <2> QED
    BY <1>1, <2>1, SumKeepsOrder
<1>5. /\ SumFunctionOnSet(f, User) \in Nat /\ SumFunctionOnSet(g, User) \in Nat
      /\ SumFunctionOnSet(claims, User) \in Nat
  BY <1>1, <1>2, SumIsNat
<1>6. P * paid[pid] + SumFunctionOnSet(claims, User)
        <= P * (EmittedBy(pid)[pid] + roundings[pid])
  BY UpdatedClaims DEF claims
<1>7. EmittedBy(pid)[pid] = emitted[pid] + TribeReward(pid)
  BY DEF EmittedBy, ChiefInv, Types
<1>8. PICK a \in Nat, s \in Nat, b \in Nat :
        /\ a = paid[pid] /\ s = SumFunctionOnSet(f, User)
        /\ b = emitted[pid] + TribeReward(pid) + roundings[pid]
  BY <1>1, <1>5
<1>9. P * (a + s) = P * a + P * s /\ P * a \in Int /\ P * s \in Int /\ P * b \in Int
  BY <1>1, DistributesLeft, IntProduct
<1>10. P * a + P * s <= P * b
  <2>1. P * s <= SumFunctionOnSet(claims, User)
    BY <1>3, <1>4, <1>8
  <2>2. P * a + SumFunctionOnSet(claims, User) <= P * b
    BY <1>6, <1>7, <1>8
  <2> HIDE DEF P
  <2> QED
    BY <1>5, <1>9, <2>1, <2>2
<1>11. a + s <= b
  <2>1. a + s \in Nat /\ (a + s) * P = P * (a + s) /\ b * P = P * b
    <3>1. a + s \in Int /\ a + s \in Nat
      OBVIOUS
    <3> QED
      BY <1>1, <3>1, Distributes
  <2>2. (a + s) * P <= b * P
    BY <1>9, <1>10, <2>1
  <2> HIDE DEF P
  <2> QED
    BY <1>1, <2>1, <2>2, ProductCancels
<1>12. SumFunction(f) = s
  BY <1>8 DEF SumFunction, f
<1> QED
  BY <1>8, <1>11, <1>12 DEF f

(* TribalChief.sol:558-588.  Whatever users do, and however often a share or a debt *)
(* is rounded, a pool never pays and owes more than what it was given and one wei    *)
(* for each debt that was rounded.                                                   *)
THEOREM PoolsPayWhatTheyGet == Spec => []RewardsAreEmitted
<1>1. Init => ClaimsCovered
  BY EmptySeq DEF Init, ClaimsCovered, Pools
<1>2. ChiefInv /\ ClaimsCovered /\ [Next]_vars => ClaimsCovered'
  BY CoveredKeeps
<1>3. ChiefInv /\ ClaimsCovered => RewardsAreEmitted
  BY CoveredMeans
<1> QED
  BY <1>1, <1>2, <1>3, ChiefInvariant, PTL DEF Spec

----------------------------------------------------------------------------
(* Rewards are kept.  What a pool has earned up to a block, from what it is *)
Given(pool, now, rate, total) ==
  IF pool.virtualTotalSupply > 0 /\ total # 0
  THEN ((now - pool.lastRewardBlock) * rate * pool.allocPoint) \div total
  ELSE 0
Share(pool, now, rate, total) ==
  pool.accTribePerShare +
    IF Given(pool, now, rate, total) = 0 THEN 0
    ELSE (Given(pool, now, rate, total) * ACC_TRIBE_PRECISION) \div pool.virtualTotalSupply

(* The value per share of every pool *)
SharesAreEarned ==
  \A pid \in Pools :
    UpdatedPool(pid).accTribePerShare
      = Share(poolInfo[pid], block, tribePerBlock, totalAllocPoint)

(* The values per share are those of the pools, the block, the rate and the points, *)
LEMMA ShareIsEarned == Types => SharesAreEarned
<1> SUFFICES ASSUME Types, NEW pid \in Pools
             PROVE  UpdatedPool(pid).accTribePerShare
                      = Share(poolInfo[pid], block, tribePerBlock, totalAllocPoint)
  BY DEF SharesAreEarned
<1> DEFINE perShare == IF TribeReward(pid) = 0 THEN 0
                       ELSE (TribeReward(pid) * ACC_TRIBE_PRECISION)
                              \div poolInfo[pid].virtualTotalSupply
<1>1. poolInfo[pid] \in Pool
  BY PoolFacts
<1>2. UpdatedPool(pid) = [poolInfo[pid] EXCEPT !.accTribePerShare = @ + perShare,
                                               !.lastRewardBlock = block]
  BY DEF UpdatedPool
<1>3. TribeReward(pid) = Given(poolInfo[pid], block, tribePerBlock, totalAllocPoint)
  BY DEF TribeReward, Given
<1>4. Share(poolInfo[pid], block, tribePerBlock, totalAllocPoint)
        = poolInfo[pid].accTribePerShare + perShare
  BY <1>3 DEF Share
<1> HIDE DEF perShare
<1> QED
  BY <1>1, <1>2, <1>4 DEF Pool

(* after a step too. *)
LEMMA ShareIsEarnedAfter == Types' => SharesAreEarned'
BY ShareIsEarned, PTL

LEMMA SameShare ==
  ASSUME NEW new, NEW old, EarnsAs(new, old), NEW now, NEW rate, NEW total
  PROVE  Share(new, now, rate, total) = Share(old, now, rate, total)
BY DEF EarnsAs, Share, Given

(* It grows with the blocks, *)
LEMMA ShareGrows ==
  ASSUME NEW pool \in Pool, NEW now \in Nat, NEW later \in Nat, pool.lastRewardBlock <= now,
         now <= later, NEW rate \in Nat, NEW total \in Nat
  PROVE  /\ Share(pool, now, rate, total) \in Nat /\ Share(pool, later, rate, total) \in Nat
         /\ Share(pool, now, rate, total) <= Share(pool, later, rate, total)
<1>1. /\ pool.virtualTotalSupply \in Nat /\ pool.allocPoint \in Nat
      /\ pool.accTribePerShare \in Nat /\ ACC_TRIBE_PRECISION \in Nat
      /\ pool.lastRewardBlock \in Nat
  BY ChiefAssumption DEF Pool
<1> DEFINE first == Given(pool, now, rate, total)
           second == Given(pool, later, rate, total)
<1>2. first \in Nat /\ second \in Nat /\ first <= second
  <2>1. CASE pool.virtualTotalSupply > 0 /\ total # 0
    <3>1. PICK a \in Nat, b \in Nat :
            a = now - pool.lastRewardBlock /\ b = later - pool.lastRewardBlock
      BY <1>1
    <3>2. a <= b
      BY <1>1, <3>1
    <3>3. PICK c \in Nat, d \in Nat : c = a * rate /\ d = b * rate
      BY ProductType
    <3>4. c <= d
      BY <3>2, <3>3, ProductMonotonic
    <3>5. PICK e \in Nat, f \in Nat : e = c * pool.allocPoint /\ f = d * pool.allocPoint
      BY <1>1, ProductType
    <3>6. e <= f
      BY <1>1, <3>4, <3>5, ProductMonotonic
    <3>7. first = e \div total /\ second = f \div total
      BY <2>1, <3>1, <3>3, <3>5 DEF Given
    <3>8. total \in Nat \ {0}
      BY <2>1
    <3> HIDE DEF first, second
    <3> QED
      BY <3>6, <3>7, <3>8, DivMonotonic, DivRemains
  <2>2. CASE ~ (pool.virtualTotalSupply > 0 /\ total # 0)
    BY <2>2 DEF Given
  <2> QED
    BY <2>1, <2>2
<1>3. first # 0 \/ second # 0 => pool.virtualTotalSupply \in Nat \ {0}
  BY <1>1 DEF Given
<1> DEFINE low == IF first = 0 THEN 0
                  ELSE (first * ACC_TRIBE_PRECISION) \div pool.virtualTotalSupply
           high == IF second = 0 THEN 0
                   ELSE (second * ACC_TRIBE_PRECISION) \div pool.virtualTotalSupply
<1>4. /\ Share(pool, now, rate, total) = pool.accTribePerShare + low
      /\ Share(pool, later, rate, total) = pool.accTribePerShare + high
  BY DEF Share
<1> HIDE DEF first, second
<1>5. low \in Nat /\ high \in Nat /\ low <= high
  <2>1. PICK a \in Nat, b \in Nat :
          a = first * ACC_TRIBE_PRECISION /\ b = second * ACC_TRIBE_PRECISION
    BY <1>1, <1>2, ProductType
  <2>2. a <= b
    BY <1>1, <1>2, <2>1, ProductMonotonic
  <2>3. CASE second = 0
    BY <1>2, <2>3
  <2>4. CASE second # 0
    <3>1. /\ a \div pool.virtualTotalSupply \in Nat /\ b \div pool.virtualTotalSupply \in Nat
          /\ a \div pool.virtualTotalSupply <= b \div pool.virtualTotalSupply
      BY <1>3, <2>2, <2>4, DivMonotonic, DivRemains
    <3>2. high = b \div pool.virtualTotalSupply
      BY <2>1, <2>4
    <3>3. low = 0 \/ low = a \div pool.virtualTotalSupply
      BY <2>1
    <3> HIDE DEF low, high
    <3> QED
      BY <3>1, <3>2, <3>3
  <2> QED
    BY <2>3, <2>4
<1> HIDE DEF low, high
<1> QED
  BY <1>1, <1>4, <1>5

(* and an updated pool has been given all of it. *)
LEMMA ShareOfUpdated ==
  ASSUME NEW pool \in Pool, NEW now \in Nat, pool.lastRewardBlock = now,
         NEW rate \in Nat, NEW total \in Nat
  PROVE  Share(pool, now, rate, total) = pool.accTribePerShare
<1>1. pool.allocPoint \in Nat /\ pool.accTribePerShare \in Nat
  BY DEF Pool
<1>2. 0 * rate = 0 /\ 0 * pool.allocPoint = 0 /\ now - now = 0
  BY <1>1
<1>3. (now - pool.lastRewardBlock) * rate * pool.allocPoint = 0
  BY <1>2
<1>4. total # 0 => 0 \div total = 0
  <2>1. ASSUME total # 0 PROVE 0 \div total = 0
    <3>1. total \in Nat \ {0}
      BY <2>1
    <3> QED
      BY <3>1, Z3
  <2> QED
    BY <2>1
<1>5. Given(pool, now, rate, total) = 0
  BY <1>3, <1>4 DEF Given
<1> QED
  BY <1>1, <1>5 DEF Share

(* What the pool numbered pid would be worth per share, were it updated now *)
LEMMA SharesKept ==
  ASSUME ChiefInv, ChiefInv', NEW pid \in Pools, pid \in Pools',
         UNCHANGED <<tribePerBlock, totalAllocPoint>>, block' >= block,
         \/ EarnsAs(poolInfo'[pid], poolInfo[pid])
         \/ /\ poolInfo'[pid].accTribePerShare = UpdatedPool(pid).accTribePerShare
            /\ poolInfo'[pid].lastRewardBlock = block'
  PROVE  /\ UpdatedPool(pid).accTribePerShare \in Nat
         /\ UpdatedPool(pid)'.accTribePerShare \in Nat
         /\ UpdatedPool(pid)'.accTribePerShare >= UpdatedPool(pid).accTribePerShare
<1>1. /\ Types /\ Types' /\ poolInfo[pid] \in Pool /\ totalAllocPoint \in Nat
      /\ tribePerBlock \in Nat /\ poolInfo[pid].lastRewardBlock \in 1 .. block
      /\ UpdatedPool(pid) \in Pool
  BY PoolFacts, PointsType, UpdatedPoolType DEF ChiefInv, Types, UpdatesArePast
<1>2. /\ block \in Nat /\ block' \in Nat /\ poolInfo[pid].lastRewardBlock <= block
      /\ poolInfo'[pid] \in Pool
  <2>1. poolInfo' \in Seq(Pool) /\ pid \in DOMAIN poolInfo'
    BY <1>1 DEF Types, Pools
  <2>2. poolInfo'[pid] \in Pool
    BY <2>1, LenProperties
  <2>3. block \in 1 .. MaxBlock /\ block' \in 1 .. MaxBlock
    BY <1>1 DEF Types
  <2>4. block \in Nat /\ block' \in Nat
    BY <2>3, ChiefAssumption
  <2> QED
    BY <1>1, <2>2, <2>4
<1>3. /\ UpdatedPool(pid).accTribePerShare
           = Share(poolInfo[pid], block, tribePerBlock, totalAllocPoint)
      /\ UpdatedPool(pid)'.accTribePerShare
           = Share(poolInfo'[pid], block', tribePerBlock, totalAllocPoint)
  BY <1>1, ShareIsEarned, ShareIsEarnedAfter DEF SharesAreEarned
<1>4. CASE EarnsAs(poolInfo'[pid], poolInfo[pid])
  <2>1. Share(poolInfo'[pid], block', tribePerBlock, totalAllocPoint)
          = Share(poolInfo[pid], block', tribePerBlock, totalAllocPoint)
    BY <1>4, SameShare
  <2>2. /\ Share(poolInfo[pid], block, tribePerBlock, totalAllocPoint) \in Nat
        /\ Share(poolInfo[pid], block', tribePerBlock, totalAllocPoint) \in Nat
        /\ Share(poolInfo[pid], block, tribePerBlock, totalAllocPoint)
             <= Share(poolInfo[pid], block', tribePerBlock, totalAllocPoint)
    BY <1>1, <1>2, ShareGrows
  <2> QED
    BY <1>3, <2>1, <2>2
<1>5. CASE /\ poolInfo'[pid].accTribePerShare = UpdatedPool(pid).accTribePerShare
           /\ poolInfo'[pid].lastRewardBlock = block'
  <2>1. Share(poolInfo'[pid], block', tribePerBlock, totalAllocPoint)
          = poolInfo'[pid].accTribePerShare
    BY <1>1, <1>2, <1>5, ShareOfUpdated
  <2>2. UpdatedPool(pid).accTribePerShare \in Nat
    BY <1>1 DEF Pool
  <2> QED
    BY <1>3, <1>5, <2>1, <2>2
<1> QED
  BY <1>4, <1>5

----------------------------------------------------------------------------
KeptFor(u, pid) ==
  IF userInfo'[pid][u] = userInfo[pid][u]
  THEN Pending(u, pid)' >= Pending(u, pid)
  ELSE \/ EmergencyWithdraw(u, pid)
       \/ Pending(u, pid)' + paid'[pid] - paid[pid] >= Pending(u, pid) - 1

LEMMA GainGrows ==
  ASSUME NEW info \in Info, NEW low, NEW high, low.accTribePerShare \in Nat,
         high.accTribePerShare \in Nat, high.accTribePerShare >= low.accTribePerShare
  PROVE  /\ Gain(info, low) \in Int /\ Gain(info, high) \in Int
         /\ Gain(info, high) >= Gain(info, low)
<1>1. PICK v \in Nat, d \in Int, a \in Nat, b \in Nat :
        /\ v = info.virtualAmount /\ d = info.rewardDebt
        /\ a = low.accTribePerShare /\ b = high.accTribePerShare
  BY DEF Info
<1>2. PICK x \in Nat, y \in Nat : x = v * a /\ y = v * b
  BY ProductType
<1>3. x <= y
  <2>1. a <= b
    BY <1>1
  <2>2. a * v <= b * v
    BY <2>1, ProductMonotonic
  <2>3. a * v = v * a /\ b * v = v * b
    BY Distributes
  <2> QED
    BY <1>2, <2>2, <2>3
<1>4. ACC_TRIBE_PRECISION \in Nat \ {0}
  BY ChiefAssumption
<1>5. /\ x \div ACC_TRIBE_PRECISION \in Nat /\ y \div ACC_TRIBE_PRECISION \in Nat
      /\ x \div ACC_TRIBE_PRECISION <= y \div ACC_TRIBE_PRECISION
  BY <1>3, <1>4, DivMonotonic, DivRemains
<1>6. /\ Gain(info, low) = x \div ACC_TRIBE_PRECISION - d
      /\ Gain(info, high) = y \div ACC_TRIBE_PRECISION - d
  BY <1>1, <1>2 DEF Gain, SharesOf
<1> QED
  BY <1>5, <1>6

LEMMA PendingAfter ==
  ASSUME NEW u, NEW pid
  PROVE  Pending(u, pid)' = Gain(userInfo'[pid][u], UpdatedPool(pid)')
BY DEF Pending, Gain

(* Who does nothing loses nothing. *)
LEMMA OthersKept ==
  ASSUME ChiefInv, NEW pid \in Pools, NEW u \in User, userInfo'[pid][u] = userInfo[pid][u],
         UpdatedPool(pid).accTribePerShare \in Nat, UpdatedPool(pid)'.accTribePerShare \in Nat,
         UpdatedPool(pid)'.accTribePerShare >= UpdatedPool(pid).accTribePerShare
  PROVE  KeptFor(u, pid)
<1>1. userInfo[pid][u] \in Info
  BY StakeType
<1>2. Gain(userInfo[pid][u], UpdatedPool(pid)') >= Gain(userInfo[pid][u], UpdatedPool(pid))
  BY <1>1, GainGrows
<1> QED
  BY <1>2, PendingIsGain, PendingAfter DEF KeptFor

LEMMA PoolsPayKept ==
  ASSUME ChiefInv, ChiefInv', PoolsPay, UNCHANGED <<tribePerBlock, totalAllocPoint>>,
         NEW pid \in Pools, NEW u \in User
  PROVE  KeptFor(u, pid)
<1>1. /\ pid \in Pools' /\ userInfo'[pid][u] = userInfo[pid][u] /\ block' >= block
      /\ \/ EarnsAs(poolInfo'[pid], poolInfo[pid])
         \/ /\ poolInfo'[pid].accTribePerShare = UpdatedPool(pid).accTribePerShare
            /\ poolInfo'[pid].lastRewardBlock = block'
  BY DEF PoolsPay
<1>2. /\ UpdatedPool(pid).accTribePerShare \in Nat
      /\ UpdatedPool(pid)'.accTribePerShare \in Nat
      /\ UpdatedPool(pid)'.accTribePerShare >= UpdatedPool(pid).accTribePerShare
  BY <1>1, SharesKept
<1> QED
  BY <1>1, <1>2, OthersKept

LEMMA UserPaysKept ==
  ASSUME ChiefInv, ChiefInv', NEW pid \in Pools, NEW u \in User, NEW info \in Info,
         NEW p \in Nat, NEW r, UserPays(u, pid, info, p, r),
         \/ EmergencyWithdraw(u, pid)
         \/ Gain(info, UpdatedPool(pid)) + p >= Gain(userInfo[pid][u], UpdatedPool(pid)) - 1,
         NEW i \in Pools, NEW v \in User
  PROVE  KeptFor(v, i)
<1>1. /\ i \in Pools' /\ UNCHANGED <<tribePerBlock, totalAllocPoint>> /\ block' >= block
      /\ \/ EarnsAs(poolInfo'[i], poolInfo[i])
         \/ /\ poolInfo'[i].accTribePerShare = UpdatedPool(i).accTribePerShare
            /\ poolInfo'[i].lastRewardBlock = block'
  <2>1. block' = block /\ block \in Int
    BY ChiefAssumption DEF UserPays, ChiefInv, Types
  <2>2. i \in Pools' /\ UNCHANGED <<tribePerBlock, totalAllocPoint>>
    BY DEF UserPays, settings
  <2>3. i # pid => EarnsAs(poolInfo'[i], poolInfo[i])
    BY DEF UserPays, EarnsAs
  <2>4. /\ poolInfo'[pid].accTribePerShare = UpdatedPool(pid).accTribePerShare
        /\ poolInfo'[pid].lastRewardBlock = block'
    BY <2>1 DEF UserPays
  <2> QED
    BY <2>1, <2>2, <2>3, <2>4
<1>2. /\ UpdatedPool(i).accTribePerShare \in Nat
      /\ UpdatedPool(i)'.accTribePerShare \in Nat
      /\ UpdatedPool(i)'.accTribePerShare >= UpdatedPool(i).accTribePerShare
  BY <1>1, SharesKept
<1>3. CASE userInfo'[i][v] = userInfo[i][v]
  BY <1>2, <1>3, OthersKept
<1>4. CASE userInfo'[i][v] # userInfo[i][v]
  <2>1. /\ userInfo \in [Pools -> [User -> Info]] /\ paid \in [Pools -> Nat]
    BY DEF ChiefInv, Types
  <2>2. i = pid /\ v = u
    BY <1>4, <2>1 DEF UserPays
  <2>3. userInfo'[pid][u] = info /\ paid'[pid] = paid[pid] + p
    BY <2>1 DEF UserPays
  <2>4. CASE EmergencyWithdraw(u, pid)
    BY <1>4, <2>2, <2>4 DEF KeptFor
  <2>5. CASE Gain(info, UpdatedPool(pid)) + p >= Gain(userInfo[pid][u], UpdatedPool(pid)) - 1
    <3>1. /\ Gain(info, UpdatedPool(pid)) \in Int /\ Gain(info, UpdatedPool(pid)') \in Int
          /\ Gain(info, UpdatedPool(pid)') >= Gain(info, UpdatedPool(pid))
      BY <1>2, <2>2, GainGrows
    <3>2. userInfo[pid][u] \in Info /\ UpdatedPool(pid) \in Pool
      BY StakeType, UpdatedPoolType DEF ChiefInv
    <3>3. Gain(userInfo[pid][u], UpdatedPool(pid)) \in Int
      BY <3>2, LeftIsGain
    <3>4. /\ Pending(u, pid)' = Gain(info, UpdatedPool(pid)')
          /\ Pending(u, pid) = Gain(userInfo[pid][u], UpdatedPool(pid))
      BY <2>3, PendingIsGain, PendingAfter
    <3>5. PICK before \in Int, after \in Int, now \in Int, was \in Nat :
            /\ before = Gain(info, UpdatedPool(pid)) /\ after = Gain(info, UpdatedPool(pid)')
            /\ now = Gain(userInfo[pid][u], UpdatedPool(pid)) /\ was = paid[pid]
      BY <2>1, <3>1, <3>3
    <3>6. after + (was + p) - was >= now - 1
      BY <2>5, <3>1, <3>5
    <3>7. Pending(u, pid)' + paid'[pid] - paid[pid] >= Pending(u, pid) - 1
      BY <2>3, <3>4, <3>5, <3>6
    <3> QED
      BY <1>4, <2>2, <3>7 DEF KeptFor
  <2> QED
    BY <2>4, <2>5
<1> QED
  BY <1>3, <1>4

LEMMA TransactionsKeep ==
  ASSUME ChiefInv, ChiefInv', SomeTransaction, NEW i \in Pools, NEW v \in User
  PROVE  KeptFor(v, i)
<1>1. ASSUME NEW pid \in Pools, NEW u \in User
      PROVE  Gain(userInfo[pid][u], UpdatedPool(pid)) \in Int
  <2>1. userInfo[pid][u] \in Info /\ UpdatedPool(pid) \in Pool
    BY StakeType, UpdatedPoolType DEF ChiefInv
  <2> QED
    BY <2>1, LeftIsGain
<1>2. ASSUME NEW pid \in Pools, NEW u \in User, NEW n \in Amounts, NEW lock \in Locks,
             Deposit(u, pid, n, lock)
      PROVE  KeptFor(v, i)
  <2>1. PICK info \in Info :
          /\ UserPays(u, pid, info, 0, 1)
          /\ Gain(info, UpdatedPool(pid)) >= Gain(userInfo[pid][u], UpdatedPool(pid))
    BY <1>2, DepositPays
  <2>2. Gain(info, UpdatedPool(pid)) \in Int
    BY UpdatedPoolType, LeftIsGain DEF ChiefInv
  <2>3. Gain(info, UpdatedPool(pid)) + 0 >= Gain(userInfo[pid][u], UpdatedPool(pid)) - 1
    BY <1>1, <2>1, <2>2
  <2> QED
    BY <2>1, <2>3, UserPaysKept
<1>3. ASSUME NEW pid \in Pools, NEW u \in User, NEW n \in Amounts,
             NEW k \in DOMAIN depositInfo[pid][u], WithdrawFromDeposit(u, pid, n, k)
      PROVE  KeptFor(v, i)
  <2>1. PICK info \in Info :
          /\ UserPays(u, pid, info, 0, 0)
          /\ Gain(info, UpdatedPool(pid)) >= Gain(userInfo[pid][u], UpdatedPool(pid)) - 1
    BY <1>3, WithdrawFromDepositPays
  <2>2. Gain(info, UpdatedPool(pid)) \in Int
    BY UpdatedPoolType, LeftIsGain DEF ChiefInv
  <2>3. Gain(info, UpdatedPool(pid)) + 0 >= Gain(userInfo[pid][u], UpdatedPool(pid)) - 1
    BY <1>1, <2>1, <2>2
  <2> QED
    BY <2>1, <2>3, UserPaysKept
<1>4. ASSUME NEW pid \in Pools, NEW u \in User, EmergencyWithdraw(u, pid)
      PROVE  KeptFor(v, i)
  <2>1. UserPays(u, pid, NoUserInfo, 0, 0) /\ NoUserInfo \in Info
    BY <1>4, EmergencyWithdrawPays, NothingStaked
  <2> QED
    BY <1>4, <2>1, UserPaysKept
<1>5. ASSUME NEW pid \in Pools, NEW u \in User, NEW info \in Info, NEW r,
             Gain(userInfo[pid][u], UpdatedPool(pid)) \in Nat,
             UserPays(u, pid, info, Gain(userInfo[pid][u], UpdatedPool(pid)), r),
             Gain(info, UpdatedPool(pid)) = 0
      PROVE  KeptFor(v, i)
  <2>1. Gain(info, UpdatedPool(pid)) + Gain(userInfo[pid][u], UpdatedPool(pid))
          >= Gain(userInfo[pid][u], UpdatedPool(pid)) - 1
    BY <1>5
  <2> QED
    BY <1>5, <2>1, UserPaysKept
<1>6. ASSUME NEW pid \in Pools, NEW u \in User, WithdrawAllAndHarvest(u, pid)
      PROVE  KeptFor(v, i)
  BY <1>5, <1>6, WithdrawAllAndHarvestPays
<1>7. ASSUME NEW pid \in Pools, NEW u \in User, Harvest(u, pid)
      PROVE  KeptFor(v, i)
  BY <1>5, <1>7, HarvestPays
<1> QED
  BY <1>2, <1>3, <1>4, <1>6, <1>7 DEF SomeTransaction

LEMMA NextKeepsRewards ==
  ASSUME ChiefInv, ChiefInv', [Next]_vars, UNCHANGED <<tribePerBlock, totalAllocPoint>>,
         NEW pid \in Pools, NEW u \in User
  PROVE  KeptFor(u, pid)
<1>1. CASE PoolsPay
  BY <1>1, PoolsPayKept
<1>2. CASE SomeTransaction
  BY <1>2, TransactionsKeep
<1>3. ~SomeAdd
  <2>1. ASSUME NEW caller, NEW points \in AllocPoints, NEW data, Add(caller, points, data)
        PROVE  FALSE
    <3>1. totalAllocPoint' = totalAllocPoint + points /\ points > 0 /\ points \in Nat
      BY <2>1, ChiefAssumption DEF Add, AddTo
    <3>2. totalAllocPoint \in Int /\ totalAllocPoint' = totalAllocPoint
      BY DEF ChiefInv, Types
    <3> QED
      BY <3>1, <3>2
  <2> QED
    BY <2>1 DEF SomeAdd
<1> QED
  BY <1>1, <1>2, <1>3, AllPoolsPay

(* TribalChief.sol:375-387.  As long as the points and the rate stay, no transaction *)
(* lowers what somebody else has earned, and what its sender has earned it only turns *)
(* into a payment, but for one wei of rounding and for an emergency withdrawal.        *)
THEOREM EarningsAreKept == Spec => RewardsAreKept
<1>1. ChiefInv /\ ChiefInv' /\ [Next]_vars =>
        [UNCHANGED <<tribePerBlock, totalAllocPoint>> =>
           \A pid \in Pools, u \in User :
             IF userInfo'[pid][u] = userInfo[pid][u]
             THEN Pending(u, pid)' >= Pending(u, pid)
             ELSE \/ EmergencyWithdraw(u, pid)
                  \/ Pending(u, pid)' + paid'[pid] - paid[pid] >= Pending(u, pid) - 1]_vars
  BY NextKeepsRewards DEF KeptFor
<1> QED
  BY <1>1, ChiefInvariant, PTL DEF Spec, RewardsAreKept
----------------------------------------------------------------------------
(* Emission, with the helper.  A pool takes its share when it is updated, for  *)
(* the blocks since it was updated last, at the rate and the points of now.    *)
(* So the shares of all pools add up to the rate only if neither was changed   *)
(* in between for some of them.                                                *)

(* What a pool was given, and is due at most, times the points *)
Dues ==
  [pid \in Pools |->
     totalAllocPoint * emitted[pid]
       + (block - poolInfo[pid].lastRewardBlock) * (tribePerBlock * poolInfo[pid].allocPoint)]

(* In these units nothing is rounded, and every block adds the same. *)
RateIsKept ==
  /\ SumFunctionOnSet(emitted, Pools) <= allowed
  /\ SumFunctionOnSet(Dues, Pools) <= totalAllocPoint * allowed

(* What a step does for the rewards of the pools there are, and for a new one. *)
PoolsTake ==
  /\ Pools \subseteq Pools'
  /\ \A i \in Pools :
       \/ /\ poolInfo'[i].allocPoint = poolInfo[i].allocPoint
          /\ poolInfo'[i].lastRewardBlock = poolInfo[i].lastRewardBlock
          /\ emitted'[i] = emitted[i]
       \/ /\ poolInfo'[i].lastRewardBlock = block'
          /\ emitted'[i] = emitted[i] + TribeReward(i)
  /\ \A i \in Pools' \ Pools : emitted'[i] = 0

(* What a call of the helper does: it updates all pools first. *)
HelperTakes ==
  /\ ChiefInv' /\ UNCHANGED block
  /\ Pools \subseteq Pools'
  /\ \A i \in Pools : emitted'[i] = emitted[i] + TribeReward(i)
  /\ \A i \in Pools' \ Pools : emitted'[i] = 0
  /\ \A i \in Pools' : poolInfo'[i].lastRewardBlock = block

LEMMA GivenByPool ==
  ASSUME ChiefInv, NEW i \in Pools
  PROVE  EmittedBy(i)[i] = emitted[i] + TribeReward(i)
BY DEF EmittedBy, ChiefInv, Types

LEMMA AllFoundUpdated ==
  ASSUME ChiefInv
  PROVE  /\ AsFound(AllUpdated, AllGiven)
         /\ \A i \in Pools : /\ AllUpdated[i] = UpdatedPool(i)
                              /\ AllUpdated[i].lastRewardBlock = block
                              /\ AllGiven[i] = emitted[i] + TribeReward(i)
<1>1. /\ Types /\ UpdatesArePast /\ AllocPointsAddUp
      /\ block \in 1 .. block /\ emitted \in [Pools -> Nat]
  BY ChiefAssumption DEF ChiefInv, Types
<1>2. \A i \in Pools :
        /\ UpdatedPool(i) \in Pool /\ UpdatedPool(i).allocPoint = poolInfo[i].allocPoint
        /\ UpdatedPool(i).virtualTotalSupply = poolInfo[i].virtualTotalSupply
        /\ UpdatedPool(i).lastRewardBlock = block
  BY <1>1, UpdatedPoolType
<1>3. \A i \in Pools : emitted[i] + TribeReward(i) \in Nat
  <2>1. ASSUME NEW i \in Pools PROVE emitted[i] \in Nat /\ TribeReward(i) \in Nat
    BY <1>1, RewardType
  <2> QED
    BY <2>1
<1>4. \A i \in Pools : AllUpdated[i] = UpdatedPool(i) /\ AllGiven[i] = emitted[i] + TribeReward(i)
  BY DEF AllUpdated, AllGiven
<1>5. AllUpdated \in [Pools -> Pool] /\ AllGiven \in [Pools -> Nat]
  BY <1>2, <1>3 DEF AllUpdated, AllGiven
<1> QED
  BY <1>1, <1>2, <1>4, <1>5 DEF AsFound

(* The helper changes the rate, *)
LEMMA RateCallTakes ==
  ASSUME ChiefInv, NEW caller, NEW r \in Nat,
         UpdateBlockRewardOf(AllUpdated, AllGiven, caller, r)
  PROVE  HelperTakes
<1>1. /\ Types /\ AsFound(AllUpdated, AllGiven)
      /\ \A i \in Pools : /\ AllUpdated[i].lastRewardBlock = block
                           /\ AllGiven[i] = emitted[i] + TribeReward(i)
  BY AllFoundUpdated DEF ChiefInv
<1>2. /\ tribePerBlock' = r /\ poolInfo' = AllUpdated /\ emitted' = AllGiven
      /\ UNCHANGED <<block, totalAllocPoint, rewardMultipliers, tribe, paused>>
      /\ UNCHANGED <<userInfo, depositInfo, staked, paid, roundings>>
  BY DEF UpdateBlockRewardOf, books
<1>3. Pools' = Pools
  BY <1>1, <1>2 DEF AsFound, Pools
<1>4. /\ poolInfo' \in [Pools -> Pool] /\ emitted' \in [Pools -> Nat]
      /\ \A i \in Pools :
           /\ poolInfo'[i].allocPoint = poolInfo[i].allocPoint
           /\ poolInfo'[i].virtualTotalSupply = poolInfo[i].virtualTotalSupply
           /\ poolInfo'[i].lastRewardBlock \in 1 .. block'
  BY <1>1, <1>2 DEF AsFound
<1>5. /\ block' \in 1 .. MaxBlock /\ tribePerBlock' \in Nat /\ tribe' \in Nat /\ paused' \in BOOLEAN
      /\ rewardMultipliers' \in [Pools -> [Locks -> Nat]]
  BY <1>1, <1>2 DEF Types
<1>6. ChiefInv'
  BY <1>2, <1>4, <1>5, AdministrationKeeps
<1> QED
  BY <1>1, <1>2, <1>3, <1>6 DEF HelperTakes

(* adds a pool, *)
LEMMA AddCallTakes ==
  ASSUME ChiefInv, NEW caller, NEW points \in AllocPoints, NEW data \in RewardData,
         AddTo(AllUpdated, AllGiven, caller, points, data)
  PROVE  HelperTakes
<1> DEFINE n == Len(poolInfo)
<1>1. /\ AsFound(AllUpdated, AllGiven)
      /\ \A i \in Pools : /\ AllUpdated[i].lastRewardBlock = block
                           /\ AllGiven[i] = emitted[i] + TribeReward(i)
  BY AllFoundUpdated
<1>2. /\ n \in Nat /\ Pools = 1 .. n /\ Pools' = 1 .. n + 1
      /\ \A i \in 1 .. n : poolInfo'[i] = AllUpdated[i] /\ emitted'[i] = AllGiven[i]
      /\ poolInfo'[n + 1].lastRewardBlock = block /\ emitted'[n + 1] = 0
  BY <1>1, AddToTypes
<1>3. ChiefInv'
  BY <1>1, AddToKeeps
<1>4. UNCHANGED block
  BY DEF AddTo
<1> HIDE DEF n
<1>5. \A i \in Pools' : i \in Pools \/ i = n + 1
  BY <1>2
<1>6. Pools \subseteq Pools'
  BY <1>2
<1> QED
  BY <1>1, <1>2, <1>3, <1>4, <1>5, <1>6 DEF HelperTakes

(* or gives one other points. *)
LEMMA RepointingTakes ==
  ASSUME ChiefInv, NEW pid \in Pools, NEW new \in Pool,
         poolInfo' = [AllUpdated EXCEPT ![pid] = new],
         new.virtualTotalSupply = poolInfo[pid].virtualTotalSupply,
         new.lastRewardBlock = block,
         totalAllocPoint' = totalAllocPoint - poolInfo[pid].allocPoint + new.allocPoint,
         emitted' = [AllGiven EXCEPT ![pid] = emitted[pid] + TribeReward(pid)],
         UNCHANGED <<block, tribePerBlock, rewardMultipliers, books, paused>>
  PROVE  HelperTakes
<1>1. /\ Types /\ AllocPointsAddUp /\ poolInfo \in [Pools -> Pool]
      /\ poolInfo[pid].allocPoint \in Nat /\ new.allocPoint \in Nat
      /\ block \in 1 .. MaxBlock /\ block \in 1 .. block
  <2>1. Types /\ AllocPointsAddUp /\ poolInfo \in [Pools -> Pool]
    BY PoolFacts DEF ChiefInv
  <2>2. poolInfo[pid].allocPoint \in Nat /\ new.allocPoint \in Nat
    BY <2>1 DEF Pool
  <2>3. block \in 1 .. MaxBlock /\ block \in 1 .. block
    BY <2>1, ChiefAssumption DEF Types
  <2> QED
    BY <2>1, <2>2, <2>3
<1>2. /\ AllUpdated \in [Pools -> Pool] /\ AllGiven \in [Pools -> Nat]
      /\ \A i \in Pools : /\ AllUpdated[i].allocPoint = poolInfo[i].allocPoint
                           /\ AllUpdated[i].virtualTotalSupply = poolInfo[i].virtualTotalSupply
                           /\ AllUpdated[i].lastRewardBlock = block
                           /\ AllGiven[i] = emitted[i] + TribeReward(i)
  BY AllFoundUpdated DEF AsFound
<1>3. /\ poolInfo' \in [Pools -> Pool]
      /\ poolInfo'[pid] = new /\ \A i \in Pools \ {pid} : poolInfo'[i] = AllUpdated[i]
  BY <1>2
<1>4. emitted' = AllGiven
  BY <1>2
<1>5. AllocPointsAddUp'
  <2>1. \A i \in Pools \ {pid} : poolInfo'[i].allocPoint = poolInfo[i].allocPoint
    BY <1>2, <1>3
  <2> QED
    BY <1>1, <1>3, <2>1, PointsChange
<1>6. \A i \in Pools : /\ poolInfo'[i].virtualTotalSupply = poolInfo[i].virtualTotalSupply
                        /\ poolInfo'[i].lastRewardBlock = block
  BY <1>2, <1>3
<1>7. PoolStep
  <2>1. totalAllocPoint' \in Int
    BY <1>1 DEF Types
  <2>2. /\ tribePerBlock' \in Nat /\ tribe' \in Nat /\ paused' \in BOOLEAN
        /\ rewardMultipliers' \in [Pools -> [Locks -> Nat]]
        /\ UNCHANGED <<userInfo, depositInfo, staked, paid, roundings>>
    BY <1>1 DEF Types, books
  <2> QED
    BY <1>1, <1>2, <1>3, <1>4, <1>6, <2>1, <2>2 DEF PoolStep
<1>8. ChiefInv'
  BY <1>5, <1>7, PoolStepKeeps
<1>9. Pools' = Pools
  BY <1>3 DEF Pools
<1> QED
  BY <1>2, <1>4, <1>6, <1>8, <1>9 DEF HelperTakes

LEMMA SetCallTakes ==
  ASSUME ChiefInv, NEW caller, NEW pid \in Pools, NEW points \in AllocPoints,
         SetIn(AllUpdated, AllGiven, caller, pid, points)
  PROVE  HelperTakes
<1> DEFINE new == [UpdatedPool(pid) EXCEPT !.allocPoint = points]
<1>1. points \in Nat
  BY ChiefAssumption
<1>2. /\ UpdatedPool(pid) \in Pool
      /\ UpdatedPool(pid).virtualTotalSupply = poolInfo[pid].virtualTotalSupply
      /\ UpdatedPool(pid).lastRewardBlock = block
  BY UpdatedPoolType DEF ChiefInv
<1>3. /\ new \in Pool /\ new.virtualTotalSupply = poolInfo[pid].virtualTotalSupply
      /\ new.lastRewardBlock = block /\ new.allocPoint = points
  BY <1>1, <1>2 DEF Pool
<1>4. /\ poolInfo' = [AllUpdated EXCEPT ![pid] = new]
      /\ emitted' = [AllGiven EXCEPT ![pid] = emitted[pid] + TribeReward(pid)]
      /\ totalAllocPoint' = totalAllocPoint - poolInfo[pid].allocPoint + points
      /\ UNCHANGED <<block, tribePerBlock, rewardMultipliers, books, paused>>
  BY DEF SetIn
<1> HIDE DEF new
<1> QED
  BY <1>3, <1>4, RepointingTakes

LEMMA ResetCallTakes ==
  ASSUME ChiefInv, NEW caller, NEW pid \in Pools,
         ResetRewardsIn(AllUpdated, AllGiven, caller, pid)
  PROVE  HelperTakes
<1> DEFINE new == [UpdatedPool(pid) EXCEPT !.allocPoint = 0, !.unlocked = TRUE]
<1>1. /\ UpdatedPool(pid) \in Pool
      /\ UpdatedPool(pid).virtualTotalSupply = poolInfo[pid].virtualTotalSupply
      /\ UpdatedPool(pid).lastRewardBlock = block
  BY UpdatedPoolType DEF ChiefInv
<1>2. /\ new \in Pool /\ new.virtualTotalSupply = poolInfo[pid].virtualTotalSupply
      /\ new.lastRewardBlock = block /\ new.allocPoint = 0
  BY <1>1 DEF Pool
<1>3. totalAllocPoint \in Int /\ poolInfo[pid].allocPoint \in Int
  BY PoolFacts DEF ChiefInv, Types, Pool
<1>4. /\ poolInfo' = [AllUpdated EXCEPT ![pid] = new]
      /\ emitted' = [AllGiven EXCEPT ![pid] = emitted[pid] + TribeReward(pid)]
      /\ totalAllocPoint' = totalAllocPoint - poolInfo[pid].allocPoint + 0
      /\ UNCHANGED <<block, tribePerBlock, rewardMultipliers, books, paused>>
  BY <1>3 DEF ResetRewardsIn
<1> HIDE DEF new
<1> QED
  BY <1>2, <1>4, RepointingTakes

(* The calls of the helper *)
HelperCall ==
  \/ AutoDecreaseRewards
  \/ \E timelock \in Governor \cup Admin \cup Guardian :
       \/ \E r \in Rewards : DecreaseRewards(timelock, r)
       \/ \E points \in AllocPoints, data \in RewardData : AddPool(timelock, points, data)
       \/ \E pid \in Pools :
            \/ \E points \in AllocPoints : SetPool(timelock, pid, points)
            \/ ResetPool(timelock, pid)

LEMMA HelperCallTakes ==
  ASSUME ChiefInv, rewardsArray \in Seq(Nat), HelperCall
  PROVE  HelperTakes /\ rewardsArray' \in Seq(Nat) /\ Synced
<1>1. CASE AutoDecreaseRewards
  <2>1. PICK next, caller : /\ next = rewardsArray[Len(rewardsArray)] /\ rewardsArray # <<>>
                            /\ UpdateBlockRewardOf(AllUpdated, AllGiven, caller, next)
    BY <1>1 DEF AutoDecreaseRewards
  <2>2. Len(rewardsArray) \in Nat \ {0} /\ next \in Nat
    BY <2>1, EmptySeq
  <2>3. HelperTakes
    BY <2>1, <2>2, RateCallTakes
  <2>4. rewardsArray' \in Seq(Nat) /\ Synced
    BY <1>1, <2>2 DEF AutoDecreaseRewards
  <2> QED
    BY <2>3, <2>4
<1>2. ASSUME NEW timelock, NEW r \in Rewards, DecreaseRewards(timelock, r)
      PROVE  HelperTakes /\ rewardsArray' \in Seq(Nat) /\ Synced
  <2>1. r \in Nat
    BY ChiefAssumption
  <2> QED
    BY <1>2, <2>1, RateCallTakes DEF DecreaseRewards
<1>3. ASSUME NEW timelock, NEW points \in AllocPoints, NEW data \in RewardData,
             AddPool(timelock, points, data)
      PROVE  HelperTakes /\ rewardsArray' \in Seq(Nat) /\ Synced
  BY <1>3, AddCallTakes DEF AddPool
<1>4. ASSUME NEW timelock, NEW pid \in Pools, NEW points \in AllocPoints,
             SetPool(timelock, pid, points)
      PROVE  HelperTakes /\ rewardsArray' \in Seq(Nat) /\ Synced
  BY <1>4, SetCallTakes DEF SetPool
<1>5. ASSUME NEW timelock, NEW pid \in Pools, ResetPool(timelock, pid)
      PROVE  HelperTakes /\ rewardsArray' \in Seq(Nat) /\ Synced
  BY <1>5, ResetCallTakes DEF ResetPool
<1> QED
  BY <1>1, <1>2, <1>3, <1>4, <1>5 DEF HelperCall

(* A call of the helper takes like any other. *)
LEMMA HelperIsStep ==
  ASSUME HelperTakes
  PROVE  PoolsTake
BY DEF HelperTakes, PoolsTake

(* A transaction of a user updates one pool. *)
LEMMA TransactionPays ==
  ASSUME ChiefInv, SomeTransaction
  PROVE  \E pid \in Pools, u \in User, info \in Info, p \in Nat, r \in Nat :
           UserPays(u, pid, info, p, r)
<1>1. PICK pid \in Pools, u \in User :
        \/ \E n \in Amounts :
             \/ \E lock \in Locks : Deposit(u, pid, n, lock)
             \/ \E i \in DOMAIN depositInfo[pid][u] : WithdrawFromDeposit(u, pid, n, i)
        \/ WithdrawAllAndHarvest(u, pid)
        \/ Harvest(u, pid)
        \/ EmergencyWithdraw(u, pid)
  BY DEF SomeTransaction
<1>2. CASE \E n \in Amounts : \E lock \in Locks : Deposit(u, pid, n, lock)
  BY <1>2, DepositPays
<1>3. CASE \E n \in Amounts : \E i \in DOMAIN depositInfo[pid][u] : WithdrawFromDeposit(u, pid, n, i)
  BY <1>3, WithdrawFromDepositPays
<1>4. CASE WithdrawAllAndHarvest(u, pid)
  BY <1>4, WithdrawAllAndHarvestPays
<1>5. CASE Harvest(u, pid)
  BY <1>5, HarvestPays
<1>6. CASE EmergencyWithdraw(u, pid)
  BY <1>6, EmergencyWithdrawPays, NothingOwed, ChiefAssumption DEF Info, NoUserInfo
<1> QED
  BY <1>1, <1>2, <1>3, <1>4, <1>5, <1>6

(* Every step of TribalChief but that of the block is of this kind. *)
LEMMA StepsTake ==
  ASSUME ChiefInv, [Next]_vars, UNCHANGED block
  PROVE  PoolsTake /\ (UNCHANGED totalAllocPoint => Pools' = Pools)
<1>1. CASE PoolsPay
  <2>1. Pools' = Pools
    BY <1>1 DEF PoolsPay
  <2>2. ASSUME NEW i \in Pools
        PROVE  \/ /\ poolInfo'[i].allocPoint = poolInfo[i].allocPoint
                  /\ poolInfo'[i].lastRewardBlock = poolInfo[i].lastRewardBlock
                  /\ emitted'[i] = emitted[i]
               \/ /\ poolInfo'[i].lastRewardBlock = block'
                  /\ emitted'[i] = emitted[i] + TribeReward(i)
    BY <1>1, GivenByPool DEF PoolsPay, EarnsAs
  <2> QED
    BY <2>1, <2>2 DEF PoolsTake
<1>2. CASE SomeTransaction
  <2>1. PICK pid \in Pools, u \in User, info \in Info, p \in Nat, r \in Nat :
          UserPays(u, pid, info, p, r)
    BY <1>2, TransactionPays
  <2>2. /\ Pools' = Pools /\ \A i \in Pools \ {pid} : poolInfo'[i] = poolInfo[i]
        /\ poolInfo'[pid].lastRewardBlock = block' /\ emitted' = EmittedBy(pid)
    BY <2>1 DEF UserPays
  <2>3. /\ emitted'[pid] = emitted[pid] + TribeReward(pid)
        /\ \A i \in Pools \ {pid} : emitted'[i] = emitted[i]
    BY <2>2, GivenByPool DEF EmittedBy, ChiefInv, Types
  <2> QED
    BY <2>2, <2>3 DEF PoolsTake
<1>3. CASE SomeAdd
  <2>1. PICK caller \in Governor \cup Admin \cup Guardian, points \in AllocPoints,
             data \in RewardData : Add(caller, points, data)
    BY <1>3 DEF SomeAdd
  <2> DEFINE n == Len(poolInfo)
  <2>2. /\ n \in Nat /\ Pools = 1 .. n /\ Pools' = 1 .. n + 1
        /\ \A i \in 1 .. n : poolInfo'[i] = poolInfo[i] /\ emitted'[i] = emitted[i]
        /\ emitted'[n + 1] = 0
    BY <2>1, AddHistory
  <2>3. totalAllocPoint' # totalAllocPoint
    <3>1. totalAllocPoint' = totalAllocPoint + points /\ points > 0 /\ points \in Nat
      BY <2>1, ChiefAssumption DEF Add, AddTo
    <3>2. totalAllocPoint \in Int
      BY DEF ChiefInv, Types
    <3> QED
      BY <3>1, <3>2
  <2> HIDE DEF n
  <2>4. Pools \subseteq Pools' /\ \A i \in Pools' \ Pools : emitted'[i] = 0
    BY <2>2
  <2>5. \A i \in Pools :
          /\ poolInfo'[i].allocPoint = poolInfo[i].allocPoint
          /\ poolInfo'[i].lastRewardBlock = poolInfo[i].lastRewardBlock
          /\ emitted'[i] = emitted[i]
    BY <2>2
  <2> QED
    BY <2>3, <2>4, <2>5 DEF PoolsTake
<1> QED
  BY <1>1, <1>2, <1>3, AllPoolsPay

(* The numbers of a pool *)
NumbersOK ==
  /\ IsFiniteSet(Pools) /\ totalAllocPoint \in Nat /\ block \in Nat \ {0}
  /\ tribePerBlock \in Nat
  /\ \A i \in Pools : /\ poolInfo[i].allocPoint \in Nat
                      /\ poolInfo[i].lastRewardBlock \in Nat
                      /\ poolInfo[i].lastRewardBlock <= block
                      /\ emitted[i] \in Nat /\ TribeReward(i) \in Nat

LEMMA PoolNumbers ==
  ASSUME ChiefInv
  PROVE  NumbersOK
<1>1. Types /\ UpdatesArePast /\ AllocPointsAddUp
  BY DEF ChiefInv
<1>2. IsFiniteSet(Pools) /\ poolInfo \in [Pools -> Pool]
  BY <1>1, PoolFacts
<1>3. block \in Nat \ {0} /\ tribePerBlock \in Nat
  BY <1>1, ChiefAssumption DEF Types
<1>4. totalAllocPoint \in Nat
  BY <1>1, <1>2, PointsType
<1>5. \A i \in Pools : poolInfo[i].allocPoint \in Nat /\ poolInfo[i].lastRewardBlock \in Nat
  BY <1>2 DEF Pool
<1>6. \A i \in Pools : poolInfo[i].lastRewardBlock <= block
  BY <1>1, <1>3 DEF UpdatesArePast
<1>7. \A i \in Pools : emitted[i] \in Nat /\ TribeReward(i) \in Nat
  BY <1>1, RewardType DEF Types
<1> QED
  BY <1>2, <1>3, <1>4, <1>5, <1>6, <1>7 DEF NumbersOK

LEMMA PoolNumbersAfter == ChiefInv' => NumbersOK'
<1>1. ChiefInv => NumbersOK
  BY PoolNumbers
<1> QED
  BY <1>1, PTL

(* updatePool: what a pool takes, times the points, was due, *)
LEMMA TakenWasDue ==
  ASSUME ChiefInv, NEW i \in Pools
  PROVE  /\ totalAllocPoint * emitted[i] \in Nat
         /\ (block - poolInfo[i].lastRewardBlock) * (tribePerBlock * poolInfo[i].allocPoint) \in Nat
         /\ totalAllocPoint * (emitted[i] + TribeReward(i)) \in Nat
         /\ totalAllocPoint * (emitted[i] + TribeReward(i)) <= Dues[i]
         /\ Dues[i] \in Nat
<1>1. PICK total \in Nat, given \in Nat, since \in Nat, rate \in Nat, points \in Nat,
           reward \in Nat :
        /\ total = totalAllocPoint /\ given = emitted[i]
        /\ since = block - poolInfo[i].lastRewardBlock
        /\ rate = tribePerBlock
        /\ points = poolInfo[i].allocPoint /\ reward = TribeReward(i)
  <2>1. block - poolInfo[i].lastRewardBlock \in Nat
    BY PoolNumbers DEF NumbersOK
  <2> QED
    BY <2>1, PoolNumbers DEF NumbersOK
<1>2. total * given \in Nat /\ rate * points \in Nat
  BY ProductType
<1>3. since * (rate * points) \in Nat
  BY <1>2, ProductType
<1>4. total * (given + reward) = total * given + total * reward /\ total * reward \in Nat
  BY DistributesLeft, ProductType
<1>5. total * reward <= since * (rate * points)
  <2>1. CASE reward = 0
    BY <1>3, <2>1
  <2>2. CASE reward # 0
    <3>1. total # 0 /\ reward = ((since * rate) * points) \div total
      BY <1>1, <2>2 DEF TribeReward
    <3>2. PICK all \in Nat : all = (since * rate) * points
      BY ProductType
    <3>3. reward * total <= all
      BY <3>1, <3>2, DivBounds
    <3>4. reward * total = total * reward
      BY Distributes
    <3>5. (since * rate) * points = since * (rate * points)
      BY Associates
    <3> QED
      BY <3>2, <3>3, <3>4, <3>5
  <2> QED
    BY <2>1, <2>2
<1>6. Dues[i] = total * given + since * (rate * points)
  BY <1>1 DEF Dues
<1>7. total * given + total * reward <= total * given + since * (rate * points)
  <2>1. PICK a \in Nat, b \in Nat, c \in Nat :
          a = total * given /\ b = total * reward /\ c = since * (rate * points)
    BY <1>2, <1>3, <1>4
  <2> QED
    BY <1>5, <2>1
<1>8. Dues[i] \in Nat
  BY <1>2, <1>3, <1>6
<1>9. total * (given + reward) \in Nat
  BY <1>2, <1>4
<1> QED
  BY <1>1, <1>2, <1>3, <1>4, <1>6, <1>7, <1>8, <1>9

(* so all pools together never have more than the rate, updated or not. *)
LEMMA TakenKeepsRate ==
  ASSUME ChiefInv, allowed \in Nat, RateIsKept, NEW f,
         \A i \in Pools : f[i] = emitted[i] \/ f[i] = emitted[i] + TribeReward(i)
  PROVE  SumFunctionOnSet(f, Pools) <= allowed
<1>1. PICK total \in Nat : total = totalAllocPoint
  BY PoolNumbers DEF NumbersOK
<1>2. IsFiniteSet(Pools) /\ \A i \in Pools : f[i] \in Nat
  BY PoolNumbers DEF NumbersOK
<1>3. CASE total = 0
  <2>1. \A i \in Pools : TribeReward(i) = 0
    BY <1>1, <1>3 DEF TribeReward
  <2>2. \A i \in Pools : f[i] = emitted[i]
    BY <2>1, PoolNumbers DEF NumbersOK
  <2>3. SumFunctionOnSet(f, Pools) = SumFunctionOnSet(emitted, Pools)
    BY <1>2, <2>2, SumAgrees
  <2> QED
    BY <2>3 DEF RateIsKept
<1>4. CASE total # 0
  <2> DEFINE g == [i \in Pools |-> total * f[i]]
  <2>1. \A i \in Pools : /\ f[i] \in Int /\ g[i] \in Int /\ g[i] = total * f[i]
                         /\ Dues[i] \in Int /\ g[i] <= Dues[i]
    <3> SUFFICES ASSUME NEW i \in Pools
                 PROVE  /\ f[i] \in Int /\ g[i] \in Int /\ g[i] = total * f[i]
                        /\ Dues[i] \in Int /\ g[i] <= Dues[i]
      OBVIOUS
    <3>1. /\ totalAllocPoint * emitted[i] \in Nat
          /\ (block - poolInfo[i].lastRewardBlock) * (tribePerBlock * poolInfo[i].allocPoint) \in Nat
          /\ totalAllocPoint * (emitted[i] + TribeReward(i)) \in Nat
          /\ totalAllocPoint * (emitted[i] + TribeReward(i)) <= Dues[i]
          /\ Dues[i] \in Nat
      BY TakenWasDue
    <3>2. totalAllocPoint * emitted[i] <= Dues[i]
      BY <3>1 DEF Dues
    <3>3. f[i] \in Int /\ g[i] = totalAllocPoint * f[i] /\ g[i] = total * f[i]
      BY <1>1, <1>2
    <3>4. g[i] \in Nat /\ g[i] <= Dues[i]
      <4>1. CASE f[i] = emitted[i]
        BY <3>1, <3>2, <3>3, <4>1
      <4>2. CASE f[i] = emitted[i] + TribeReward(i)
        BY <3>1, <3>3, <4>2
      <4> QED
        BY <4>1, <4>2
    <3> HIDE DEF g
    <3> QED
      BY <3>1, <3>3, <3>4
  <2> HIDE DEF g
  <2>2. SumFunctionOnSet(g, Pools) = total * SumFunctionOnSet(f, Pools)
    BY <1>2, <2>1, SumScales
  <2>3. SumFunctionOnSet(g, Pools) <= SumFunctionOnSet(Dues, Pools)
    BY <1>2, <2>1, SumKeepsOrder
  <2>4. SumFunctionOnSet(Dues, Pools) <= total * allowed
    BY <1>1 DEF RateIsKept
  <2>5. PICK sum \in Nat : sum = SumFunctionOnSet(f, Pools)
    BY <1>2, SumIsNat
  <2>6. SumFunctionOnSet(Dues, Pools) \in Int /\ total * sum \in Int /\ total * allowed \in Int
    BY <1>2, <2>1, SumIsInt, IntProduct
  <2>7. total * sum <= total * allowed
    BY <2>2, <2>3, <2>4, <2>5, <2>6
  <2>8. total * sum = sum * total /\ total * allowed = allowed * total
    BY Distributes
  <2>9. sum <= allowed
    BY <1>4, <2>7, <2>8, ProductCancels
  <2> QED
    BY <2>5, <2>9
<1> QED
  BY <1>3, <1>4

(* A block adds the rate to what the pools are due. *)
LEMMA BlocksKeepRate ==
  ASSUME ChiefInv, allowed \in Nat, RateIsKept, SyncedBlock
  PROVE  RateIsKept'
<1> DEFINE new == [i \in Pools |-> tribePerBlock * poolInfo[i].allocPoint]
           points == [i \in Pools |-> poolInfo[i].allocPoint]
<1>1. /\ UNCHANGED <<poolInfo, totalAllocPoint, tribePerBlock, emitted>>
      /\ block' = block + 1 /\ Pools' = Pools /\ allowed' = allowed + tribePerBlock
  BY DEF SyncedBlock, AdvanceBlock, settings, Pools
<1>2. PICK total \in Nat, rate \in Nat : total = totalAllocPoint /\ rate = tribePerBlock
  BY PoolNumbers DEF NumbersOK
<1>3. IsFiniteSet(Pools) /\ \A i \in Pools : points[i] \in Nat
  BY PoolNumbers DEF NumbersOK
<1>4. \A i \in Pools : /\ Dues[i] \in Int /\ new[i] \in Int /\ Dues'[i] \in Int
                       /\ Dues'[i] = Dues[i] + new[i]
  <2> SUFFICES ASSUME NEW i \in Pools
               PROVE  /\ Dues[i] \in Int /\ new[i] \in Int /\ Dues'[i] \in Int
                      /\ Dues'[i] = Dues[i] + new[i]
    OBVIOUS
  <2>1. PICK since \in Nat, share \in Nat, given \in Nat :
          /\ since = block - poolInfo[i].lastRewardBlock
          /\ share = tribePerBlock * poolInfo[i].allocPoint
          /\ given = totalAllocPoint * emitted[i]
    <3>1. block - poolInfo[i].lastRewardBlock \in Nat
      BY PoolNumbers DEF NumbersOK
    <3>2. tribePerBlock * poolInfo[i].allocPoint \in Nat /\ totalAllocPoint * emitted[i] \in Nat
      BY PoolNumbers, ProductType DEF NumbersOK
    <3> QED
      BY <3>1, <3>2
  <2>2. Dues[i] = given + since * share /\ new[i] = share
    BY <2>1 DEF Dues
  <2>3. Dues'[i] = given + (since + 1) * share
    <3>1. block' - poolInfo'[i].lastRewardBlock = since + 1
      <4>1. block \in Nat /\ poolInfo[i].lastRewardBlock \in Nat
        BY PoolNumbers DEF NumbersOK
      <4> QED
        BY <1>1, <2>1, <4>1
    <3>2. Dues'[i] = totalAllocPoint' * emitted'[i]
                       + (block' - poolInfo'[i].lastRewardBlock)
                           * (tribePerBlock' * poolInfo'[i].allocPoint)
      BY <1>1 DEF Dues
    <3> QED
      BY <1>1, <2>1, <3>1, <3>2
  <2>4. (since + 1) * share = since * share + share /\ since * share \in Nat
    BY Distributes, ProductType
  <2> HIDE DEF new
  <2> QED
    BY <2>2, <2>3, <2>4
<1>5. SumFunctionOnSet(new, Pools) = rate * total
  <2>1. rate \in Int /\ \A i \in Pools : /\ points[i] \in Int /\ new[i] \in Int
                                         /\ new[i] = rate * points[i]
    BY <1>2, <1>3, <1>4
  <2>2. total = SumFunctionOnSet(points, Pools)
    BY <1>2 DEF ChiefInv, AllocPointsAddUp, SumOver, SumFunction, Pools
  <2> HIDE DEF new, points
  <2> QED
    BY <1>3, <2>1, <2>2, SumScales
<1> HIDE DEF new, points
<1>6. SumFunctionOnSet(Dues', Pools) = SumFunctionOnSet(Dues, Pools) + SumFunctionOnSet(new, Pools)
  BY <1>3, <1>4, SumOfPairs
<1>7. /\ total * (allowed + rate) = total * allowed + total * rate
      /\ total * rate = rate * total /\ total * allowed \in Nat /\ rate * total \in Nat
  BY Distributes, DistributesLeft, ProductType
<1>8. SumFunctionOnSet(emitted, Pools) \in Int /\ SumFunctionOnSet(Dues, Pools) \in Int
  <2>1. \A i \in Pools : emitted[i] \in Int /\ Dues[i] \in Int
    BY <1>4, PoolNumbers DEF NumbersOK
  <2> QED
    BY <1>3, <2>1, SumIsInt
<1>9. SumFunctionOnSet(emitted', Pools) <= allowed'
  <2>1. SumFunctionOnSet(emitted, Pools) <= allowed
    BY DEF RateIsKept
  <2> QED
    BY <1>1, <1>2, <1>8, <2>1
<1>10. SumFunctionOnSet(Dues', Pools) <= total * (allowed + rate)
  <2>1. SumFunctionOnSet(Dues', Pools) = SumFunctionOnSet(Dues, Pools) + rate * total
    BY <1>5, <1>6
  <2>2. SumFunctionOnSet(Dues, Pools) <= total * allowed
    BY <1>2 DEF RateIsKept
  <2> QED
    BY <1>7, <1>8, <2>1, <2>2
<1> QED
  BY <1>1, <1>2, <1>9, <1>10 DEF RateIsKept

(* What the pools were given, with a new one that was given nothing, stays in the rate. *)
LEMMA GivenStaysInRate ==
  ASSUME ChiefInv, ChiefInv', allowed \in Nat, RateIsKept, PoolsTake
  PROVE  SumFunctionOnSet(emitted', Pools') <= allowed
<1> DEFINE new == Pools' \ Pools
<1>1. /\ Pools \subseteq Pools' /\ IsFiniteSet(Pools') /\ IsFiniteSet(Pools)
      /\ \A i \in Pools' : emitted'[i] \in Nat
      /\ \A i \in new : emitted'[i] = 0
      /\ \A i \in Pools : emitted'[i] = emitted[i] \/ emitted'[i] = emitted[i] + TribeReward(i)
  BY PoolNumbers, PoolNumbersAfter DEF PoolsTake, NumbersOK
<1>2. IsFiniteSet(new) /\ Pools \cap new = {} /\ Pools \cup new = Pools'
  BY <1>1, FS_Difference
<1>3. \A i \in Pools \cup new : emitted'[i] \in Int
  BY <1>1, <1>2
<1> HIDE DEF new
<1>4. SumFunctionOnSet(emitted', Pools \cup new)
        = SumFunctionOnSet(emitted', Pools) + SumFunctionOnSet(emitted', new)
  BY <1>1, <1>2, <1>3, SumOfUnion
<1>5. SumFunctionOnSet(emitted', new) = 0
  BY <1>1, <1>2, SumOfZeros
<1>6. SumFunctionOnSet(emitted', Pools) <= allowed
  BY <1>1, TakenKeepsRate
<1>7. SumFunctionOnSet(emitted', Pools) \in Int
  BY <1>1, SumIsInt
<1>8. SumFunctionOnSet(emitted', Pools') = SumFunctionOnSet(emitted', Pools)
  <2>1. SumFunctionOnSet(emitted', Pools') = SumFunctionOnSet(emitted', Pools) + 0
    BY <1>2, <1>4, <1>5
  <2> QED
    BY <1>7, <2>1
<1> QED
  BY <1>6, <1>8

(* What the pools are due, if the points stay *)
LEMMA DuesStayInRate ==
  ASSUME ChiefInv, ChiefInv', allowed \in Nat, RateIsKept, PoolsTake, Pools' = Pools,
         UNCHANGED <<block, tribePerBlock, totalAllocPoint, allowed>>
  PROVE  SumFunctionOnSet(Dues', Pools') <= totalAllocPoint' * allowed'
<1>1. Pools' = Pools /\ IsFiniteSet(Pools)
  BY PoolNumbers DEF NumbersOK, PoolsTake
<1>2. \A i \in Pools : Dues'[i] \in Int /\ Dues[i] \in Int /\ Dues'[i] <= Dues[i]
  <2> SUFFICES ASSUME NEW i \in Pools
               PROVE  Dues'[i] \in Int /\ Dues[i] \in Int /\ Dues'[i] <= Dues[i]
    OBVIOUS
  <2>1. Dues'[i] = totalAllocPoint' * emitted'[i]
                     + (block' - poolInfo'[i].lastRewardBlock)
                         * (tribePerBlock' * poolInfo'[i].allocPoint)
    BY <1>1 DEF Dues
  <2>2. Dues[i] \in Nat
    BY TakenWasDue
  <2>3. CASE /\ poolInfo'[i].allocPoint = poolInfo[i].allocPoint
             /\ poolInfo'[i].lastRewardBlock = poolInfo[i].lastRewardBlock
             /\ emitted'[i] = emitted[i]
    <3>1. Dues'[i] = Dues[i]
      BY <2>1, <2>3 DEF Dues
    <3> QED
      BY <2>2, <3>1
  <2>4. CASE /\ poolInfo'[i].lastRewardBlock = block'
             /\ emitted'[i] = emitted[i] + TribeReward(i)
    <3>1. PICK share \in Nat : share = tribePerBlock' * poolInfo'[i].allocPoint
      BY <1>1, PoolNumbers, PoolNumbersAfter, ProductType DEF NumbersOK
    <3>2. block' - poolInfo'[i].lastRewardBlock = 0 /\ 0 * share = 0
      BY <2>4, PoolNumbers DEF NumbersOK
    <3>3. /\ totalAllocPoint * (emitted[i] + TribeReward(i)) \in Nat
          /\ totalAllocPoint * (emitted[i] + TribeReward(i)) <= Dues[i]
      BY TakenWasDue
    <3>4. Dues'[i] = totalAllocPoint * (emitted[i] + TribeReward(i))
      BY <2>1, <2>4, <3>1, <3>2, <3>3
    <3> QED
      BY <2>2, <3>3, <3>4
  <2> QED
    BY <2>3, <2>4 DEF PoolsTake
<1>3. SumFunctionOnSet(Dues', Pools) <= SumFunctionOnSet(Dues, Pools)
  BY <1>1, <1>2, SumKeepsOrder
<1>4. SumFunctionOnSet(Dues', Pools) \in Int /\ SumFunctionOnSet(Dues, Pools) \in Int
  BY <1>1, <1>2, SumIsInt
<1>5. PICK limit \in Nat : limit = totalAllocPoint * allowed
  BY PoolNumbers, ProductType DEF NumbersOK
<1>6. SumFunctionOnSet(Dues, Pools) <= limit
  BY <1>5 DEF RateIsKept
<1>7. SumFunctionOnSet(Dues', Pools) <= limit
  BY <1>3, <1>4, <1>6
<1> QED
  BY <1>1, <1>5, <1>7

(* If they do not, nothing but what they were given: all of them are updated. *)
LEMMA UpdatedStayInRate ==
  ASSUME ChiefInv, ChiefInv', allowed \in Nat, RateIsKept, PoolsTake,
         UNCHANGED <<block, allowed>>,
         \A i \in Pools' : poolInfo'[i].lastRewardBlock = block
  PROVE  SumFunctionOnSet(Dues', Pools') <= totalAllocPoint' * allowed'
<1>1. PICK total \in Nat, limit \in Nat :
        total = totalAllocPoint' /\ limit = allowed'
  BY PoolNumbers, PoolNumbersAfter DEF NumbersOK
<1>2. IsFiniteSet(Pools') /\ \A i \in Pools' : emitted'[i] \in Nat
  BY PoolNumbersAfter DEF NumbersOK
<1>3. \A i \in Pools' : /\ emitted'[i] \in Int /\ Dues'[i] \in Int
                        /\ Dues'[i] = total * emitted'[i]
  <2> SUFFICES ASSUME NEW i \in Pools'
               PROVE  /\ emitted'[i] \in Int /\ Dues'[i] \in Int
                      /\ Dues'[i] = total * emitted'[i]
    OBVIOUS
  <2>1. Dues'[i] = totalAllocPoint' * emitted'[i]
                     + (block' - poolInfo'[i].lastRewardBlock)
                         * (tribePerBlock' * poolInfo'[i].allocPoint)
    BY DEF Dues
  <2>2. PICK share \in Nat : share = tribePerBlock' * poolInfo'[i].allocPoint
    BY PoolNumbers, PoolNumbersAfter, ProductType DEF NumbersOK
  <2>3. block' - poolInfo'[i].lastRewardBlock = 0 /\ 0 * share = 0
    BY PoolNumbers DEF NumbersOK
  <2>4. PICK given \in Nat : given = total * emitted'[i]
    BY <1>2, ProductType
  <2>5. Dues'[i] = given
    BY <1>1, <2>1, <2>2, <2>3, <2>4
  <2> QED
    BY <1>2, <2>4, <2>5
<1>4. SumFunctionOnSet(Dues', Pools') = total * SumFunctionOnSet(emitted', Pools')
  BY <1>2, <1>3, SumScales
<1>5. PICK sum \in Nat : sum = SumFunctionOnSet(emitted', Pools')
  BY <1>2, SumIsNat
<1>6. sum <= limit
  BY <1>1, <1>5, GivenStaysInRate
<1>7. sum * total <= limit * total /\ sum * total = total * sum /\ limit * total = total * limit
  BY <1>6, ProductMonotonic, Distributes
<1> QED
  BY <1>1, <1>4, <1>5, <1>7

----------------------------------------------------------------------------
(* The distributor.  Its speed is not ahead of what its pool earns in a block, *)
(* since it is derived again after every change.                               *)
SpeedIsEarned ==
  IF tribalChiefRewardIndex \in Pools
  THEN /\ compSpeed <= DerivedSpeed
       /\ promised <= emitted[tribalChiefRewardIndex] + TribeReward(tribalChiefRewardIndex)
  ELSE compSpeed = 0 /\ promised = 0

SyncTypes ==
  /\ rewardsArray \in Seq(Nat)
  /\ compSpeed \in Nat /\ allowed \in Nat /\ promised \in Nat
  /\ outdated \in BOOLEAN /\ direct \in BOOLEAN

SyncInv ==
  /\ ChiefInv /\ SyncTypes
  /\ ~outdated => RateIsKept
  /\ ~direct => SpeedIsEarned

SpeedIsNat == tribalChiefRewardIndex \in Pools => DerivedSpeed \in Nat

LEMMA SpeedType ==
  ASSUME ChiefInv
  PROVE  SpeedIsNat
<1> SUFFICES ASSUME tribalChiefRewardIndex \in Pools PROVE DerivedSpeed \in Nat
  BY DEF SpeedIsNat
<1>1. PICK total \in Nat, rate \in Nat, points \in Nat :
        /\ total = totalAllocPoint /\ rate = tribePerBlock
        /\ points = poolInfo[tribalChiefRewardIndex].allocPoint
  BY PoolNumbers DEF NumbersOK
<1>2. PICK share \in Nat : share = rate * points
  BY ProductType
<1>3. total # 0 => share \div total \in Nat
  BY DivBounds
<1> QED
  BY <1>1, <1>2, <1>3 DEF DerivedSpeed

LEMMA SpeedTypeAfter == ChiefInv' => SpeedIsNat'
<1>1. ChiefInv => SpeedIsNat
  BY SpeedType
<1> QED
  BY <1>1, PTL

(* Nobody has points taken from a pool while their total stays. *)
LEMMA PointsStay ==
  ASSUME ChiefInv, [Next]_vars, UNCHANGED <<block, totalAllocPoint>>
  PROVE  \A i \in Pools : poolInfo'[i].allocPoint = poolInfo[i].allocPoint
<1>1. /\ poolInfo \in [Pools -> Pool] /\ totalAllocPoint \in Int
      /\ \A i \in Pools : poolInfo[i].allocPoint \in Nat
      /\ \A i \in Pools : UpdatedPool(i) \in Pool
                           /\ UpdatedPool(i).allocPoint = poolInfo[i].allocPoint
  <2>1. Types /\ UpdatesArePast /\ AllocPointsAddUp /\ poolInfo \in [Pools -> Pool]
    BY PoolFacts DEF ChiefInv
  <2>2. totalAllocPoint \in Int /\ \A i \in Pools : poolInfo[i].allocPoint \in Nat
    BY <2>1 DEF Types, Pool
  <2> QED
    BY <2>1, <2>2, UpdatedPoolType
<1>2. CASE UNCHANGED poolInfo
  BY <1>2
<1>3. ASSUME NEW pid \in Pools, NEW new, poolInfo' = [poolInfo EXCEPT ![pid] = new],
             new.allocPoint = poolInfo[pid].allocPoint
      PROVE  \A i \in Pools : poolInfo'[i].allocPoint = poolInfo[i].allocPoint
  BY <1>1, <1>3
<1>4. ASSUME NEW pid \in Pools, NEW supply,
             poolInfo' = [poolInfo EXCEPT
               ![pid] = [UpdatedPool(pid) EXCEPT !.virtualTotalSupply = supply]]
      PROVE  \A i \in Pools : poolInfo'[i].allocPoint = poolInfo[i].allocPoint
  <2> DEFINE new == [UpdatedPool(pid) EXCEPT !.virtualTotalSupply = supply]
  <2>1. new.allocPoint = poolInfo[pid].allocPoint
    BY <1>1 DEF Pool
  <2> HIDE DEF new
  <2> QED
    BY <1>3, <1>4, <2>1 DEF new
<1>5. CASE UNCHANGED vars \/ AdvanceBlock
  BY <1>2, <1>5 DEF AdvanceBlock, vars
<1>6. ASSUME NEW caller,
             \/ \E r \in Rewards : UpdateBlockReward(caller, r)
             \/ \E n \in TribeAmounts : GovernorWithdrawTribe(caller, n)
             \/ Pause(caller)
      PROVE  UNCHANGED poolInfo
  BY <1>6 DEF UpdateBlockReward, UpdateBlockRewardOf, GovernorWithdrawTribe, Pause
<1>7. ASSUME NEW caller, NEW points \in AllocPoints, NEW data \in RewardData,
             Add(caller, points, data)
      PROVE  FALSE
  <2>1. totalAllocPoint' = totalAllocPoint + points /\ points > 0 /\ points \in Nat
    BY <1>7, ChiefAssumption DEF Add, AddTo
  <2> QED
    BY <1>1, <2>1
<1>8. ASSUME NEW caller, NEW pid \in Pools,
             \/ \E unlocked \in BOOLEAN : LockPool(caller, pid, unlocked)
             \/ \E lock \in Locks, m \in Multipliers :
                  GovernorAddPoolMultiplier(caller, pid, lock, m)
      PROVE  \A i \in Pools : poolInfo'[i].allocPoint = poolInfo[i].allocPoint
  <2>1. PICK unlocked : poolInfo' = [poolInfo EXCEPT ![pid].unlocked = unlocked]
    BY <1>8 DEF LockPool, GovernorAddPoolMultiplier
  <2> QED
    BY <1>1, <2>1 DEF Pool
<1>9. ASSUME NEW caller, NEW pid \in Pools, NEW points \in AllocPoints, Set(caller, pid, points)
      PROVE  \A i \in Pools : poolInfo'[i].allocPoint = poolInfo[i].allocPoint
  <2> DEFINE new == [UpdatedPool(pid) EXCEPT !.allocPoint = points]
  <2>1. /\ totalAllocPoint' = (totalAllocPoint - poolInfo[pid].allocPoint) + points
        /\ poolInfo' = [poolInfo EXCEPT ![pid] = new]
    BY <1>9 DEF Set, SetIn
  <2>2. points \in Nat
    BY ChiefAssumption
  <2>3. points = poolInfo[pid].allocPoint
    BY <1>1, <2>1, <2>2
  <2>4. new.allocPoint = points
    BY <1>1 DEF Pool
  <2> HIDE DEF new
  <2> QED
    BY <1>3, <2>1, <2>3, <2>4
<1>10. ASSUME NEW caller, NEW pid \in Pools, ResetRewards(caller, pid)
       PROVE  \A i \in Pools : poolInfo'[i].allocPoint = poolInfo[i].allocPoint
  <2> DEFINE new == [UpdatedPool(pid) EXCEPT !.allocPoint = 0, !.unlocked = TRUE]
  <2>1. /\ totalAllocPoint' = totalAllocPoint - poolInfo[pid].allocPoint
        /\ poolInfo' = [poolInfo EXCEPT ![pid] = new]
    BY <1>10 DEF ResetRewards, ResetRewardsIn
  <2>2. 0 = poolInfo[pid].allocPoint
    BY <1>1, <2>1
  <2>3. new.allocPoint = 0
    BY <1>1 DEF Pool
  <2> HIDE DEF new
  <2> QED
    BY <1>3, <2>1, <2>2, <2>3
<1>11. ASSUME NEW pids \in SUBSET Pools, MassUpdatePools(pids)
       PROVE  \A i \in Pools : poolInfo'[i].allocPoint = poolInfo[i].allocPoint
  BY <1>1, <1>11 DEF MassUpdatePools
<1>12. ASSUME NEW pid \in Pools, UpdatePool(pid)
       PROVE  \A i \in Pools : poolInfo'[i].allocPoint = poolInfo[i].allocPoint
  BY <1>1, <1>12 DEF UpdatePool
<1>13. ASSUME NEW pid \in Pools, NEW u \in User,
              \/ \E n \in Amounts :
                   \/ \E lock \in Locks : Deposit(u, pid, n, lock)
                   \/ \E i \in DOMAIN depositInfo[pid][u] : WithdrawFromDeposit(u, pid, n, i)
              \/ WithdrawAllAndHarvest(u, pid)
              \/ EmergencyWithdraw(u, pid)
       PROVE  \E supply : poolInfo' = [poolInfo EXCEPT
                ![pid] = [UpdatedPool(pid) EXCEPT !.virtualTotalSupply = supply]]
  <2>1. ASSUME NEW n, NEW lock, Deposit(u, pid, n, lock)
        PROVE  \E supply : poolInfo' = [poolInfo EXCEPT
                 ![pid] = [UpdatedPool(pid) EXCEPT !.virtualTotalSupply = supply]]
    BY <2>1 DEF Deposit, DepositInto
  <2>2. ASSUME NEW n, NEW i, WithdrawFromDeposit(u, pid, n, i)
        PROVE  \E supply : poolInfo' = [poolInfo EXCEPT
                 ![pid] = [UpdatedPool(pid) EXCEPT !.virtualTotalSupply = supply]]
    BY <2>2 DEF WithdrawFromDeposit
  <2>3. ASSUME WithdrawAllAndHarvest(u, pid)
        PROVE  \E supply : poolInfo' = [poolInfo EXCEPT
                 ![pid] = [UpdatedPool(pid) EXCEPT !.virtualTotalSupply = supply]]
    BY <2>3 DEF WithdrawAllAndHarvest
  <2>4. ASSUME EmergencyWithdraw(u, pid)
        PROVE  \E supply : poolInfo' = [poolInfo EXCEPT
                 ![pid] = [UpdatedPool(pid) EXCEPT !.virtualTotalSupply = supply]]
    BY <2>4 DEF EmergencyWithdraw, TakeAll
  <2> QED
    BY <1>13, <2>1, <2>2, <2>3, <2>4
<1>14. ASSUME NEW pid \in Pools, NEW u \in User, Harvest(u, pid)
       PROVE  \A i \in Pools : poolInfo'[i].allocPoint = poolInfo[i].allocPoint
  BY <1>1, <1>14 DEF Harvest
<1> QED
  BY <1>2, <1>4, <1>5, <1>6, <1>7, <1>8, <1>9, <1>10, <1>11, <1>12, <1>13, <1>14 DEF Next

(* While rate and points stay, no pool loses what it was given or is due. *)
LEMMA DueStays ==
  ASSUME ChiefInv, ChiefInv', [Next]_vars, UNCHANGED <<block, tribePerBlock, totalAllocPoint>>,
         NEW i \in Pools
  PROVE  emitted'[i] + TribeReward(i)' >= emitted[i] + TribeReward(i)
<1>1. Pools' = Pools /\ i \in Pools'
  BY StepsTake
<1>2. /\ emitted[i] \in Nat /\ TribeReward(i) \in Nat
      /\ emitted'[i] \in Nat /\ TribeReward(i)' \in Nat
  <2>1. NumbersOK /\ NumbersOK'
    BY PoolNumbers, PoolNumbersAfter
  <2> QED
    BY <1>1, <2>1 DEF NumbersOK
<1>3. CASE EarnsAs(poolInfo'[i], poolInfo[i]) /\ emitted'[i] = emitted[i]
  <2>1. TribeReward(i)' = TribeReward(i)
    BY <1>3 DEF TribeReward, EarnsAs
  <2> QED
    BY <1>2, <1>3, <2>1
<1>4. CASE emitted'[i] = EmittedBy(i)[i]
  BY <1>2, <1>4, GivenByPool
<1>5. CASE PoolsPay
  BY <1>3, <1>4, <1>5 DEF PoolsPay
<1>6. CASE SomeTransaction
  <2>1. PICK pid \in Pools, u \in User, info \in Info, p \in Nat, r \in Nat :
          UserPays(u, pid, info, p, r)
    BY <1>6, TransactionPays
  <2>2. CASE i = pid
    <3>1. emitted'[i] = EmittedBy(i)[i]
      BY <2>1, <2>2 DEF UserPays
    <3> QED
      BY <1>4, <3>1
  <2>3. CASE i # pid
    <3>1. poolInfo'[i] = poolInfo[i] /\ emitted' = EmittedBy(pid)
      BY <2>1, <2>3 DEF UserPays
    <3>2. EarnsAs(poolInfo'[i], poolInfo[i]) /\ emitted'[i] = emitted[i]
      BY <2>3, <3>1 DEF EarnsAs, EmittedBy, ChiefInv, Types
    <3> QED
      BY <1>3, <3>2
  <2> QED
    BY <2>2, <2>3
<1>7. CASE SomeAdd
  <2>1. PICK points \in AllocPoints : totalAllocPoint' = totalAllocPoint + points /\ points > 0
    BY <1>7 DEF SomeAdd, Add, AddTo
  <2>2. points \in Nat /\ totalAllocPoint \in Int
    BY ChiefAssumption DEF ChiefInv, Types
  <2> QED
    BY <2>1, <2>2
<1> QED
  BY <1>5, <1>6, <1>7, AllPoolsPay

(* The quotient of a sum is not less than the sum of the quotients. *)
LEMMA PartsLose ==
  ASSUME NEW a \in Nat, NEW b \in Nat, NEW c \in Nat \ {0}
  PROVE  (a \div c) + (b \div c) <= (a + b) \div c
BY Z3

(* A block adds at least the speed to what the pool is due. *)
LEMMA BlocksAreEarned ==
  ASSUME ChiefInv, ChiefInv', SyncTypes, SpeedIsEarned, SyncedBlock
  PROVE  SpeedIsEarned'
<1> DEFINE index == tribalChiefRewardIndex
<1>1. /\ UNCHANGED <<poolInfo, totalAllocPoint, tribePerBlock, emitted, compSpeed>>
      /\ block' = block + 1 /\ Pools' = Pools
      /\ promised' = promised + IF index \in Pools /\ poolInfo[index].virtualTotalSupply > 0
                                THEN compSpeed ELSE 0
  BY DEF SyncedBlock, AdvanceBlock, settings, syncVars, Pools
<1>2. CASE index \notin Pools
  <2>1. compSpeed' = 0 /\ promised' = 0
    BY <1>1, <1>2 DEF SpeedIsEarned
  <2> QED
    BY <1>1, <1>2, <2>1 DEF SpeedIsEarned
<1>3. CASE index \in Pools
  <2>1. DerivedSpeed' = DerivedSpeed
    BY <1>1 DEF DerivedSpeed
  <2>2. PICK given \in Nat, reward \in Nat, more \in Nat, speed \in Nat, was \in Nat :
          /\ given = emitted[index] /\ reward = TribeReward(index)
          /\ more = TribeReward(index)' /\ speed = compSpeed /\ was = promised
    <3>1. NumbersOK /\ NumbersOK'
      BY PoolNumbers, PoolNumbersAfter
    <3>2. TribeReward(index)' \in Nat
      BY <1>1, <1>3, <3>1 DEF NumbersOK
    <3> QED
      BY <1>3, <3>1, <3>2 DEF NumbersOK, SyncTypes
  <2>3. speed <= DerivedSpeed /\ was <= given + reward
    BY <1>3, <2>2 DEF SpeedIsEarned
  <2>4. CASE ~(poolInfo[index].virtualTotalSupply > 0)
    <3>1. reward = 0 /\ promised' = was
      BY <1>1, <1>3, <2>2, <2>4 DEF TribeReward
    <3>2. promised' <= given + more
      BY <2>2, <2>3, <3>1
    <3> QED
      BY <1>1, <1>3, <2>1, <2>2, <2>3, <3>2 DEF SpeedIsEarned
  <2>5. CASE poolInfo[index].virtualTotalSupply > 0
    <3>1. promised' = was + speed
      BY <1>1, <1>3, <2>2, <2>5
    <3>2. reward + speed <= more
      <4>1. CASE totalAllocPoint = 0
        <5>1. reward = 0 /\ DerivedSpeed = 0
          BY <2>2, <4>1 DEF TribeReward, DerivedSpeed
        <5> QED
          BY <2>2, <2>3, <5>1
      <4>2. CASE totalAllocPoint # 0
        <5>1. PICK total \in Nat \ {0}, rate \in Nat, points \in Nat, since \in Nat :
                /\ total = totalAllocPoint /\ rate = tribePerBlock
                /\ points = poolInfo[index].allocPoint
                /\ since = block - poolInfo[index].lastRewardBlock
                /\ since + 1 = block' - poolInfo'[index].lastRewardBlock
          <6>1. NumbersOK
            BY PoolNumbers
          <6>2. /\ block \in Nat /\ poolInfo[index].lastRewardBlock \in Nat
                /\ poolInfo[index].lastRewardBlock <= block
            BY <1>3, <6>1 DEF NumbersOK
          <6> DEFINE since == block - poolInfo[index].lastRewardBlock
          <6>3. since \in Nat /\ since + 1 = block' - poolInfo'[index].lastRewardBlock
            BY <1>1, <6>2
          <6> QED
            BY <1>3, <4>2, <6>1, <6>3 DEF NumbersOK
        <5>2. /\ reward = ((since * rate) * points) \div total
              /\ more = (((since + 1) * rate) * points) \div total
              /\ DerivedSpeed = (rate * points) \div total
          BY <1>1, <2>2, <2>5, <4>2, <5>1 DEF TribeReward, DerivedSpeed
        <5>3. PICK past \in Nat, one \in Nat : past = (since * rate) * points /\ one = rate * points
          BY ProductType
        <5>4. ((since + 1) * rate) * points = past + one
          <6>1. PICK all \in Nat : all = since * rate
            BY ProductType
          <6>2. (since + 1) * rate = all + rate
            BY <6>1, Distributes
          <6>3. (all + rate) * points = all * points + rate * points
            BY Distributes
          <6> QED
            BY <5>3, <6>1, <6>2, <6>3
        <5>5. (past \div total) + (one \div total) <= (past + one) \div total
          BY <5>1, PartsLose
        <5>6. one \div total \in Nat
          BY <5>1, DivBounds
        <5> QED
          BY <2>2, <2>3, <5>2, <5>3, <5>4, <5>5, <5>6
      <4> QED
        BY <4>1, <4>2
    <3>3. promised' <= given + more
      BY <2>3, <3>1, <3>2
    <3> QED
      BY <1>1, <1>3, <2>1, <2>2, <2>3, <3>3 DEF SpeedIsEarned
  <2> QED
    BY <2>4, <2>5
<1> QED
  BY <1>2, <1>3

----------------------------------------------------------------------------
(* The steps of the whole. *)

(* What only touches the distributor *)
DistributorStep ==
  SetAutoRewardsDistribution \/ GuardianDisableSupplySpeed \/ PauseDistributor

LEMMA StutterKeepsSync ==
  ASSUME SyncInv, UNCHANGED allVars
  PROVE  SyncInv'
<1>1. UNCHANGED vars /\ UNCHANGED <<rewardsArray, compSpeed, allowed, promised, outdated, direct>>
  BY DEF allVars, syncVars, history
<1>2. UNCHANGED <<block, poolInfo, tribePerBlock, totalAllocPoint, emitted>> /\ Pools' = Pools
  BY <1>1 DEF vars, settings, Pools
<1>3. ChiefInv'
  BY <1>1, StutterKeeps DEF SyncInv
<1>4. SyncTypes'
  BY <1>1 DEF SyncInv, SyncTypes
<1>5. Dues' = Dues
  BY <1>2 DEF Dues
<1>6. RateIsKept' <=> RateIsKept
  BY <1>1, <1>2, <1>5 DEF RateIsKept
<1>7. SpeedIsEarned' <=> SpeedIsEarned
  BY <1>1, <1>2 DEF SpeedIsEarned, DerivedSpeed, TribeReward
<1> QED
  BY <1>1, <1>3, <1>4, <1>6, <1>7 DEF SyncInv

LEMMA DistributorKeepsSync ==
  ASSUME SyncInv, DistributorStep
  PROVE  SyncInv'
<1>1. UNCHANGED vars /\ UNCHANGED <<rewardsArray, allowed, promised, outdated, direct>>
  BY DEF DistributorStep, SetAutoRewardsDistribution, GuardianDisableSupplySpeed,
         PauseDistributor, history
<1>2. UNCHANGED <<block, poolInfo, tribePerBlock, totalAllocPoint, emitted>> /\ Pools' = Pools
  BY <1>1 DEF vars, settings, Pools
<1>3. ChiefInv'
  BY <1>1, StutterKeeps DEF SyncInv
<1>4. RateIsKept' <=> RateIsKept
  <2>1. Dues' = Dues
    BY <1>2 DEF Dues
  <2> QED
    BY <1>1, <1>2, <2>1 DEF RateIsKept
<1>5. DerivedSpeed' = DerivedSpeed
  BY <1>2 DEF DerivedSpeed
<1>6. \/ compSpeed' = compSpeed \/ compSpeed' = 0
      \/ compSpeed' = DerivedSpeed /\ tribalChiefRewardIndex \in Pools
  BY <1>2, <1>5 DEF DistributorStep, SetAutoRewardsDistribution, SetsAutoRewardsDistribution,
         GuardianDisableSupplySpeed, PauseDistributor
<1>7. tribalChiefRewardIndex \in Pools => DerivedSpeed \in Nat
  BY SpeedType DEF SyncInv, SpeedIsNat
<1>8. compSpeed' \in Nat
  BY <1>6, <1>7 DEF SyncInv, SyncTypes
<1>9. SyncTypes'
  BY <1>1, <1>8 DEF SyncInv, SyncTypes
<1>10. SpeedIsEarned => SpeedIsEarned'
  <2>1. TribeReward(tribalChiefRewardIndex)' = TribeReward(tribalChiefRewardIndex)
    BY <1>2 DEF TribeReward
  <2>2. ASSUME SpeedIsEarned, tribalChiefRewardIndex \in Pools PROVE SpeedIsEarned'
    <3>1. compSpeed' <= DerivedSpeed
      BY <1>6, <1>7, <2>2 DEF SpeedIsEarned
    <3> QED
      BY <1>1, <1>2, <1>5, <2>1, <2>2, <3>1 DEF SpeedIsEarned
  <2>3. ASSUME SpeedIsEarned, tribalChiefRewardIndex \notin Pools PROVE SpeedIsEarned'
    BY <1>1, <1>2, <1>6, <2>3 DEF SpeedIsEarned
  <2> QED
    BY <2>2, <2>3
<1> QED
  BY <1>1, <1>3, <1>4, <1>9, <1>10 DEF SyncInv

LEMMA BlockKeepsSync ==
  ASSUME SyncInv, SyncedBlock
  PROVE  SyncInv'
<1>1. ChiefInv /\ SyncTypes
  BY DEF SyncInv
<1>2. ChiefInv'
  BY <1>1, AdvanceBlockKeeps DEF SyncedBlock
<1>3. UNCHANGED <<rewardsArray, compSpeed, outdated, direct>>
  BY DEF SyncedBlock, syncVars
<1>4. SyncTypes'
  <2>1. tribePerBlock \in Nat
    BY <1>1 DEF ChiefInv, Types
  <2>2. allowed' \in Nat /\ promised' \in Nat
    BY <1>1, <2>1 DEF SyncedBlock, SyncTypes
  <2> QED
    BY <1>1, <1>3, <2>2 DEF SyncTypes
<1>5. ~outdated => RateIsKept'
  BY <1>1, BlocksKeepRate DEF SyncInv, SyncTypes
<1>6. ~direct => SpeedIsEarned'
  BY <1>1, <1>2, BlocksAreEarned DEF SyncInv
<1> QED
  BY <1>2, <1>3, <1>4, <1>5, <1>6 DEF SyncInv

LEMMA HelperKeepsSync ==
  ASSUME SyncInv, HelperCall
  PROVE  SyncInv'
<1>1. ChiefInv /\ SyncTypes
  BY DEF SyncInv
<1>2. HelperTakes /\ rewardsArray' \in Seq(Nat) /\ Synced
  BY <1>1, HelperCallTakes DEF SyncTypes
<1>3. /\ ChiefInv' /\ PoolsTake /\ UNCHANGED block
      /\ UNCHANGED <<allowed, promised, outdated, direct>>
      /\ \A i \in Pools' : poolInfo'[i].lastRewardBlock = block
  BY <1>2, HelperIsStep DEF HelperTakes, Synced, history
<1>4. tribalChiefRewardIndex \in Pools' /\ compSpeed' = DerivedSpeed'
  BY <1>2 DEF Synced, SetsAutoRewardsDistribution
<1>5. DerivedSpeed' \in Nat
  BY <1>3, <1>4, SpeedTypeAfter DEF SpeedIsNat
<1>6. SyncTypes'
  BY <1>1, <1>2, <1>3, <1>4, <1>5 DEF SyncTypes
<1>7. ~outdated => RateIsKept'
  <2>1. ASSUME ~outdated
        PROVE  /\ SumFunctionOnSet(emitted', Pools') <= allowed'
               /\ SumFunctionOnSet(Dues', Pools') <= totalAllocPoint' * allowed'
    <3>1. RateIsKept /\ allowed \in Nat
      BY <1>1, <2>1 DEF SyncInv, SyncTypes
    <3> QED
      BY <1>1, <1>3, <3>1, GivenStaysInRate, UpdatedStayInRate
  <2> QED
    BY <2>1 DEF RateIsKept
<1>8. ~direct => SpeedIsEarned'
  <2>1. SUFFICES ASSUME SpeedIsEarned PROVE SpeedIsEarned'
    BY DEF SyncInv
  <2>2. compSpeed' <= DerivedSpeed'
    BY <1>4, <1>5
  <2>3. promised' <= emitted'[tribalChiefRewardIndex] + TribeReward(tribalChiefRewardIndex)'
    <3>1. /\ emitted'[tribalChiefRewardIndex] \in Nat
          /\ TribeReward(tribalChiefRewardIndex)' \in Nat
      <4>1. NumbersOK'
        BY <1>3, PoolNumbersAfter
      <4> QED
        BY <1>4, <4>1 DEF NumbersOK
    <3>2. CASE tribalChiefRewardIndex \in Pools
      <4>1. /\ promised <= emitted'[tribalChiefRewardIndex] /\ promised \in Nat
        BY <1>1, <1>2, <2>1, <3>2 DEF SpeedIsEarned, HelperTakes, SyncTypes
      <4> QED
        BY <1>3, <3>1, <4>1
    <3>3. CASE tribalChiefRewardIndex \notin Pools
      <4>1. promised' = 0
        BY <1>3, <2>1, <3>3 DEF SpeedIsEarned
      <4> QED
        BY <3>1, <4>1
    <3> QED
      BY <3>2, <3>3
  <2> QED
    BY <1>4, <2>2, <2>3 DEF SpeedIsEarned
<1> QED
  BY <1>3, <1>6, <1>7, <1>8 DEF SyncInv

LEMMA DirectCallKeepsSync ==
  ASSUME SyncInv, DirectCall
  PROVE  SyncInv'
<1>1. ChiefInv /\ SyncTypes /\ [Next]_vars
  BY DEF SyncInv, DirectCall
<1>2. ChiefInv'
  BY <1>1, NextKeeps
<1>3. UNCHANGED <<block, rewardsArray, compSpeed, allowed, promised>>
  BY DEF DirectCall, syncVars
<1>4. PoolsTake /\ (UNCHANGED totalAllocPoint => Pools' = Pools)
  BY <1>1, <1>3, StepsTake
<1>5. CASE UNCHANGED <<tribePerBlock, totalAllocPoint>>
  <2>1. UNCHANGED <<outdated, direct>> /\ Pools' = Pools
    BY <1>4, <1>5 DEF DirectCall
  <2>2. SyncTypes'
    BY <1>1, <1>3, <2>1 DEF SyncTypes
  <2>3. ~outdated => RateIsKept'
    <3>1. ASSUME ~outdated
          PROVE  /\ SumFunctionOnSet(emitted', Pools') <= allowed'
                 /\ SumFunctionOnSet(Dues', Pools') <= totalAllocPoint' * allowed'
      <4>1. RateIsKept /\ allowed \in Nat
        BY <1>1, <3>1 DEF SyncInv, SyncTypes
      <4> QED
        BY <1>1, <1>2, <1>3, <1>4, <1>5, <2>1, <4>1, GivenStaysInRate, DuesStayInRate
    <3> QED
      BY <3>1 DEF RateIsKept
  <2>4. ~direct => SpeedIsEarned'
    <3>1. SUFFICES ASSUME SpeedIsEarned PROVE SpeedIsEarned'
      BY DEF SyncInv
    <3>2. CASE tribalChiefRewardIndex \notin Pools
      BY <1>3, <2>1, <3>1, <3>2 DEF SpeedIsEarned
    <3>3. CASE tribalChiefRewardIndex \in Pools
      <4>1. poolInfo'[tribalChiefRewardIndex].allocPoint = poolInfo[tribalChiefRewardIndex].allocPoint
        BY <1>1, <1>3, <1>5, <3>3, PointsStay
      <4>2. DerivedSpeed' = DerivedSpeed
        BY <1>5, <4>1 DEF DerivedSpeed
      <4> DEFINE now == emitted[tribalChiefRewardIndex] + TribeReward(tribalChiefRewardIndex)
                 then == emitted'[tribalChiefRewardIndex] + TribeReward(tribalChiefRewardIndex)'
      <4>3. then >= now
        BY <1>1, <1>2, <1>3, <1>5, <3>3, DueStays
      <4>4. now \in Nat /\ then \in Nat
        <5>1. NumbersOK /\ NumbersOK'
          BY <1>1, <1>2, PoolNumbers, PoolNumbersAfter
        <5>2. /\ emitted[tribalChiefRewardIndex] \in Nat
              /\ TribeReward(tribalChiefRewardIndex) \in Nat
              /\ emitted'[tribalChiefRewardIndex] \in Nat
              /\ TribeReward(tribalChiefRewardIndex)' \in Nat
          BY <2>1, <3>3, <5>1 DEF NumbersOK
        <5> QED
          BY <5>2
      <4>5. promised <= now /\ promised \in Nat
        BY <1>1, <3>1, <3>3 DEF SpeedIsEarned, SyncTypes
      <4>6. promised' <= then
        <5> HIDE DEF now, then
        <5> QED
          BY <1>3, <4>3, <4>4, <4>5
      <4>7. compSpeed' <= DerivedSpeed'
        BY <1>3, <3>1, <3>3, <4>2 DEF SpeedIsEarned
      <4> QED
        BY <2>1, <3>3, <4>6, <4>7 DEF SpeedIsEarned
    <3> QED
      BY <3>2, <3>3
  <2> QED
    BY <1>2, <2>1, <2>2, <2>3, <2>4 DEF SyncInv
<1>6. CASE ~ UNCHANGED <<tribePerBlock, totalAllocPoint>>
  <2>1. /\ outdated' = (outdated \/ \E pid \in Pools' : poolInfo'[pid].lastRewardBlock < block)
        /\ direct' = TRUE
    BY <1>6 DEF DirectCall
  <2>2. outdated' \in BOOLEAN /\ direct' \in BOOLEAN
    BY <1>1, <2>1 DEF SyncTypes
  <2>3. SyncTypes'
    BY <1>1, <1>3, <2>2 DEF SyncTypes
  <2>4. ~outdated' => RateIsKept'
    <3>1. ASSUME ~outdated'
          PROVE  /\ SumFunctionOnSet(emitted', Pools') <= allowed'
                 /\ SumFunctionOnSet(Dues', Pools') <= totalAllocPoint' * allowed'
      <4>1. ~outdated /\ \A pid \in Pools' : ~(poolInfo'[pid].lastRewardBlock < block)
        BY <1>1, <2>1, <3>1 DEF SyncTypes
      <4>2. \A i \in Pools' : poolInfo'[i].lastRewardBlock = block
        <5>1. NumbersOK'
          BY <1>2, PoolNumbersAfter
        <5>2. \A i \in Pools' : /\ poolInfo'[i].lastRewardBlock \in Nat
                                 /\ poolInfo'[i].lastRewardBlock <= block
          BY <1>3, <5>1 DEF NumbersOK
        <5>3. block \in Nat
          BY <1>1, ChiefAssumption DEF ChiefInv, Types
        <5> QED
          BY <4>1, <5>2, <5>3
      <4>3. RateIsKept /\ allowed \in Nat
        BY <1>1, <4>1 DEF SyncInv, SyncTypes
      <4> QED
        BY <1>1, <1>2, <1>3, <1>4, <4>2, <4>3, GivenStaysInRate, UpdatedStayInRate
    <3> QED
      BY <3>1 DEF RateIsKept
  <2> QED
    BY <1>2, <2>1, <2>3, <2>4 DEF SyncInv
<1> QED
  BY <1>5, <1>6

LEMMA SyncAtFirst ==
  ASSUME SyncInit
  PROVE  SyncInv
<1>1. /\ Init /\ Pools = {} /\ totalAllocPoint = 0
      /\ compSpeed = 0 /\ allowed = 0 /\ promised = 0
      /\ rewardsArray = ScheduledRewards /\ outdated = FALSE /\ direct = FALSE
  BY DEF SyncInit, Init, Pools
<1>2. SyncTypes
  BY <1>1, SyncAssumption DEF SyncTypes
<1>3. SumFunctionOnSet(emitted, {}) = 0 /\ SumFunctionOnSet(Dues, {}) = 0 /\ 0 * 0 = 0
  BY SumOfNone
<1>4. RateIsKept
  BY <1>1, <1>3 DEF RateIsKept
<1>5. SpeedIsEarned
  BY <1>1 DEF SpeedIsEarned
<1> QED
  BY <1>1, <1>2, <1>4, <1>5, NoPools DEF SyncInv

LEMMA SyncNextKeeps ==
  ASSUME SyncInv, [SyncNext]_allVars
  PROVE  SyncInv'
<1>1. ASSUME SyncNext
      PROVE  SyncedBlock \/ DirectCall \/ HelperCall \/ DistributorStep
  BY <1>1 DEF SyncNext, HelperCall, DistributorStep
<1> QED
  BY <1>1, StutterKeepsSync, BlockKeepsSync, DirectCallKeepsSync, HelperKeepsSync,
     DistributorKeepsSync

LEMMA SyncInvariant == SyncSpec => []SyncInv
<1>1. SyncInit => SyncInv
  BY SyncAtFirst
<1>2. SyncInv /\ [SyncNext]_allVars => SyncInv'
  BY SyncNextKeeps
<1> QED
  BY <1>1, <1>2, PTL DEF SyncSpec

(* What all pools were given and are due is one sum over them. *)
LEMMA RateMeans ==
  ASSUME SyncInv
  PROVE  EmissionKeepsRate
<1> DEFINE f == [pid \in Pools |-> emitted[pid] + TribeReward(pid)]
<1>1. SumFunction(f) = SumFunctionOnSet(f, Pools)
  BY DEF SumFunction
<1>2. ASSUME ~outdated PROVE SumFunctionOnSet(f, Pools) <= allowed
  <2>1. ChiefInv /\ allowed \in Nat /\ RateIsKept
    BY <1>2 DEF SyncInv, SyncTypes
  <2>2. \A i \in Pools : f[i] = emitted[i] \/ f[i] = emitted[i] + TribeReward(i)
    OBVIOUS
  <2> HIDE DEF f
  <2> QED
    BY <2>1, <2>2, TakenKeepsRate
<1> QED
  BY <1>1, <1>2 DEF EmissionKeepsRate

(* TribalChief.sol:102, 302, 322 and TribalChiefSyncV2.sol:81-88.  All pools     *)
(* together are never given, nor due, more than the rate of each block, whatever  *)
(* their number, their points, their rates and the times of their updates, as     *)
(* long as every change of rate or points finds all of them updated, which the    *)
(* calls of the helper see to.                                                    *)
THEOREM SyncedChangesKeepRate == SyncSpec => []EmissionKeepsRate
<1>1. SyncInv => EmissionKeepsRate
  BY RateMeans
<1> QED
  BY <1>1, SyncInvariant, PTL

(* TribalChiefSyncV2.sol:21-31, AutoRewardsDistributor.sol:75-84.  If all changes *)
(* of rate and points are the helper's, the market never pays out more than its   *)
(* pool was given or is due, for every number of pools, blocks and changes.       *)
THEOREM DistributorStaysFunded == SyncSpec => []DistributorIsFunded
<1>1. SyncInv => DistributorIsFunded
  BY DEF SyncInv, SpeedIsEarned, DistributorIsFunded
<1> QED
  BY <1>1, SyncInvariant, PTL
=============================================================================
