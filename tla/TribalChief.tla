----------------------------- MODULE TribalChief -----------------------------
(***************************************************************************)
(* Staking with lock-ups (contracts/staking/TribalChief.sol).  A pool pays *)
(* TRIBE for every block to the virtual amounts in it: what was staked     *)
(* times the multiplier of its lock-up.  What a virtual token has earned   *)
(* is kept as accTribePerShare; the debt of a user is what its tokens had  *)
(* earned before they were staked or last paid.  All of it is integer      *)
(* arithmetic that rounds down.                                            *)
(*                                                                         *)
(* External: the staked tokens move as they are told, and the rewarders    *)
(* (IRewarder) do not revert.  A pool does not stake TRIBE itself.         *)
(***************************************************************************)
EXTENDS Integers, Sequences, FiniteSets, Functions

CONSTANTS
  User,
  Governor, Admin, Guardian,
  SCALE_FACTOR, ACC_TRIBE_PRECISION,
  FirstReward,      \* tribalChiefTribePerBlock, as initialised
  Funding,          \* the TRIBE the contract is given
  RewardData,       \* the lock-ups and multipliers a pool is created with
  Locks, Multipliers, AllocPoints, Rewards,
  Amounts, TribeAmounts,
  MaxPools, MaxDeposits, MaxBlock  \* bounds

ASSUME ChiefAssumption ==
  /\ IsFiniteSet(User)  \* an address has 20 bytes
  /\ SCALE_FACTOR \in Nat \ {0} /\ ACC_TRIBE_PRECISION \in Nat \ {0}
  /\ FirstReward \in Nat /\ Funding \in Nat
  /\ \A data \in RewardData :
       \A lock \in DOMAIN data : lock \in Locks /\ data[lock] \in Nat
  /\ Locks \subseteq Nat /\ Multipliers \subseteq Nat
  /\ AllocPoints \subseteq Nat /\ Rewards \subseteq Nat
  /\ Amounts \subseteq Nat /\ TribeAmounts \subseteq Nat
  /\ {MaxPools, MaxDeposits} \subseteq Nat /\ MaxBlock \in Nat \ {0}

VARIABLES
  block,            \* block.number
  tribePerBlock, totalAllocPoint, poolInfo,
  rewardMultipliers, userInfo, depositInfo,
  staked,           \* the staked tokens of each pool that the contract holds
  tribe,            \* the TRIBE it holds
  paused,
  emitted,          \* history: the rewards given to each pool
  paid,             \* history: the rewards paid to users from each pool
  roundings         \* history: how often a debt was set to a rounded number

settings == <<tribePerBlock, totalAllocPoint, rewardMultipliers>>
books == <<userInfo, depositInfo, staked, tribe, paid, roundings>>
vars == <<block, poolInfo, settings, books, paused, emitted>>

Pools == DOMAIN poolInfo
NoUserInfo == [rewardDebt |-> 0, virtualAmount |-> 0]

(* Faulty: rounds up. *)
MultipliedUp(amount, multiplier) ==
  (amount * multiplier + SCALE_FACTOR - 1) \div SCALE_FACTOR

Multiplied(amount, multiplier) == (amount * multiplier) \div SCALE_FACTOR
DepositVirtual(d) == Multiplied(d.amount, d.multiplier)
SumOver(ds, field(_)) == SumFunction([i \in DOMAIN ds |-> field(ds[i])])
SharesOf(virtual, pool) == (virtual * pool.accTribePerShare) \div ACC_TRIBE_PRECISION

(* What the blocks since lastRewardBlock give to a pool *)
TribeReward(pid) ==
  LET pool == poolInfo[pid]
  IN IF pool.virtualTotalSupply > 0 /\ totalAllocPoint # 0
     THEN ((block - pool.lastRewardBlock) * tribePerBlock * pool.allocPoint)
            \div totalAllocPoint
     ELSE 0

UpdatedPool(pid) ==
  LET pool == poolInfo[pid]
      perShare == IF TribeReward(pid) = 0 THEN 0
                  ELSE (TribeReward(pid) * ACC_TRIBE_PRECISION) \div pool.virtualTotalSupply
  IN [pool EXCEPT !.accTribePerShare = @ + perShare, !.lastRewardBlock = block]

EmittedBy(pid) == [emitted EXCEPT ![pid] = @ + TribeReward(pid)]

IsFree(d, pool) == d.unlockBlock <= block \/ pool.unlocked

----------------------------------------------------------------------------
Init ==
  /\ block = 1
  /\ tribePerBlock = FirstReward
  /\ totalAllocPoint = 0
  /\ poolInfo = <<>>
  /\ rewardMultipliers = <<>>
  /\ userInfo = <<>>
  /\ depositInfo = <<>>
  /\ staked = <<>>
  /\ tribe = Funding
  /\ paused = FALSE
  /\ emitted = <<>>
  /\ paid = <<>>
  /\ roundings = <<>>

(* These four calls take the pools, and what they were given, as they find them: *)
(* another contract may have updated them in the same transaction.               *)
UpdateBlockRewardOf(pools, given, caller, reward) ==
  /\ caller \in Governor \cup Admin
  /\ caller \in Admin => reward < tribePerBlock
  /\ tribePerBlock' = reward
  /\ poolInfo' = pools
  /\ emitted' = given
  /\ UNCHANGED <<block, totalAllocPoint, rewardMultipliers, books, paused>>

UpdateBlockReward(caller, reward) == UpdateBlockRewardOf(poolInfo, emitted, caller, reward)

LockPool(caller, pid, unlocked) ==
  /\ caller \in Governor \cup Admin
  /\ poolInfo' = [poolInfo EXCEPT ![pid].unlocked = unlocked]
  /\ UNCHANGED <<block, settings, books, paused, emitted>>

GovernorAddPoolMultiplier(caller, pid, lock, multiplier) ==
  /\ caller \in Governor \cup Admin
  /\ poolInfo' = [poolInfo EXCEPT
       ![pid].unlocked = @ \/ multiplier > rewardMultipliers[pid][lock]]
  /\ rewardMultipliers' = [rewardMultipliers EXCEPT ![pid][lock] = multiplier]
  /\ UNCHANGED <<block, tribePerBlock, totalAllocPoint, books, paused, emitted>>

GovernorWithdrawTribe(caller, amount) ==
  /\ caller \in Governor
  /\ amount <= tribe
  /\ tribe' = tribe - amount
  /\ UNCHANGED <<block, poolInfo, settings, userInfo, depositInfo, staked, paid,
                 roundings, paused, emitted>>

(* A pool that is added keeps its number and its token for ever. *)
AddTo(pools, given, caller, allocPoint, data) ==
  /\ caller \in Governor \cup Admin
  /\ Len(poolInfo) < MaxPools
  /\ allocPoint > 0
  /\ DOMAIN data # {}
  /\ \A lock \in DOMAIN data :
       IF lock = 0 THEN data[lock] = SCALE_FACTOR ELSE data[lock] >= SCALE_FACTOR
  /\ totalAllocPoint' = totalAllocPoint + allocPoint
  /\ rewardMultipliers' = Append(rewardMultipliers,
       [lock \in Locks |-> IF lock \in DOMAIN data THEN data[lock] ELSE 0])
  /\ poolInfo' = Append(pools,
       [allocPoint |-> allocPoint, virtualTotalSupply |-> 0, lastRewardBlock |-> block,
        accTribePerShare |-> 0, unlocked |-> FALSE])
  /\ userInfo' = Append(userInfo, [u \in User |-> NoUserInfo])
  /\ depositInfo' = Append(depositInfo, [u \in User |-> <<>>])
  /\ staked' = Append(staked, 0)
  /\ emitted' = Append(given, 0)
  /\ paid' = Append(paid, 0)
  /\ roundings' = Append(roundings, 0)
  /\ UNCHANGED <<block, tribePerBlock, tribe, paused>>

Add(caller, allocPoint, data) == AddTo(poolInfo, emitted, caller, allocPoint, data)

(* Faulty: the total keeps the points that the pool had. *)
SetAddsPoints(caller, pid, allocPoint) ==
  /\ caller \in Governor \cup Admin
  /\ totalAllocPoint' = totalAllocPoint + allocPoint
  /\ totalAllocPoint' > 0
  /\ poolInfo' = [poolInfo EXCEPT ![pid] = [UpdatedPool(pid) EXCEPT !.allocPoint = allocPoint]]
  /\ emitted' = EmittedBy(pid)
  /\ UNCHANGED <<block, tribePerBlock, rewardMultipliers, books, paused>>

SetIn(pools, given, caller, pid, allocPoint) ==
  /\ caller \in Governor \cup Admin
  /\ totalAllocPoint' = (totalAllocPoint - poolInfo[pid].allocPoint) + allocPoint
  /\ totalAllocPoint' > 0
  /\ poolInfo' = [pools EXCEPT ![pid] = [UpdatedPool(pid) EXCEPT !.allocPoint = allocPoint]]
  /\ emitted' = [given EXCEPT ![pid] = emitted[pid] + TribeReward(pid)]
  /\ UNCHANGED <<block, tribePerBlock, rewardMultipliers, books, paused>>

Set(caller, pid, allocPoint) == SetIn(poolInfo, emitted, caller, pid, allocPoint)

ResetRewardsIn(pools, given, caller, pid) ==
  /\ caller \in Guardian \cup Governor
  /\ totalAllocPoint' = totalAllocPoint - poolInfo[pid].allocPoint
  /\ poolInfo' = [pools EXCEPT
       ![pid] = [UpdatedPool(pid) EXCEPT !.allocPoint = 0, !.unlocked = TRUE]]
  /\ emitted' = [given EXCEPT ![pid] = emitted[pid] + TribeReward(pid)]
  /\ UNCHANGED <<block, tribePerBlock, rewardMultipliers, books, paused>>

ResetRewards(caller, pid) == ResetRewardsIn(poolInfo, emitted, caller, pid)

UpdatePool(pid) ==
  /\ poolInfo' = [poolInfo EXCEPT ![pid] = UpdatedPool(pid)]
  /\ emitted' = EmittedBy(pid)
  /\ UNCHANGED <<block, settings, books, paused>>

MassUpdatePools(pids) ==
  /\ poolInfo' = [pid \in Pools |-> IF pid \in pids THEN UpdatedPool(pid) ELSE poolInfo[pid]]
  /\ emitted' = [pid \in Pools |-> IF pid \in pids THEN EmittedBy(pid)[pid] ELSE emitted[pid]]
  /\ UNCHANGED <<block, settings, books, paused>>

DepositInto(pool, u, pid, amount, lock) ==
  LET multiplier == rewardMultipliers[pid][lock]
      virtual == Multiplied(amount, multiplier)
  IN /\ ~paused
     /\ roundings[pid] < MaxDeposits
     /\ multiplier >= SCALE_FACTOR
     /\ userInfo' = [userInfo EXCEPT ![pid][u] =
          [virtualAmount |-> @.virtualAmount + virtual,
           rewardDebt |-> @.rewardDebt + SharesOf(virtual, pool)]]
     /\ poolInfo' = [poolInfo EXCEPT
          ![pid] = [pool EXCEPT !.virtualTotalSupply = @ + virtual]]
     /\ depositInfo' = [depositInfo EXCEPT ![pid][u] = Append(@,
          [amount |-> amount, unlockBlock |-> lock + block, multiplier |-> multiplier])]
     /\ staked' = [staked EXCEPT ![pid] = @ + amount]
     /\ emitted' = EmittedBy(pid)
     /\ roundings' = [roundings EXCEPT ![pid] = @ + 1]
     /\ UNCHANGED <<block, settings, tribe, paid, paused>>

(* Faulty: the pool is not updated first. *)
DepositUnaccrued(u, pid, amount, lock) ==
  DepositInto(poolInfo[pid], u, pid, amount, lock)

Deposit(u, pid, amount, lock) ==
  DepositInto(UpdatedPool(pid), u, pid, amount, lock)

(* The rewards of a user, once the pool is updated: negative, the assertion  *)
(* in _harvest fails.                                                        *)
Pending(u, pid) ==
  SharesOf(userInfo[pid][u].virtualAmount, UpdatedPool(pid)) - userInfo[pid][u].rewardDebt

CanHarvest(u, pid) == Pending(u, pid) \in 0 .. tribe

PayPending(u, pid) ==
  /\ CanHarvest(u, pid)
  /\ tribe' = tribe - Pending(u, pid)
  /\ paid' = [paid EXCEPT ![pid] = @ + Pending(u, pid)]

WithdrawAllAndHarvest(u, pid) ==
  LET pool == UpdatedPool(pid)
      ds == depositInfo[pid][u]
      free == {i \in DOMAIN ds : IsFree(ds[i], pool)}
      amount == SumFunctionOnSet([i \in free |-> ds[i].amount], free)
      virtual == SumFunctionOnSet([i \in free |-> DepositVirtual(ds[i])], free)
      rest == userInfo[pid][u].virtualAmount - virtual
  IN /\ PayPending(u, pid)
     /\ virtual <= pool.virtualTotalSupply
     /\ IF free = DOMAIN ds
        THEN /\ depositInfo' = [depositInfo EXCEPT ![pid][u] = <<>>]
             /\ userInfo' = [userInfo EXCEPT ![pid][u] = NoUserInfo]
             /\ UNCHANGED roundings
        ELSE /\ rest >= 0
             /\ depositInfo' = [depositInfo EXCEPT ![pid][u] =
                  [i \in DOMAIN ds |->
                     IF i \in free THEN [amount |-> 0, unlockBlock |-> 0, multiplier |-> 0]
                     ELSE ds[i]]]
             /\ userInfo' = [userInfo EXCEPT ![pid][u] =
                  [virtualAmount |-> rest, rewardDebt |-> SharesOf(rest, pool)]]
             /\ roundings' = [roundings EXCEPT ![pid] = IF virtual = 0 THEN @ ELSE @ + 1]
     /\ poolInfo' = [poolInfo EXCEPT
          ![pid] = [pool EXCEPT !.virtualTotalSupply = @ - virtual]]
     /\ staked' = [staked EXCEPT ![pid] = @ - amount]
     /\ emitted' = EmittedBy(pid)
     /\ UNCHANGED <<block, settings, paused>>

WithdrawFromDeposit(u, pid, amount, i) ==
  LET pool == UpdatedPool(pid)
      d == depositInfo[pid][u][i]
      virtual == Multiplied(amount, d.multiplier)
  IN /\ i \in DOMAIN depositInfo[pid][u]
     /\ IsFree(d, pool)
     /\ amount <= d.amount
     /\ virtual <= userInfo[pid][u].virtualAmount
     /\ virtual <= pool.virtualTotalSupply
     /\ depositInfo' = [depositInfo EXCEPT ![pid][u][i].amount = @ - amount]
     /\ userInfo' = [userInfo EXCEPT ![pid][u] =
          [virtualAmount |-> @.virtualAmount - virtual,
           rewardDebt |-> @.rewardDebt - SharesOf(virtual, pool)]]
     /\ poolInfo' = [poolInfo EXCEPT
          ![pid] = [pool EXCEPT !.virtualTotalSupply = @ - virtual]]
     /\ staked' = [staked EXCEPT ![pid] = @ - amount]
     /\ emitted' = EmittedBy(pid)
     /\ UNCHANGED <<block, settings, tribe, paid, roundings, paused>>

(* Faulty: what is paid stays owed. *)
HarvestKeepsDebt(u, pid) ==
  /\ PayPending(u, pid)
  /\ poolInfo' = [poolInfo EXCEPT ![pid] = UpdatedPool(pid)]
  /\ emitted' = EmittedBy(pid)
  /\ UNCHANGED <<block, settings, userInfo, depositInfo, staked, roundings, paused>>

Harvest(u, pid) ==
  LET pool == UpdatedPool(pid)
  IN /\ PayPending(u, pid)
     /\ poolInfo' = [poolInfo EXCEPT ![pid] = pool]
     /\ userInfo' = [userInfo EXCEPT
          ![pid][u].rewardDebt = SharesOf(userInfo[pid][u].virtualAmount, pool)]
     /\ emitted' = EmittedBy(pid)
     /\ UNCHANGED <<block, settings, depositInfo, staked, roundings, paused>>

TakeAll(u, pid) ==
  LET pool == UpdatedPool(pid)
      ds == depositInfo[pid][u]
      virtual == SumOver(ds, DepositVirtual)
  IN /\ virtual <= pool.virtualTotalSupply
     /\ depositInfo' = [depositInfo EXCEPT ![pid][u] = <<>>]
     /\ userInfo' = [userInfo EXCEPT ![pid][u] = NoUserInfo]
     /\ poolInfo' = [poolInfo EXCEPT
          ![pid] = [pool EXCEPT !.virtualTotalSupply = @ - virtual]]
     /\ staked' = [staked EXCEPT ![pid] = @ - SumOver(ds, LAMBDA d : d.amount)]
     /\ emitted' = EmittedBy(pid)
     /\ UNCHANGED <<block, settings, tribe, paid, roundings, paused>>

(* Faulty: lock-ups are not respected in an emergency. *)
EmergencyWithdrawLocked(u, pid) == TakeAll(u, pid)

EmergencyWithdraw(u, pid) ==
  /\ \A i \in DOMAIN depositInfo[pid][u] : IsFree(depositInfo[pid][u][i], poolInfo[pid])
  /\ TakeAll(u, pid)

(* pause and unpause: each requires the other state. *)
Pause(caller) ==
  /\ caller \in Guardian \cup Governor
  /\ paused' = ~paused
  /\ UNCHANGED <<block, poolInfo, settings, books, emitted>>

(* External: a block goes by. *)
AdvanceBlock ==
  /\ block < MaxBlock
  /\ block' = block + 1
  /\ UNCHANGED <<poolInfo, settings, books, paused, emitted>>

Next ==
  \/ AdvanceBlock
  \/ \E caller \in Governor \cup Admin \cup Guardian :
       \/ \E r \in Rewards : UpdateBlockReward(caller, r)
       \/ \E n \in TribeAmounts : GovernorWithdrawTribe(caller, n)
       \/ \E points \in AllocPoints, data \in RewardData : Add(caller, points, data)
       \/ \E pid \in Pools :
            \/ \E unlocked \in BOOLEAN : LockPool(caller, pid, unlocked)
            \/ \E lock \in Locks, m \in Multipliers :
                 GovernorAddPoolMultiplier(caller, pid, lock, m)
            \/ \E points \in AllocPoints : Set(caller, pid, points)
            \/ ResetRewards(caller, pid)
  \/ \E caller \in Guardian \cup Governor : Pause(caller)
  \/ \E pids \in SUBSET Pools : MassUpdatePools(pids)
  \/ \E pid \in Pools :
       \/ UpdatePool(pid)
       \/ \E u \in User :
            \/ \E n \in Amounts :
                 \/ \E lock \in Locks : Deposit(u, pid, n, lock)
                 \/ \E i \in DOMAIN depositInfo[pid][u] : WithdrawFromDeposit(u, pid, n, i)
            \/ WithdrawAllAndHarvest(u, pid)
            \/ Harvest(u, pid)
            \/ EmergencyWithdraw(u, pid)

Spec == Init /\ [][Next]_vars

----------------------------------------------------------------------------
TypeOK ==
  /\ block \in 1 .. MaxBlock
  /\ {tribePerBlock, totalAllocPoint, tribe} \subseteq Nat
  /\ poolInfo \in Seq([allocPoint : Nat, virtualTotalSupply : Nat, lastRewardBlock : 1 .. block,
                       accTribePerShare : Nat, unlocked : BOOLEAN])
  /\ rewardMultipliers \in [Pools -> [Locks -> Nat]]
  /\ userInfo \in [Pools -> [User -> [rewardDebt : Int, virtualAmount : Nat]]]
  /\ depositInfo \in [Pools -> [User -> Seq([amount : Nat, unlockBlock : Nat, multiplier : Nat])]]
  /\ {staked, emitted, paid, roundings} \subseteq [Pools -> Nat]
  /\ paused \in BOOLEAN

(* TribalChief.sol:95.  The total of the points is that of all pools. *)
AllocPointsAddUp ==
  totalAllocPoint = SumOver(poolInfo, LAMBDA pool : pool.allocPoint)

(* TribalChief.sol:417-424, 490-505, 542-549, 624-628.  However a stake is       *)
(* taken out, in parts that each round down or at once, the virtual amounts      *)
(* that are subtracted never exceed what they are subtracted from: no            *)
(* withdrawal reverts, and every free deposit can be taken.                      *)
VirtualAmountsSuffice ==
  \A pid \in Pools :
    /\ SumFunction([u \in User |-> userInfo[pid][u].virtualAmount])
         <= poolInfo[pid].virtualTotalSupply
    /\ \A u \in User :
         SumOver(depositInfo[pid][u], DepositVirtual) <= userInfo[pid][u].virtualAmount

(* TribalChief.sol:558-588.  What was paid and what is still owed is never more  *)
(* than what the pool was given, but for the rounding of debts: one wei for      *)
(* each deposit and each withdrawal of a part of the deposits.                   *)
RewardsAreEmitted ==
  \A pid \in Pools :
    paid[pid] + SumFunction([u \in User |-> IF Pending(u, pid) > 0 THEN Pending(u, pid) ELSE 0])
      <= emitted[pid] + TribeReward(pid) + roundings[pid]

(* TribalChief.sol:375-387.  No transaction of a user lowers what another has    *)
(* earned, and its own it only turns into a payment: but for what an emergency   *)
(* withdrawal gives up, and one wei when a part of a deposit is withdrawn.       *)
RewardsAreKept ==
  [][UNCHANGED <<tribePerBlock, totalAllocPoint>> =>
       \A pid \in Pools, u \in User :
         IF userInfo'[pid][u] = userInfo[pid][u]
         THEN Pending(u, pid)' >= Pending(u, pid)
         ELSE \/ EmergencyWithdraw(u, pid)
              \/ Pending(u, pid)' + paid'[pid] - paid[pid] >= Pending(u, pid) - 1]_vars

(* TribalChief.sol:393-640.  Each pool is an escrow of what was staked in it. *)
StakeOf(pid, u, counts(_)) ==
  IF pid \in Pools
  THEN SumOver(depositInfo[pid][u], LAMBDA d : IF counts(d) THEN d.amount ELSE 0)
  ELSE 0
Escrow(pid) == INSTANCE StakeEscrow WITH
  Users <- User,
  held <- IF pid \in Pools THEN staked[pid] ELSE 0,
  stake <- [u \in User |-> StakeOf(pid, u, LAMBDA d : TRUE)],
  free <- [u \in User |-> StakeOf(pid, u, LAMBDA d : IsFree(d, poolInfo[pid]))]
StakesAreSafe ==
  /\ \A pid \in 1 .. MaxPools : Escrow(pid)!Init
  /\ [][\A pid \in 1 .. MaxPools : [Escrow(pid)!Next]_(Escrow(pid)!vars)]_vars

(* The comment at TribalChief.sol:565, "this should never happen": a debt that   *)
(* exceeds what the tokens have earned, which the next line asserts away.        *)
DebtIsCovered == \A pid \in Pools, u \in User : Pending(u, pid) >= 0
=============================================================================
