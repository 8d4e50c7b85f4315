------------------------------ MODULE ChiefSync ------------------------------
(***************************************************************************)
(* TribalChief together with the helper that changes its rate and its      *)
(* points (contracts/staking/TribalChiefSyncV2.sol), and a distributor     *)
(* that hands the rewards of one pool on to a market                       *)
(* (contracts/fuse/rewards/AutoRewardsDistributor.sol).  The helper        *)
(* updates every pool before a change and the distributor after it, in one *)
(* transaction.  Governors, admins and the guardian can also change both   *)
(* without it.                                                             *)
(*                                                                         *)
(* External: the optimistic timelock, which may have an operation ready    *)
(* for any call, as each has a salt of its own, and calls TribalChief with *)
(* a role of its own; the market, which pays its speed in every block; the *)
(* only holder of the staked token of that pool (StakingTokenWrapper).     *)
(* Time is counted in blocks.                                              *)
(***************************************************************************)
EXTENDS TribalChief

CONSTANTS
  ScheduledRewards, \* rewardsArray as the constructor leaves it: the next one is its last
  rewardsSchedule,  \* the time after which each of them is due
  tribalChiefRewardIndex

ASSUME SyncAssumption ==
  /\ ScheduledRewards \in Seq(Nat)
  /\ \A i, j \in DOMAIN ScheduledRewards :
       i < j => /\ ScheduledRewards[i] < ScheduledRewards[j]
                /\ rewardsSchedule[ScheduledRewards[i]] > rewardsSchedule[ScheduledRewards[j]]
  /\ tribalChiefRewardIndex \in Nat

VARIABLES
  rewardsArray,
  compSpeed,          \* what the market pays for a block
  distributorPaused,  \* the distributor or its admin contract
  allowed,            \* history: tribePerBlock, added up over the blocks
  promised,           \* history: compSpeed, over the blocks in which the pool had a stake
  outdated,           \* history: a change was made without the helper before all pools were updated
  direct              \* history: a change was made without the helper

syncVars == <<rewardsArray, compSpeed, distributorPaused>>
history == <<allowed, promised, outdated, direct>>
allVars == <<vars, syncVars, history>>

AllUpdated == [pid \in Pools |-> UpdatedPool(pid)]
AllGiven == [pid \in Pools |-> emitted[pid] + TribeReward(pid)]

DerivedSpeed ==
  IF totalAllocPoint = 0 THEN 0
  ELSE (tribePerBlock * poolInfo[tribalChiefRewardIndex].allocPoint) \div totalAllocPoint

----------------------------------------------------------------------------
SyncInit ==
  /\ Init
  /\ rewardsArray = ScheduledRewards
  /\ compSpeed = 0
  /\ distributorPaused = FALSE
  /\ allowed = 0
  /\ promised = 0
  /\ outdated = FALSE
  /\ direct = FALSE

(* At the end of a transaction *)
SetsAutoRewardsDistribution ==
  /\ ~distributorPaused
  /\ tribalChiefRewardIndex \in Pools'
  /\ compSpeed' = DerivedSpeed'
  /\ compSpeed' # compSpeed

(* The end of every call of the helper *)
Synced ==
  /\ SetsAutoRewardsDistribution
  /\ UNCHANGED <<distributorPaused, history>>

(* Faulty: the blocks so far are paid at the new rate. *)
AutoDecreaseUnupdated ==
  /\ rewardsArray # <<>>
  /\ LET next == rewardsArray[Len(rewardsArray)]
     IN /\ rewardsSchedule[next] < block
        /\ \E caller \in Admin : UpdateBlockRewardOf(poolInfo, emitted, caller, next)
  /\ rewardsArray' = SubSeq(rewardsArray, 1, Len(rewardsArray) - 1)
  /\ Synced

AutoDecreaseRewards ==
  /\ rewardsArray # <<>>
  /\ LET next == rewardsArray[Len(rewardsArray)]
     IN /\ rewardsSchedule[next] < block
        /\ \E caller \in Admin : UpdateBlockRewardOf(AllUpdated, AllGiven, caller, next)
  /\ rewardsArray' = SubSeq(rewardsArray, 1, Len(rewardsArray) - 1)
  /\ Synced

DecreaseRewards(timelock, reward) ==
  /\ UpdateBlockRewardOf(AllUpdated, AllGiven, timelock, reward)
  /\ Synced
  /\ UNCHANGED rewardsArray

AddPool(timelock, allocPoint, data) ==
  /\ AddTo(AllUpdated, AllGiven, timelock, allocPoint, data)
  /\ Synced
  /\ UNCHANGED rewardsArray

SetPool(timelock, pid, allocPoint) ==
  /\ SetIn(AllUpdated, AllGiven, timelock, pid, allocPoint)
  /\ Synced
  /\ UNCHANGED rewardsArray

(* Faulty: only the pool that is reset is updated first. *)
ResetPoolAlone(timelock, pid) ==
  /\ ResetRewardsIn(poolInfo, emitted, timelock, pid)
  /\ Synced
  /\ UNCHANGED rewardsArray

ResetPool(timelock, pid) ==
  /\ ResetRewardsIn(AllUpdated, AllGiven, timelock, pid)
  /\ Synced
  /\ UNCHANGED rewardsArray

(* Anybody may call the distributor. *)
SetAutoRewardsDistribution ==
  /\ UNCHANGED <<vars, rewardsArray, distributorPaused, history>>
  /\ SetsAutoRewardsDistribution

GuardianDisableSupplySpeed ==
  /\ Guardian \cup Governor # {}
  /\ compSpeed' = 0
  /\ UNCHANGED <<vars, rewardsArray, distributorPaused, history>>

PauseDistributor ==
  /\ Guardian \cup Governor # {}
  /\ distributorPaused' = ~distributorPaused
  /\ UNCHANGED <<vars, rewardsArray, compSpeed, history>>

(* A block goes by: TribalChief may give its rate, and the market pays its speed. *)
SyncedBlock ==
  /\ AdvanceBlock
  /\ allowed' = allowed + tribePerBlock
  /\ promised' = promised +
       IF /\ tribalChiefRewardIndex \in Pools
          /\ poolInfo[tribalChiefRewardIndex].virtualTotalSupply > 0
       THEN compSpeed ELSE 0
  /\ UNCHANGED <<syncVars, outdated, direct>>

(* A call of TribalChief that is not the helper's *)
DirectCall ==
  /\ UNCHANGED <<block, syncVars, allowed, promised>>
  /\ Next
  /\ IF UNCHANGED <<tribePerBlock, totalAllocPoint>>
     THEN UNCHANGED <<outdated, direct>>
     ELSE /\ outdated' = (outdated \/ \E pid \in Pools' : poolInfo'[pid].lastRewardBlock < block)
          /\ direct' = TRUE

SyncNext ==
  \/ SyncedBlock
  \/ DirectCall
  \/ AutoDecreaseRewards
  \/ \E timelock \in Governor \cup Admin \cup Guardian :
       \/ \E r \in Rewards : DecreaseRewards(timelock, r)
       \/ \E points \in AllocPoints, data \in RewardData : AddPool(timelock, points, data)
       \/ \E pid \in Pools :
            \/ \E points \in AllocPoints : SetPool(timelock, pid, points)
            \/ ResetPool(timelock, pid)
  \/ SetAutoRewardsDistribution
  \/ GuardianDisableSupplySpeed
  \/ PauseDistributor

SyncSpec == SyncInit /\ [][SyncNext]_allVars

----------------------------------------------------------------------------
(* TribalChief.sol:102, 302, 322 and TribalChiefSyncV2.sol:81-88.  A pool is     *)
(* paid for past blocks at the points and the rate of now.  Still all pools      *)
(* together are never given, nor due, more than tribePerBlock of each block,     *)
(* through any changes of rate and points of which each finds all pools updated. *)
EmissionKeepsRate ==
  ~outdated =>
    SumFunction([pid \in Pools |-> emitted[pid] + TribeReward(pid)]) <= allowed

(* TribalChiefSyncV2.sol:21-31, AutoRewardsDistributor.sol:75-84.  What the       *)
(* market pays out is covered by what its pool is given or due, as long as every  *)
(* change is made by the helper, whoever calls, disables or pauses the            *)
(* distributor in between.                                                        *)
DistributorIsFunded ==
  ~direct /\ tribalChiefRewardIndex \in Pools =>
    promised <= emitted[tribalChiefRewardIndex] + TribeReward(tribalChiefRewardIndex)
=============================================================================
