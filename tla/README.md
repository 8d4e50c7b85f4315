# Fei Protocol core: TLA+ models, checks and proofs

This directory models the parts of the Fei Protocol that keep state of their own and
that several independent callers change in an order nobody controls: the governance
token and its vote checkpoints, the DAO's governor and timelock, the rate-limited minting
of FEI and the peg stability module in front of it, staking, and the roles that decide who
may do what. It also models how all of that is changed: the proposals of the DAO and of the tribal
council, as the repository describes them, and the pipeline that deploys, proposes, executes and
validates them one after the other. Sources of contracts are named relative to `src/contracts/`; the
others begin with `src/`.

Contents: [inventory](#inventory) · [modules](#modules-and-the-code-they-model) ·
[runs](#runs) · [proofs](#proofs) · [where code and comments disagree](#where-the-code-and-its-comments-disagree) ·
[not modelled](#not-modelled) · [plan](#plan)

`tlc -config MCTimelock.cfg MCTimelock.tla` checks a run, `tlapm TimelockProofs.tla` a proof;
PROJECT.json lists which configuration goes with which module.

## Inventory

A contract call is atomic: it commits entirely or reverts. Concurrency is the order of
calls: anybody may get a transaction between two of somebody else's, the block number and the
timestamp move on between them, and what one call read may have changed when the next
one uses it. Nothing crashes and nothing is lost, but every call may revert, and off-chain
signatures may be submitted late, twice, or by a stranger.

| component | state | operations | what makes it correct |
|---|---|---|---|
| **TRIBE** `tribe/Tribe.sol` | balances, allowances, delegates, checkpoints per delegate, nonces, minter | `mint`, `transfer`, `transferFrom`, `approve`, `permit`, `delegate`, `delegateBySig`, `setMinter`; `getPriorVotes` | votes are the balances delegated; the past does not change; the search finds it; no token votes twice at a block; a signature counts once |
| **Timelock** `dao/timelock/Timelock.sol`, `FeiDAOTimelock.sol` | admin, pending admin, delay, queued hashes, paused | `queueTransaction`, `cancelTransaction`, `executeTransaction`, `acceptAdmin`, `setDelay`/`setPendingAdmin` (by itself), `vetoTransactions`, `rollback`, `governorSetPendingAdmin`, `pause` | nothing runs before its delay, twice, or while paused; the timelock's own settings obey the same rule |
| **GovernorAlpha** `dao/governor/GovernorAlpha.sol` | proposals with tallies and receipts, latest proposal per proposer, guardian | `propose`, `castVote(BySig)`, `queue`, `execute`, `cancel`, the guardian's four calls | phases only move forward; tallies are the votes of the start block; only what won acts |
| **FeiDAO, NopeDAO** `dao/governor/FeiDAO.sol`, `dao/nopeDAO/` | OpenZeppelin governors; a rollback; early success at quorum | `propose`, `castVote`, `queue`, `execute`, `__rollback` | as above |
| **Roles** `core/Permissions.sol`, `pods/RoleBastion.sol` | members and admin role of each role | `createRole`, grant/revoke of each role, `revokeOverride`; OpenZeppelin's `grantRole`, `revokeRole`, `renounceRole` | governors decide; a role is held only after it was created |
| **Rate limits** `utils/RateLimited.sol`, `MultiRateLimited.sol` | stored buffer, cap, rate, time of last use; the same per address; maxima for the adding role | deplete, replenish, set cap and rate; add, update, remove addresses | a bucket, though it is only computed when used, and though its settings change in between |
| **Minter** `utils/GlobalRateLimitedMinter.sol` | paused | `mint`, `mintMaxAllowableFei` | both limits bind |
| **PSM** `peg/NonCustodialPSM.sol` | fees, pauses, deposit, rate limit on sales, held FEI | `mint`, `redeem`, setters, withdrawals | no trade costs the protocol; FEI comes from the common buffer; sales follow the bucket |
| **TribalChief** `staking/TribalChief.sol` | pools, deposits, virtual amounts, debts, points | `deposit`, `withdrawFromDeposit`, `harvest`, `withdrawAllAndHarvest`, `emergencyWithdraw`, pool and reward administration | stakes are an escrow; rewards paid never exceed rewards given; nobody's reward is taken by another |
| **Reward schedule** `staking/TribalChiefSyncV2.sol`, `fuse/rewards/` | rewards still to come, what the market pays, pauses | `autoDecreaseRewards`, `decreaseRewards`, `addPool`, `setPool`, `resetPool`; `setAutoRewardsDistribution`, `guardianDisableSupplySpeed` | all pools together get no more than the rate; the market pays no more than its pool gets |
| **Vesting** `timelocks/` | beneficiary, initial balance, delegations | `release`, `clawback`, `delegate`, `undelegate` | released plus locked is what was put in |
| **Timed minting and drips** `fei/minter/`, `pcv/utils/`, `utils/Timed.sol` | timers, incentives, partial rate limits | `mint`, `drip` | once per period; the incentive is always payable |
| **Oracles** `oracle/` | cached collateralization, validity | `update`, `read` | who reads a cached value knows whether it is outdated |
| **Proposal pipeline** `src/test/integration/setup/`, `src/scripts/utils/` | chain, names deployed so far, the timelock's operation | deploy, set up, propose, wait, execute, validate; DEBUG mode; the last test takes the deployer's roles | each proposal finds what its commands need, and in the end the chain is what the configuration says |
| **Proposals** `src/proposals/description/`, `src/proposals/dao/` | none: they are data and checks | commands; `deploy`, `setup`, `teardown`, `validate` | their order; positions and ids written into arguments mean what the proposer thought |
| **Protocol configuration** `src/protocol-configuration/` | the address book, roles, counted deposits, safe addresses, pools | read | it is the state of the chain |
| **PCV guardian and sentinel, pods, collateralization** | safe addresses; timelock roles and podless ids; counted deposits | as commands of proposals; the veto and the pause of the guardian | the handover from one guardian contract to the next leaves no moment with two |
| **Stabilizers, merger, PCV deposits, metagovernance, fuse** | see PROJECT.json | | |

Interaction: TRIBE's checkpoints are read by the governors; a governor is the admin of the
timelock, the timelock is a governor of Core, and guardians of Core pause it and veto; Core's roles guard nearly
every setter; the PSM mints through the minter, which shares one buffer among all the addresses it
meters; TRIBE pays the stakers. A proposal is a list of such calls made by a timelock: it may name
contracts which it deploys itself or an earlier one deployed, give and take roles the next one needs, and
the guardian may act between any two transactions.

Hard behaviour, listed line by line under "hazards" in PROJECT.json: votes that move while
they are counted; settings that change between queueing and executing; equal actions of two proposals
that hash to one entry of the timelock; a long sequence of upgrades, each written against the chain as its author
expected it; limits that are lazily accrued while their caps, rates and
holders change; integer divisions whose rounding accumulates over partial withdrawals.

## Modules and the code they model

Common conventions. One action is one external call with everything it calls; a `require` is a
conjunct of the action, so a call that reverts is a step that is not taken. Callers and arguments are
chosen by `\E` from the constants. Block numbers and timestamps are
variables that an external action advances. Definitions whose comment begins with *Faulty* are deliberate
errors that are never used by a specification: substituted for the definition they stand next
to, each makes a named property fail, which shows that the property depends on that line of the code.

**Tribe** — `Tribe.sol`, all of it. `checkpoints[d]` is the sequence of `Checkpoint`s of a delegate
(`numCheckpoints` is its length); `MoveDelegates`, `WriteCheckpoint` and `SearchVotes`
are `_moveDelegates`, `_writeCheckpoint` and the loop of `getPriorVotes`. Signing is an external
action; a message may be submitted any number of times. `uses` counts acceptances and is history.
`uint96` is the bound `Max96`; `block.timestamp` is a function of the block.

**VoteLedger** — abstract: votes now, and a record per finished block that never changes.
**MCTribeLedger** shows that Tribe implements it, with the record read back through
`getPriorVotes`.

**Timelock** — `Timelock.sol` and `FeiDAOTimelock.sol`. A governor queues, cancels or executes
all actions of a proposal in one transaction, so these actions take a batch, made in order and entirely or not at all.
A batch may contain the timelock's calls to itself (`setDelay`, `setPendingAdmin`, `pause`) and opaque
calls; the effect of the batch is that of its last call of each kind, and it fails if a delay is out of range or
something follows a pause. `executed`, `queuedAt` and `named` are history.

**GovernorAlpha** — `GovernorAlpha.sol` composed with an instance of Timelock (the governor is its
first admin; the guardians of Core act on it) and with VoteLedger's votes in place of TRIBE. A proposal is a record with
the fields of the code, its phase is computed by `State` exactly in the order of the tests of `state()`.
Because cancelling calls the timelock, `CancelProposal` carries the timelock's guard that the governor still is
its admin. The role of admin can go to somebody else: a governor of Core, the vote or the guardian names him and he accepts.
`Timelock.sol:89-162` then lets him queue, cancel and execute as he likes (`OtherAdminQueues`, `OtherAdminCancels`,
`OtherAdminExecutes`), until the role comes back. `offered` (what the guardian queued to hand the role on), `foreign` (what
another admin queued or executed) and `lifted` (what a veto or another admin took from the queue) are history: the
properties say with them which of these ways led to what was executed. **ProposalLifecycle** — abstract: the phases of proposals and the eight ways from one
to another. `KeepsLifecycle` is the refinement, with the computed `State` as the phase.

**RateLimits** — the arithmetic of one limit, constant-level, used three times: for the common limit and the
individual limits in **GlobalRateLimitedMinter** (with `MultiRateLimited.sol`), and for sales in
**NonCustodialPSM**. **TokenBucket** — abstract: a bucket with a level that is refilled each second.
The refinement maps the level to the *computed* buffer. In GlobalRateLimitedMinter, `start` and `due` are
history: `due[p]` is what party `p` may still mint in the period that begins at the arbitrary second
`start`. The cast to `uint112` is `% Modulus112`. FEI itself is external; a mint it refuses is a call that is not
made.

**NonCustodialPSM** — `NonCustodialPSM.sol` composed with an instance of GlobalRateLimitedMinter. Both conversions
keep the order of their divisions. The oracle is an external price; the deposits are external balances.

**TribalChief** — `TribalChief.sol`, all of it, with `accTribePerShare`, virtual amounts and debts as integers
that round as in the code, at a small `ACC_TRIBE_PRECISION` and `SCALE_FACTOR`, so that rounding
happens at every step instead of rarely. `emitted`, `paid` and `roundings` are history.
**StakeEscrow** — abstract: what users put in, they and only they take out, and only what is free.

**ChiefSync** — `TribalChiefSyncV2.sol` over all of TribalChief, with the distributor that hands the rewards of one pool on to
a market (`AutoRewardsDistributor.sol`, its supply side) and `guardianDisableSupplySpeed`. A call of the helper is one
transaction: it updates every pool, makes its change as TribalChief's own call does it, and syncs the distributor, which
reverts the whole if it is paused or has nothing to change. The calls of TribalChief that are not the helper's
are `DirectCall`: everything of module TribalChief but the block. External are the optimistic timelock, which may have an
operation ready for any call, the market, which pays its speed in every block in which the only holder
(`StakingTokenWrapper`) has staked, and the clock, in blocks. `allowed`, `promised`, `outdated` and `direct` are history.

**Permissions** — `Permissions.sol` and `RoleBastion.sol` over OpenZeppelin's AccessControl.
The five grant and revoke functions of Core are one action over `MajorRole`. `revokeOverride` is a
call of Core to itself, so it succeeds only for roles that Core can manage. Its specification is `RolesSpec`, as
PermissionsProofs extends Replay, too.

**Commands** — what a command of a proposal does on chain. The chain is a set of facts, such as
*this address holds that role*, *this deposit is counted*, *this contract is paused*. A command is a record: which
roles let its caller through, which facts must or must not hold (its `require`s), what it takes away
and what it puts in; `Succeeds` and `After` give it meaning. One operator per method: the roles of Core
and of the timelocks, counting and oracles of the collateralization, safe addresses and transfers of both
PCV guardians, pausing, pools and points of TribalChief, pending admins, ownership of proxies,
rewards that are wrapped. Amounts, fees, rates and balances are left out: where a command only sets such a
parameter, it is its caller's permission and the names it uses.

**HistoryBonds, HistoryFuse, HistoryCouncil, HistoryWind** — the 59 proposals with a description in
TypeScript that were executed (43 of the DAO, 6 of the tribal council, 10 of other timelocks), by months: the contracts that
`deploy` creates with the names each needs and the facts its constructor makes, the commands of the description in
their order, the assertions of `validate`. Each operator is mapped to its file. **History** puts them in an order and
gives the chain before the first.

**AddressBook** — `mainnetAddresses.ts`: every name and its category. **ProtocolConfig** —
`permissions.ts`, `safeAddresses.ts`, `collateralizationOracle.ts`, `tribalchief.ts`, the deprecated
contracts.

**Replay** — `TestEndtoEndCoordinator` (`src/test/integration/setup/index.ts`) with `constructProposal`,
`simulatePodProposal`, `simulateDEBUGProposal` and `sudo` (`src/scripts/utils/`). `stage` and `pc` say where the coordinator is;
`world` is the chain as of the last transaction and `work` the chain within the transaction that is executed, which
is kept only by `Commit`: a command that reverts undoes those before it. Each proposal of the DAO and of the council is made
either in one transaction or in DEBUG mode, in which every command is a transaction of its own, signed as the account the code
impersonates; `mode` is chosen anew for every proposal. `Throw` is the coordinator's end
when a name has no address, a call reverts or an assertion fails.

`GuardianActs` and `Veto` are what the guardian of Core may do to the
proposal at hand between two transactions: pause the DAO's timelock, pause what a command needs unpaused, unset a safe address a
command needs, revoke a role that a command needs somebody to have or through which its timelock is let pass (never GOVERN_ROLE, which
`revokeOverride` refuses), and cancel what is scheduled, in an `OptimisticTimelock` after making itself its admin. It does not
do what bears on no command, such as taking an address off that a proposal would take off itself, nor undo what it did. Only
`FeiDAOTimelock` is inert while paused; the timelocks of the pods cannot be paused.
**MCReplay** gives the history as constants; its two assumptions, which TLC evaluates
for the history, are what the proofs ask of the upgrades.

Assumptions of the replay. The repository keeps neither the order of the proposals nor the chain before them: both are
external, and chosen so that each proposal finds what it uses. So that all of them succeed is an input of the model and no
property. In particular:

- `ChainAtFirst` (but for the deposits that `src/proposals/dao/old/collateralizationOracle.ts` counts) and
  `BetweenProposals` are inferred from the command that needs them: it removes what must have been counted, unpauses
  what must have been paused, sets a pool that must have been there. `BetweenProposals` names these commands; for
  `compoundFeiPCVDepositWrapper` there is only the configuration, which counts it.
- `NamesSinceRemoved` are two names that proposals use and `mainnetAddresses.ts` does not have: `curve3Metapool`
  (`src/proposals/description/old/fip_60.ts:53`) and `angleStakingRewards` (`src/proposals/dao/old/fip_45.ts:60`). With today's
  address book these two proposals could not be made.
- A name is that of today's address book: where a contract was renamed later (`ethLidoPCVDeposit`, `voltOracle`, the PCV
  guardian of fip_82b, whose predecessor is `pcvGuardianV1`), the model keeps the two apart.
- Votes pass. At this commit `src/protocol-configuration/proposalsConfig.ts` lists no proposal, so the coordinator itself would
  run over the empty list; the model runs it over all of them.
- `teardown`, the waiting of the pod between registration and execution, `proposalId` of
  proposals that already are on chain and the flag that skips a test are left out.

**MC\*** modules give the constants that are not plain sets; **\*Proofs** hold the proofs.

## Runs

All runs but `replay` check for deadlock. The specifications of the contracts assume no fairness: no contract acts by
itself, so nothing *must* happen there, and their properties are safety properties (an invariant, a property of
steps, or a refinement of an abstract specification without fairness). `Replay` assumes weak fairness of the
coordinator, `WF_vars(Coordinator)`: it is one asynchronous function that awaits one step after another until it returns or
throws, so a step that is possible is taken. Nothing is assumed of the guardian. The run ends when the coordinator does, hence
without the check for deadlock.

| run | shows | bounds, and why they suffice |
|---|---|---|
| tribe_votes | `TypeOK`; `PriorVotesCorrect`: the search equals its reference meaning; `CheckpointsOrdered`; `NoTokenVotesTwice`; `KeepsLedger` | two accounts, a supply of at most two, four blocks. Four checkpoints reach every branch of the search, including both halves and a block between, on and outside the checkpoints. The code compares delegates with each other and with zero only, so two accounts and the zero address give every case |
| tribe_signed | `SignatureUsedOnce`, `VotesAreDelegatedBalances` | two messages of one owner for one nonce (two delegations, two permits, or one of each), a last block after they expire, a finite allowance |
| timelock | `DelayRespected`, `ExecutedOnce`, `ConfigWaitedOut`, `PausedIsInert` | two accounts, execution times 1 and 3 over four seconds: the first can be reached under the first delay only, the second under either; both can expire or be queued again |
| governor_votes | `TallyIsSnapshot`, `OneLiveProposal`, `QueuedIsBacked` | two proposals over seven blocks, enough for one to be queued, vetoed, executed or expired while the other is voted on; three votes of which two are a quorum. Nobody hands on the role of admin here; that is the next run |
| governor_oversight | `OnlyPassedProposalsAct`, `KeepsLifecycle` | one proposal of two actions, one of which offers the role of admin, or of one that fails; every call of guardian, overseer, heir and heir become admin at every point of its life over seven blocks of one or two seconds. At most one transaction is queued without a vote: the same as one of the proposal's, or an offer of the role |
| minter | `GlobalLimitHolds`, `IndividualLimitHolds`, `GlobalIsBucket`, `IndividualsAreBuckets`, `TypeOK` | two metered addresses, three seconds, one of the maxima too wide for its cast (2^112 is 3 here) |
| psm | `TradesNeverLose`, `FeiComesFromBuffer`, `SalesAreBucket`, `SalesFollowPurchases` | two prices and a fee for which every division rounds, two deposits (symmetric), a second minter on the common buffer |
| chief_pool | `StakesAreSafe`, `VirtualAmountsSuffice`, `RewardsAreEmitted`, `RewardsAreKept` | two users (symmetric), two deposits each, four blocks, odd multiplier: each division rounds |
| chief_sync | `AllocPointsAddUp`; `EmissionKeepsRate`: all pools together get no more than the rate; `DistributorIsFunded`: the market pays no more than its pool gets | two pools, a block paid at one rate and points and a block at others, one step of the schedule: a change comes before, between or after the updates of either pool, made by the helper or directly. TribalChief holds no TRIBE, as rates and points do not depend on it, so only nothing is harvested; chief_pool pays rewards. More blocks and pools are left to the theorems |
| roles | `UncreatedUnheld`, `GovernorsDecide` | two accounts and the contracts; every role, the bastion's and one unrelated |
| replay | `RemovalsHitTheirTarget`: a removal by position hits what the description says; `OneGuardianContract`: no moment with two; `MatchesConfig`: the end is what the configuration says, but for exactly seven safe addresses, see [below](#where-the-code-and-its-comments-disagree); `Completes`: the coordinator always ends; `DaoRegains`: the DAO gets an executor that governs back, unless the guardian or DEBUG mode stopped an upgrade; `TypeOK` | all 59 proposals, 136 deployments, 525 commands and 36 sets of checks, nothing cut; every choice of modes; one act of the guardian, of those listed above, between any two transactions of any proposal that is not rehearsed. Combinations of two acts are not tried. 54745 distinct states |
| chief_debt | a violation: `DebtIsCovered`, see below | as chief_pool |

`TypeOK` of the minter is not only about types: no individual cap exceeds 112 bits and no rate
the maximum; `TypeOK` of Replay says that an office has one holder and that pools and entries are numbered
without gaps. The type invariants of
GovernorAlpha, NonCustodialPSM and TribalChief are stated in their modules but not checked by a run; the governor's
own part and that of TribalChief are proved (`GovernorTypeCorrect`, `ChiefTypeCorrect`), and that of the PSM is in the
invariant of PsmProofs.

## Proofs

For all values of the constants (under the named ASSUMEs of the modules, which TLC also evaluates). Where a theorem is
about a sum over accounts, voters or users, their set is assumed finite: an address has 20 bytes. No theorem bounds it.

- **TimelockProofs** — `TypeCorrect`, `DelaySafe`, `RunsOnce`, `ConfigSafe`, `PauseSafe`. `ExecutedOnce` and
  `ConfigWaitedOut` are not inductive. The invariant `IInv` adds that each queued transaction's
  time is at least the minimum delay after it was last queued (`QueuedInTime`), that what was executed has an
  execution time in the past (`ExecutedInPast`: with a positive minimum delay, queueing it again would need a time in
  the future), and that a pending admin was itself named by an executed transaction or a governor of Core
  (`PendingWaitedOut`). Lemmas about the greatest index of a finite set give what the last call of a batch is.
  `RunsOnce` assumes `MinDelay > 0`: with a delay of zero the same transaction can be
  queued and executed twice in a second.
- **ArithmeticProofs** — no theorems of its own, but the lemmas that several proofs need. *Sums*: what
  `SumFunctionOnSet` adds up over any finite set. The induction on the set is a proof by a smallest counterexample (a
  well-founded choice among the subsets for which the claim fails), as the provers cannot instantiate the induction
  theorems of the library. From it follow that a sum does not depend on the order, agrees where the terms do,
  keeps order, changes by as much as one term, splits over disjoint sets and is shared out among owners. *Products and
  divisions*: types, order, cancelling, what a rounded quotient loses. *Rate limits*: what each operation does to a buffer: types, one second adds at most
  the rate, a use takes its amount, a new cap or rate never raises it.
- **MinterProofs** — `MinterTypeCorrect`, `GlobalLimitSafe`, `IndividualLimitSafe`. That `due` is not
  negative is not inductive. `IInv` says that, in the observed period, what a bucket holds never exceeds what is still due
  (`BufferIsDue`), and that no limit was last used in the future (`Used`). As the period may begin at any
  second, the theorems bound what is minted in every interval of time.
  `GlobalImplementsBucket`, `IndividualsImplementBuckets`: the lazily computed buffers are
  buckets that are refilled each second. The level of the abstract bucket is the computed buffer, so a step of the
  code that stores a buffer and the time must not change it, which is what the lemmas on rate limits say of each
  operation. An address's bucket also needs that a limit which is not registered holds nothing (`UnregisteredIsEmpty`).
- **PsmProofs** — `NoTradeLoses`, `FeiIsMetered`, `SalesAreEarned`, `SalesImplementBucket`. That a trade costs the protocol nothing
  rests on two lemmas on the direction in which each division rounds (`MintAmount`, `RedeemAmount`), for any price
  and fee; the rest on what depleting and replenishing do to a buffer. The invariant is only the types and that no limit was
  used in the future.
- **TribeProofs** — `TribeTypeCorrect`, `CheckpointsStayOrdered`, `SignaturesCountOnce`. Checkpoints are in order because a
  second write in one block replaces the first and the clock does not go back. A signature counts once
  because a message that was accepted has a nonce its owner is past (`SignaturesSpent`).
  `SearchIsCorrect`: the binary search of `getPriorVotes` is a recursive function over an interval; that it finds the last
  checkpoint not after the block is proved for every ordered list, by taking a smallest interval for which it would not.
  `VotesAreBalances`, `SupplyIsKept`, `NoDoubleVotes` and `LedgerIsKept` share the invariant `VotesInv`: the current
  votes of each account are the balances delegated to it, all balances are the supply, and the votes at each finished
  block, read through the search, are within it. A transfer or delegation changes two terms of those sums, or, when both
  sides delegate to the same account, none. `LedgerIsKept` is the refinement of VoteLedger: writing a checkpoint does not
  change what the search finds for an earlier block, and a finished block gets the votes that were current.
- **GovernorProofs** — `GovernorTypeCorrect`, `OneProposalAtATime`, `OnlyPassedActs`, `ImplementsLifecycle`. The code asks about the latest
  proposal of an account only; `EarlierAreOver` says that all others are over, and stay so. That phases never return and that
  only what won acts needs `Settled`: a proposal that has an eta is past its vote, was not canceled and has
  won, and one that was executed has an eta. Without it, `state` could show as canceled what had been executed. The
  theorems assume a positive voting delay, voting period and grace period, and hold for any number of proposals, voters and heirs,
  whatever the guardian, the overseers and other admins of the timelock do. `OnlyPassedActs` rests on `ActsInv`: what is queued, and not
  only what was executed, was decided by a vote, offered by the guardian or is of another admin (`AllDecided`), and nobody else is
  admin, or pending admin, unless a governor of Core, a vote or the guardian named him (`OthersWereNamed`). `TalliesAreSnapshots` follows from `TallyInv`: each side of a
  tally is the sum of the recorded votes of those whose receipt is on that side, a voter without a receipt is on neither,
  and the votes recorded for a block are together within the supply. `QueuedStaysBacked` has no hypothesis: its
  invariant `QueueInv` says that what a queued proposal claims is in the timelock's queue, or was taken from there by a veto or another
  admin, or is an offer of the role that has run (`ClaimsBacked`), and
  that no two proposals claim the same entry (`ClaimsApart`), as the governor refuses to queue what is queued already.
- **TribalChiefProofs** — `ChiefTypeCorrect`, `PointsAddUp`, `WithdrawalsSuffice`, `HoldingsAreDeposits`, `PoolsAreEscrows`,
  `PoolsPayWhatTheyGet`, `EarningsAreKept`, and of ChiefSync `SyncedChangesKeepRate`, `DistributorStaysFunded`, for any number of pools, users and deposits, any multipliers, precision and
  rate. The first five are not inductive alone: the types need
  that the points add up, because `updatePool` divides by their total; and that no pool was updated in a block to come,
  because the blocks since then are subtracted; what the pool is given must be a number for the shares to be one.
  `ChiefInv` is the conjunction. The virtual amounts suffice because two parts that round down are together
  at most the whole that rounds down (`PartsRoundDown`, `WithdrawnPart`). `PoolsAreEscrows` is the refinement of
  StakeEscrow for every pool: each transaction of a user maps to one `Put` or `Take` of what the deposit or
  the free deposits are worth, all else to `Unlock`; that the pool holds the sum of all stakes is `HoldingsAddUp`.
  `PoolsPayWhatTheyGet` states `RewardsAreEmitted`: what a pool has paid and what all of its users could still harvest
  is covered by what the pool was given and one wei for each debt that was rounded. Pending rewards are quotients, so the claim as it
  stands does not carry over from one step to the next: two roundings could each lose or gain a wei. `ClaimsCovered` says the
  same in units of 1 / `ACC_TRIBE_PRECISION`, where nothing was divided yet. An update then adds to all claims
  together the supply times what one share earns, at most what was given, because the virtual amounts of the users
  are within the supply (`UpdatedClaims`, which needs `VirtualAmountsSuffice`); a debt that was rounded down leaves less than one wei
  (`StakingMore`), a part that is withdrawn gives nothing (`StakingLess`), and a payment takes at least what it
  pays (`PaymentIsOwed`, `DebtSettled`). `EarningsAreKept` states `RewardsAreKept`: while the rate and
  the points stay, no transaction of one user lowers what is pending for another, and one's own only turns into a payment but for one wei.
  What a pool will have earned at a block is a function of the pool, the block, the rate and the points (`Given`, `Share`):
  it does not decrease as blocks pass (`ShareGrows`), and is the same before and after an update in that block.
  `SyncedChangesKeepRate` states `EmissionKeepsRate` for any number of pools and all calls of the helper and of TribalChief, as
  long as every change of rate or points that is not the helper's finds all pools updated.
  What the pools were given does not carry over as such, since each is updated in a block of its own. `RateIsKept` adds what
  each will at most be given for the blocks since its last update, and multiplies by the total of the points so that nothing is
  rounded: each block adds the rate times the points of all pools, and these are the total (`PointsAddUp`).
  `DistributorStaysFunded` states `DistributorIsFunded`: `SpeedIsEarned` adds that the speed is never ahead of what the pool
  earns in a block, as the helper derives it again after each change; rounding it down once for each block only loses.
- **PermissionsProofs** — `RolesAreCreatedFirst`, `GovernorsDecideAlways`, and of Replay `RoleIsHandedOver`, `ChainStaysInOrder`. `UncreatedUnheld` needs that
  bytes32(0) is its own admin: nobody holds it, so nobody can grant it. The bastion refuses to create it, and a role that has
  an admin already; without either the proof fails. The assumption that governors do not pass bytes32(0) to `createRole`
  is `RoleAssumption`.
  The two theorems on Replay are about every list of upgrades of which a few things are true that can be read off the commands.
  `RoleIsHandedOver` states `OneGuardianContract`: `HandsOver(h)` asks that upgrade `h` alone gives the role to the new guardian
  and takes it from the old one with some command, in either order, and that neither it nor a later one gives it back. The invariant
  (`Handing`) looks into the transaction that is executed: both may hold the role in `work` until the command that takes it was
  executed, never in `world` unless upgrade `h` is rehearsed command by command; each of the other upgrades may be. Acts of the
  guardian only take away (`InterventionKinds`). `ChainStaysInOrder` states `TypeOK`: `OrderlyUpgrades` asks that a command clears what
  there is one of before it sets it, that it appends, replaces or removes what is numbered in the three ways the contracts
  do, and that a contract is born with an admin role or entries nobody had before. `InOrder` is the invariant, and `Unborn`
  says that what later upgrades deploy has left nothing yet; `CommandsKeepChain` is the step for any command on any chain, with
  one lemma on numbered lists for each way (`ListAppends`, `ListReplaces`, `ListDrops`; removing moves the last entry). What happens on
  the chain between two upgrades is external, so that it fits is a hypothesis (`[]MeanwhileFits`); in the run it does, as `Setup`
  always succeeds and `TypeOK` holds after it. MCReplay evaluates `HandsOver` and `OrderlyUpgrades` for the 59 proposals.

Only model-checked:

- `RemovalsHitTheirTarget` and `MatchesConfig` of Replay, which are about the one given history: a theorem
  for every history would be false, as the order matters;
- liveness (`Completes`, `DaoRegains`), which is out of the prover's reach.

## Where the code and its comments disagree

Checked by a run:

- `TribalChief.sol:544`: `withdrawFromDeposit` lowers the debt by shares that are rounded down for each part. If a deposit is
  withdrawn in parts within one `accTribePerShare`, the debt left can be a wei above the shares of the rest, and
  `harvest` and `withdrawAllAndHarvest` fail the assertion that "should never happen" (line 565) until the rest has earned that
  wei. The stake is not lost: `withdrawFromDeposit` and `emergencyWithdraw` still work. Run `chief_debt`.

Met while modelling, without a run of their own:

- `TribalChief.sol:322`: `resetRewards`, `set` and `add` change the total of the points without updating other pools,
  so that these are paid for past blocks at the new share, and all pools together can get more, or less, than
  `tribePerBlock`; `updateBlockReward` (line 156) updates no pool, as its comment warns. `EmissionKeepsRate` therefore exempts
  histories in which a change was made like this (`outdated`). `TribalChiefSyncV2` updates all pools first, and with that
  it holds.
- `TribalChiefSyncV2.sol:88`, `AutoRewardsDistributor.sol:86`: every call of the helper ends by syncing the distributor, which reverts when
  its speed would not change: a change that leaves the share of its pool as it is cannot be made through the helper.
- `TribalChiefSyncV2.sol:96`: the schedule calls `updateBlockReward` as an admin, who may only lower the rate. Once the rate is at or below the
  next scheduled one, by `decreaseRewards` or directly, `autoDecreaseRewards` reverts for ever and the rest of the schedule is stuck.
- `RewardsDistributorAdmin.sol:102`: what the guardian disables, anybody enables again by `setAutoRewardsDistribution`, unless one of the
  two contracts is paused.
- `TribalChief.sol:349`: `pendingRewards` divides by the total of the points without the check that `updatePool` has.
- `GovernorAlpha.sol:315`: votes are taken in the end block, which the comment on line 66 excludes; line 360 weighs them at the
  end of the start block, so delegating in the start block counts, which line 64 excludes.
- `GlobalRateLimitedMinter.sol:51`: `mintMaxAllowableFei` mints what both buffers allow, not always all of the caller's, as
  lines 46-49 say.
- `NonCustodialPSM.sol:293`: `getMaxMintAmountOut` ignores the common buffer of the minter.
- `Permissions.sol:112`: a guardian's override reaches only the roles that governors manage, not those made by the bastion,
  whose admin is ROLE_ADMIN; line 17 promises the ability to revoke without this restriction.
- `src/protocol-configuration/safeAddresses.ts` still lists seven addresses that TIP-117 unsets
  (`src/proposals/description/tip_117.ts:292-308`). `src/test/integration/tests/safeAddresses.ts:48-63` asserts that as many addresses are safe as
  are listed and that each of those listed is: it fails at the end of the replay. `MatchesConfig` states the end
  exactly, as the list without these seven (`UnsetLast`).
- `src/proposals/dao/tip_112.ts` (and its description) uses `pcvGuardianNew`, which the address book does not have.
- fip_87 deploys `sentinel`, while its command names `pcvSentinel`.
- In the validations of register_proposal and fip_99 some assertions are vacuous: `expect` without a matcher.
- fip_82b copies the safe addresses when the new guardian is deployed; what is set or unset between deployment and
  execution is lost. The positions that fip_73b passes to
  `removeDeposit`, and the pool ids 13 and 14 that proposals pass, are numbers written into arguments: they are right in
  one order of execution only (`RemovalsHitTheirTarget`).
- `src/scripts/utils/exec.ts:32` does not await `execProposal`; its lines 70-72 report "Already queued" for any proposal whose
  vote is over.
- `src/scripts/utils/simulateTimelockProposal.ts`: `simulatePodProposal` only logs that an operation is not ready (lines
  103-110), so a cancelled proposal of a pod shows only in its validation, if that looks at it. `src/scripts/utils/constructProposalCalldata.ts:94` hard-codes a
  delay of 345600 seconds, where the simulation asks the timelock.
- `src/test/integration/setup/index.ts:144`: the contracts of the address book are merged last, so for a name that is deployed
  again the old address wins.
- DEBUG mode is not atomic and always signs as `feiDAOTimelock` (`src/test/integration/setup/index.ts:176-194`), so fip_84b, which another
  timelock must execute, reverts when it is rehearsed; in the run this is where a replay without the guardian
  stops, and `DaoRegains` has to exempt it.
- `compoundFeiPCVDepositWrapper` is counted at the end, though no proposal counts it. `convexPoolPCVDepositWrapper` must have been counted
  in between without one: oa_cr_fix removes it.

## Not modelled

The proposals from before commands were typed (`src/proposals/dao/old/` without a description, most with their calls as
encoded data, `src/proposals/description/old/*.json`), and those in the directories `waiting` or superseded by others, only enter
through the facts of `ChainAtFirst`. Deployment, monitoring and simulation scripts encode, print and
send what the pipeline models. In Commands, balances and parameters are left out, so an assertion of a
`validate` on an amount, a fee or a rate is not in the model.

External contracts (OpenZeppelin, Gnosis, Orca, Chainlink, Aave, Curve, ...) are not under `src/contracts`; where modelled
code uses them they are external actions. PCV deposits are thin adapters whose behaviour is that of those contracts.
Formatting, events, gas and reentrancy into reverting rewarders are left out. In GovernorAlpha the limit
of ten actions is a bound. In the PSM, exchanging the minter contract and the oracle is left out. Block numbers and
timestamps do not overflow. Partial depletion in RateLimited (`doPartialAction`) belongs to the timed minters.

## Plan

Order: what guards the rest first. Done: the token, timelock, governor, limits and minter, PSM, staking,
roles, and the proposals with their pipeline and configuration. Left, each with its own module, run and properties:

1. **TokenTimelock** with **TimelockedDelegator**: `release`, `clawback`, tokens that arrive during the vesting, a book of
   delegated amounts. Abstract: a vesting schedule. Proof: nothing is released beyond the schedule.
2. **FeiDAO**: the rollback between two governors over one timelock; **NopeDAO**: success at quorum. Both as refinements of
   ProposalLifecycle, whose theorem for GovernorAlpha is the pattern.
3. The rest of the reward schedule: **TribalChiefSyncExtension** and **AutoRewardsDistributorV2**, several distributors and the borrow side, over ChiefSync.
4. **TribeReserveStabilizer** with **CollateralizationOracleWrapper** and **Timed**: a countdown and a cached ratio.
5. **FeiTimedMinter**, **PCVDripController**, **TribeMinter**: a timer, an incentive and a partial rate limit.
6. **PegStabilityModule** with price bounds, the merger's exchanges, and the withdrawals of the PCV guardian with their
   balances.

Proofs to add: that of each module above, beside it. For what is modelled, only the properties listed under "Only
model-checked" have no theorem.
