------------------------------ MODULE Commands ------------------------------
(* What the commands of a governance proposal do on chain.  The files under   *)
(* src/proposals/description list them as contract, method and arguments; a   *)
(* proposal is executed by a timelock, in one transaction.                     *)
(*                                                                            *)
(* The chain is a set of facts <<kind, subject, value>>.  A command says who   *)
(* may call it, which facts must hold and which must not, and which it takes   *)
(* away and puts in.  Amounts, fees, rates and other parameters are left out,  *)
(* as are balances; roles, safe addresses, counted deposits, pauses, pools and *)
(* the owners of timelocks are kept.                                           *)
EXTENDS Naturals, Sequences, FiniteSets, TLC

----------------------------------------------------------------------------
(* The facts. *)

Holds(role, who) == <<"holds", role, who>>
AdminOf(object, role) == <<"admin", object, role>>
Safe(guardian, who) == <<"safe", guardian, who>>
Counted(deposit) == <<"counted", "collateralizationOracle", deposit>>
Priced(token) == <<"priced", "collateralizationOracle", token>>
Paused(contract, part) == <<"paused", contract, part>>
Pool(pid, token) == <<"pool", pid, token>>
Points(pid, points) == <<"points", pid, points>>
Entry(index, name) == <<"entry", index, name>>
Stakes(wrapper, pid) == <<"stakes", wrapper, pid>>

OfKind(w, kind) == {f \in w : f[1] = kind}
Has(w, role, who) == Holds(role, who) \in w

\* What a role may be, where one is asked of the caller.
Governor == "GOVERN_ROLE"
Guardian == "GUARDIAN_ROLE"
Mover == "PCV_CONTROLLER_ROLE"
Minter == "MINTER_ROLE"

----------------------------------------------------------------------------
(* A command: the roles of which one lets its caller through (none asked if    *)
(* the set is empty), the objects whose admin role also does, and its effect.  *)
(* "knows" are the names it uses besides its target.                           *)

Call(contract) ==
  [on |-> contract, knows |-> {}, roles |-> {}, under |-> {}, needs |-> {}, bars |-> {},
   lifts |-> {}, removes |-> {}, clears |-> {}, adds |-> {}, claims |-> {}, special |-> "none"]

By(roles, contract) == [Call(contract) EXCEPT !.roles = roles]
ByAdmin(contract) == [By({Governor}, contract) EXCEPT !.under = {contract}]

\* A call anyone may make, one of the governor, one of the admin of the contract.
Use(contract, names) == [Call(contract) EXCEPT !.knows = names]
Govern(contract, names) == [By({Governor}, contract) EXCEPT !.knows = names]
Configure(contract, names) == [ByAdmin(contract) EXCEPT !.knows = names]

\* contracts/core/Permissions.sol
CreateRole(role, admin) ==
  [By({Governor}, "core") EXCEPT !.clears = {<<"admin", role>>}, !.adds = {AdminOf(role, admin)}]
Grant(role, who) ==
  [Call("core") EXCEPT !.knows = {who}, !.under = {role}, !.adds = {Holds(role, who)}]
Revoke(role, who) ==
  [Call("core") EXCEPT !.knows = {who}, !.under = {role}, !.removes = {Holds(role, who)}]
GovernorGrants(role, who) == [Grant(role, who) EXCEPT !.roles = {Governor}, !.under = {}]
GovernorRevokes(role, who) == [Revoke(role, who) EXCEPT !.roles = {Governor}, !.under = {}]

\* Roles that another contract keeps for itself are named after it.
GrantAt(contract, role, who) ==
  [Grant(contract \o " " \o role, who) EXCEPT
     !.on = contract, !.roles = {contract \o " admin"}, !.under = {}]
RevokeAt(contract, role, who) ==
  [Revoke(contract \o " " \o role, who) EXCEPT
     !.on = contract, !.roles = {contract \o " admin"}, !.under = {}]
BecomeAdmin(contract, roles) ==
  [By(roles, contract) EXCEPT !.under = {contract}, !.claims = {contract \o " admin"}]

\* contracts/refs/CoreRef.sol
SetContractAdmin(contract, role) ==
  [By({Governor}, contract) EXCEPT !.clears = {<<"admin", contract>>},
                                   !.adds = {AdminOf(contract, role)}]
PausePart(contract, part) ==
  [By({Governor, Guardian}, contract) EXCEPT !.bars = {Paused(contract, part)},
                                             !.adds = {Paused(contract, part)}]
Pause(contract) == PausePart(contract, "all")
Unpause(contract) ==
  [By({Governor, Guardian}, contract) EXCEPT !.needs = {Paused(contract, "all")},
                                             !.removes = {Paused(contract, "all")}]
ByGuardian(contract) == [ByAdmin(contract) EXCEPT !.roles = {Governor, Guardian}]
\* contracts/pods/PodAdminGateway.sol: besides the specific role of the pod.
ByPodAdmin(gateway, others) == By({Governor, "POD_ADMIN"} \cup others, gateway)
Running(contracts) == {Paused(c, "all") : c \in contracts}
ByRole(role, contract) == [By({role}, contract) EXCEPT !.bars = Running({contract})]

----------------------------------------------------------------------------
(* Moving the protocol controlled value. *)

\* Deposits whose withdraw is not whenNotPaused: Aave, B.AMM, the PSMs and
\* reserves of which the contract itself is the deposit.
AlwaysWithdrawable ==
  {"aaveEthPCVDeposit", "aaveRaiPCVDeposit", "bammDeposit", "daiPSM", "ethReserveStabilizer",
   "rariPool9RaiPCVDeposit", "daiFixedPricePSM", "ethPSM"}
\* Deposits that mint the FEI of the pair they provide.
MintingDeposits ==
  {"agEurAngleUniswapPCVDeposit", "uniswapPCVDeposit", "balancerDepositFeiWeth"}

Withdraw(deposit, to) ==
  [By({Mover}, deposit) EXCEPT !.knows = {to}, !.bars = Running({deposit} \ AlwaysWithdrawable)]
WithdrawToken(deposit, to) == [By({Mover}, deposit) EXCEPT !.knows = {to}]

\* RatioPCVControllerV2 is called by a PCV controller, and is one itself.
RatioWithdraw(controller, deposit, to) ==
  [By({Mover}, controller) EXCEPT !.knows = {deposit, to}, !.needs = {Holds(Mover, controller)},
                                  !.bars = Running({controller} \cup ({deposit} \ AlwaysWithdrawable))]
RatioWithdrawToken(controller, deposit, token, to) ==
  [By({Mover}, controller) EXCEPT !.knows = {deposit, token, to},
                                  !.needs = {Holds(Mover, controller)},
                                  !.bars = Running({controller})]
RatioTransfer(controller, token, to) ==
  [By({Mover}, controller) EXCEPT !.knows = {token, to}, !.bars = Running({controller})]

Deposit(deposit) ==
  [Call(deposit) EXCEPT !.bars = Running({deposit}),
                        !.needs = {Holds(Minter, d) : d \in {deposit} \cap MintingDeposits}]
\* BalancerLBPSwapper.exitPool is not whenNotPaused, that of the pools is.
ExitPool(contract, to) ==
  [By({Mover}, contract) EXCEPT !.knows = {to},
     !.bars = Running({contract} \cap {"d3poolCurvePCVDeposit", "balancerDepositFeiWeth"})]
MintAgToken(deposit) == [By({Mover}, deposit) EXCEPT !.needs = {Holds(Minter, deposit)}]
MintFei(to) == [By({Minter}, "fei") EXCEPT !.knows = {to}, !.bars = Running({"fei"})]
AllocateTribe(to) == [By({Governor}, "core") EXCEPT !.knows = {to}]

\* The mover of PCVGuardian unpauses the deposit first, as a guardian, and
\* withdraws as a controller; the destination has to be safe.
SafeMove(guardian, deposit, to) ==
  [By({Governor, "PCV_SAFE_MOVER_ROLE", Guardian}, guardian) EXCEPT
     !.knows = {deposit, to},
     !.needs = {Safe(guardian, to), Holds(Mover, guardian)}, !.lifts = Running({deposit})]
SetSafe(guardian, set) ==
  [By({Governor, "PCV_GUARDIAN_ADMIN_ROLE"}, guardian) EXCEPT
     !.knows = set, !.bars = {Safe(guardian, a) : a \in set},
     !.adds = {Safe(guardian, a) : a \in set}]
UnsetSafe(guardian, set) ==
  [By({Governor, Guardian, "PCV_GUARDIAN_ADMIN_ROLE"}, guardian) EXCEPT
     !.knows = set, !.needs = {Safe(guardian, a) : a \in set},
     !.removes = {Safe(guardian, a) : a \in set}]

\* BalancerLBPSwapper: an auction starts with the admin once the last has ended,
\* with the governor at any time.
StartAuction(swapper) == [ByAdmin(swapper) EXCEPT !.bars = Running({swapper})]
ForceAuction(swapper) == [By({Governor}, swapper) EXCEPT !.bars = Running({swapper})]
\* DelayedPCVMover: anyone may call it once; it gives up its role afterwards.
DelayedMove(mover, deposit) ==
  [Call(mover) EXCEPT !.knows = {deposit},
                      !.needs = {Holds(Mover, mover), Holds(Mover, "ratioPCVControllerV2")},
                      !.bars = Running({mover, deposit, "ratioPCVControllerV2"}),
                      !.removes = {Holds(Mover, mover)}]

----------------------------------------------------------------------------
(* The oracle of the collateralization, the staking pools and the list of     *)
(* named deposits. *)

\* Deposits reported in a token that had no oracle at first.
ReportedIn ==
  [d \in {"feiLusdLens", "rariPool7LusdPCVDeposit", "liquityFusePoolLusdPCVDeposit", "bammDeposit",
          "lusdPSM", "rariPool8LusdPCVDeposit"} |-> "lusd"]
  @@ [d \in {"creamDepositWrapper"} |-> "cream"]
  @@ [d \in {"balDepositWrapper", "balancerDepositBalWeth", "balancerLensVeBalBal",
             "balancerGaugeStaker"} |-> "bal"]
  @@ [d \in {"agEurAngleUniswapPCVDeposit", "agEurDepositWrapper", "agEurUniswapPCVDeposit",
             "uniswapLensAgEurUniswapGauge"} |-> "agEUR"]
  @@ [d \in {"voltDepositWrapper"} |-> "volt"]

Price(token, oracle) ==
  [ByAdmin("collateralizationOracle") EXCEPT !.knows = {token, oracle}, !.adds = {Priced(token)}]
Prices(tokens, oracles) ==
  [ByAdmin("collateralizationOracle") EXCEPT !.knows = tokens \cup oracles,
                                             !.adds = {Priced(t) : t \in tokens}]
Count(deposits) ==
  [ByAdmin("collateralizationOracle") EXCEPT
     !.knows = deposits,
     !.needs = {Priced(ReportedIn[d]) : d \in deposits \cap DOMAIN ReportedIn},
     !.bars = {Counted(d) : d \in deposits}, !.adds = {Counted(d) : d \in deposits}]
Uncount(deposits) ==
  [ByAdmin("collateralizationOracle") EXCEPT
     !.knows = deposits, !.needs = {Counted(d) : d \in deposits},
     !.removes = {Counted(d) : d \in deposits}]
CountInstead(old, new) ==
  [ByAdmin("collateralizationOracle") EXCEPT
     !.knows = {old, new}, !.needs = {Counted(old)} \cup Count({new}).needs, !.bars = {Counted(new)},
     !.removes = {Counted(old)}, !.adds = {Counted(new)}]

\* TribalChief numbers its pools as they are added; a new one has points.
AddPool(points, token) ==
  [ByAdmin("tribalChief") EXCEPT !.knows = {token}, !.special = "addPool",
     !.adds = {<<"new", token, points>>}]
SetPool(pid, points) ==
  [ByAdmin("tribalChief") EXCEPT !.clears = {<<"points", pid>>}, !.special = "setPool",
                                 !.adds = {Points(pid, points)}]
\* StakingTokenWrapper.init: the pool that is named must stake this token.
InitStake(wrapper, pid) ==
  [Call(wrapper) EXCEPT !.needs = {Pool(pid, wrapper)}, !.bars = {Stakes(wrapper, pid)}
                            \cup Running({"tribalChief"}), !.adds = {Stakes(wrapper, pid)}]
\* NamedStaticPCVDepositWrapper.removeDeposit: by position; the description of
\* the command says which entry it takes to be there.
RemoveEntry(index, meant) ==
  [ByAdmin("namedStaticPCVDepositWrapper") EXCEPT !.roles = {Governor, Guardian},
     !.special = "removeEntry", !.adds = {Entry(index, meant)}]

----------------------------------------------------------------------------
(* Timelocks and the TRIBE minter: their owner is the one that may change it. *)

OwnerChanges(contract, office, new) ==
  [By({office}, contract) EXCEPT !.knows = {new}, !.clears = {<<"holds", office>>},
                                 !.adds = {Holds(office, new)}]
PendingOffice(timelock) == timelock \o " pending admin"
SetPendingAdmin(timelock, who) == [OwnerChanges(timelock, PendingOffice(timelock), who)
                                     EXCEPT !.roles = {timelock \o " itself"}]
AcceptAdmin(timelock) ==
  [By({PendingOffice(timelock)}, timelock) EXCEPT
     !.clears = {<<"holds", PendingOffice(timelock)>>, <<"holds", timelock \o " admin">>},
     !.claims = {timelock \o " admin"}]

\* Fuse: what its own admin does, and how the office changes hands.
Administer(contract, names) == [By({contract \o " admin"}, contract) EXCEPT !.knows = names]
Nominate(contract, who) ==
  [OwnerChanges(contract, PendingOffice(contract), who) EXCEPT !.roles = {contract \o " admin"}]
AcceptFor(who, contract) ==
  [Call(who) EXCEPT
     !.knows = {contract}, !.needs = {Holds(PendingOffice(contract), who)},
     !.clears = {<<"holds", PendingOffice(contract)>>, <<"holds", contract \o " admin">>},
     !.adds = {Holds(contract \o " admin", who)}]
Market(admin, at, names) ==
  [ByAdmin(admin) EXCEPT !.knows = {at} \cup names, !.needs = {Holds(at \o " admin", admin)}]

----------------------------------------------------------------------------
(* An upgrade: what is deployed before it is proposed, its commands, and what  *)
(* its setup and its validation assert before and after.                       *)

New(name, needs) == [name |-> name, needs |-> needs, born |-> {}, copies |-> {}]
\* A constructor that gives roles an admin or fills a list.
Born(name, needs, born) == [New(name, needs) EXCEPT !.born = born]
\* A guardian that is given the safe addresses of another.
CopyOf(name, needs, guardian) == [New(name, needs) EXCEPT !.copies = {guardian}]
Copied(w, d) == {Safe(d.name, f[3]) : f \in {g \in OfKind(w, "safe") : g[2] \in d.copies}}

Checks(holds, absent) == [holds |-> holds, absent |-> absent]
Pass(w, checks) == checks.holds \subseteq w /\ checks.absent \cap w = {}

Upgrade(name, by, deploys, commands, before, validate) ==
  [name |-> name, by |-> by, deploys |-> deploys, commands |-> commands,
   before |-> before, validate |-> validate]

----------------------------------------------------------------------------
(* Executing a command. *)

Cleared(w, c) == {f \in w : <<f[1], f[2]>> \in c.clears}
Size(w, kind) == Cardinality(OfKind(w, kind))

\* Who may call: a holder of one of the roles, or of the admin role of an object.
MayCall(w, who, c) ==
  \/ c.roles \cup c.under = {}
  \/ \E r \in c.roles : Has(w, r, who)
  \/ \E f \in OfKind(w, "admin") : f[2] \in c.under /\ Has(w, f[3], who)

\* The call does not revert.
Succeeds(w, who, c) ==
  /\ MayCall(w, who, c)
  /\ c.needs \subseteq w
  /\ c.bars \cap w = {}
  /\ c.lifts \cap w # {} => Has(w, Guardian, c.on) \/ Has(w, Governor, c.on)
  /\ c.special = "addPool" => \A f \in c.adds : f[3] > 0
  /\ c.special = "setPool" => Cleared(w, c) # {}
  /\ c.special = "removeEntry" => \A f \in c.adds : f[2] < Size(w, "entry")

\* What a command puts in, where that depends on the chain.
Effect(w, c) ==
  CASE c.special = "addPool" ->
         UNION {{Pool(Size(w, "pool"), f[2]), Points(Size(w, "pool"), f[3])} : f \in c.adds}
    [] c.special = "removeEntry" ->
         LET last == Size(w, "entry") - 1
         IN {Entry(f[2], g[3]) : f \in {h \in c.adds : h[2] # last},
                                 g \in {h \in OfKind(w, "entry") : h[2] = last}}
    [] OTHER -> c.adds

\* Faulty: what is set stands beside what there was.
GoneButCleared(w, c) ==
  c.removes \cup c.lifts \cup
    {f \in OfKind(w, "entry") : /\ c.special = "removeEntry"
                                /\ \/ f[2] = Size(w, "entry") - 1
                                   \/ \E g \in c.adds : g[2] = f[2]}

\* The last entry takes the place of the one that is removed.
Gone(w, c) ==
  c.removes \cup c.lifts \cup Cleared(w, c) \cup
    {f \in OfKind(w, "entry") : /\ c.special = "removeEntry"
                                /\ \/ f[2] = Size(w, "entry") - 1
                                   \/ \E g \in c.adds : g[2] = f[2]}

After(w, who, c) == (w \ Gone(w, c)) \cup Effect(w, c) \cup {Holds(r, who) : r \in c.claims}
=============================================================================
