------------------------------- MODULE Replay --------------------------------
(* How an upgrade of the protocol comes about, one after the other: contracts  *)
(* are deployed, the commands are proposed to the DAO or scheduled in the      *)
(* timelock of a pod, they wait, are executed in one transaction, and the      *)
(* result is validated.  TestEndtoEndCoordinator does it on a fork of the      *)
(* chain, for every proposal of proposalsConfig; the same files, contracts and *)
(* calls make the upgrade on the chain, where the guardian can act between two *)
(* transactions.  An upgrade of the DAO or of the council may also be          *)
(* rehearsed in DEBUG mode, command by command, from the timelock's address.   *)
EXTENDS Commands, ProtocolConfig, AddressBook

CONSTANTS Upgrades,   \* the upgrades, in order
          Genesis,    \* the facts of the chain before the first
          Meanwhile,  \* what happens to the chain just before some of them
          Names,      \* the names that have an address at first
          MaxActs     \* how often the guardian acts

ASSUME UpgradesAssumption == Upgrades # <<>> /\ MaxActs \in Nat

VARIABLES world,      \* the facts of the chain, as of the last transaction
          work,       \* the same within the transaction that is executed
          deployed,   \* the names that the upgrades have deployed
          next,       \* the number of the upgrade
          upgrade,    \* the upgrade itself
          stage,      \* what the coordinator is at
          pc,         \* contracts deployed, or commands executed, in this stage
          executor,   \* who executes the commands
          operation,  \* "unset", "waiting", "ready" or "done"
          mode,       \* how the upgrade is made: "batch", or "steps" in DEBUG mode
          acts,       \* how often the guardian has acted
          failure     \* why the coordinator has thrown

chain == <<world, work>>
vars == <<world, work, deployed, next, upgrade, stage, pc, executor, operation, mode, acts, failure>>

Stages == {"load", "deploy", "propose", "wait", "execute", "validate", "access", "done", "failed"}

----------------------------------------------------------------------------
(* The upgrade at hand. *)

Known == Names \cup deployed

\* The category of a proposal: there are DEBUG and DEBUG_TC.
Modes(u) == {"batch"} \cup {m \in {"steps"} : u.by \in {"dao", "tribalCouncilTimelock"}}
Stepwise == mode = "steps"
FromDao == upgrade.by = "dao"

\* The DAO has its proposals executed by the timelock it names; in DEBUG mode
\* the signer is always the DAO's usual timelock.
Signer ==
  CASE Stepwise /\ FromDao -> "feiDAOTimelock"
    [] ~Stepwise /\ FromDao -> (CHOOSE f \in OfKind(world, "holds") : f[2] = "feiDAO executor")[3]
    [] OTHER -> upgrade.by

\* The roles that sudo gives to the account that deploys, and a test takes back.
Deployer == "accounts[0]"
DeployerRoles == <<"MINTER_ROLE", "BURNER_ROLE", "PCV_CONTROLLER_ROLE", "GOVERN_ROLE">>
\* Faulty: one role stays.
RevokeAllButBurner ==
  <<GovernorRevokes("MINTER_ROLE", Deployer), GovernorRevokes(Mover, Deployer),
    GovernorRevokes(Governor, Deployer)>>
RevokeFromDeployer == [i \in DOMAIN DeployerRoles |-> GovernorRevokes(DeployerRoles[i], Deployer)]

----------------------------------------------------------------------------
(* What each stage asks for: the coordinator throws where it is not so. *)

MoreContracts == stage = "deploy" /\ pc < Len(upgrade.deploys)
NextContract == upgrade.deploys[pc + 1]
NamesResolve(names) == names \subseteq Known

\* The chain when the upgrade is set up.
Prepared ==
  world \cup (IF upgrade.name \in DOMAIN Meanwhile THEN Meanwhile[upgrade.name] ELSE {})

\* AlphaProposalBuilder takes no more actions than these.
MostActions == 50
\* The commands of the upgrade can be encoded; the pod registers its proposal.
Proposable ==
  /\ NamesResolve(UNION {{upgrade.commands[i].on} \cup upgrade.commands[i].knows :
                           i \in DOMAIN upgrade.commands})
  /\ FromDao /\ ~Stepwise => Len(upgrade.commands) <= MostActions
  /\ upgrade.by = "tribalCouncilTimelock" /\ ~Stepwise =>
       Has(world, "POD_METADATA_REGISTER_ROLE", "tribalCouncilSafe")

\* A timelock executes what is ready, that of the DAO unless it is paused, and
\* DEBUG mode whatever comes.
Executable ==
  \/ Stepwise
  \/ operation = "ready" /\ (FromDao => Paused(executor, "all") \notin work)
MoreCommands == stage = "execute" /\ Executable /\ pc < Len(upgrade.commands)
NextCommand == upgrade.commands[pc + 1]
NextSucceeds == Succeeds(work, executor, NextCommand)

MoreRevocations == stage = "access" /\ pc < Len(RevokeFromDeployer)
RevocationSucceeds == Succeeds(world, Deployer, RevokeFromDeployer[pc + 1])

----------------------------------------------------------------------------
Init ==
  /\ world = Genesis /\ work = Genesis /\ deployed = {}
  /\ next = 1 /\ upgrade = Upgrades[1] /\ stage = "load" /\ pc = 0
  /\ executor = "nobody" /\ operation = "unset"
  /\ mode \in Modes(upgrade)
  /\ acts = 0 /\ failure = "none"

\* A transaction of its own; what it leaves is what the next one finds.
Transacts(w) == world' = w /\ work' = w

\* loadEnvironment: sudo gives the deployer its roles.
Load ==
  /\ stage = "load" /\ Has(world, Governor, "feiDAOTimelock")
  /\ Transacts(world \cup {Holds(DeployerRoles[i], Deployer) : i \in DOMAIN DeployerRoles})
  /\ stage' = "deploy"
  /\ UNCHANGED <<deployed, next, upgrade, pc, executor, operation, mode, acts, failure>>

\* One contract of the upgrade.
Deploy ==
  /\ MoreContracts /\ NamesResolve(NextContract.needs)
  /\ Transacts(world \cup NextContract.born \cup Copied(world, NextContract))
  /\ deployed' = deployed \cup {NextContract.name}
  /\ pc' = pc + 1
  /\ UNCHANGED <<next, upgrade, stage, executor, operation, mode, acts, failure>>

Setup ==
  /\ stage = "deploy" /\ ~MoreContracts /\ Pass(Prepared, upgrade.before)
  /\ Transacts(Prepared)
  /\ stage' = "propose" /\ pc' = 0
  /\ UNCHANGED <<deployed, next, upgrade, executor, operation, mode, acts, failure>>

\* constructProposal and simulatePodProposal encode the commands and submit
\* them; DEBUG mode goes on to execute them.
Propose ==
  /\ stage = "propose" /\ Proposable
  /\ executor' = Signer
  /\ operation' = IF Stepwise THEN "unset" ELSE "waiting"
  /\ stage' = IF Stepwise THEN "execute" ELSE "wait"
  /\ UNCHANGED <<chain, deployed, next, upgrade, pc, mode, acts, failure>>

\* Faulty: for an operation that is cancelled, the wait has no end.
WaitForQueued ==
  /\ stage = "wait" /\ operation = "waiting"
  /\ operation' = "ready" /\ stage' = "execute"
  /\ UNCHANGED <<chain, deployed, next, upgrade, pc, executor, mode, acts, failure>>

\* The delay of the timelock goes by, for the DAO after the vote.
Wait ==
  /\ stage = "wait"
  /\ operation' = IF operation = "waiting" THEN "ready" ELSE operation
  /\ stage' = "execute"
  /\ UNCHANGED <<chain, deployed, next, upgrade, pc, executor, mode, acts, failure>>

\* Faulty: every command is a transaction of its own.
CommittedAtOnce(w) == w

\* What the rest of the world sees while a transaction is executed.
Committed(w) == IF Stepwise THEN w ELSE world

ExecuteCommand ==
  /\ MoreCommands /\ NextSucceeds
  /\ work' = After(work, executor, NextCommand)
  /\ world' = Committed(work')
  /\ pc' = pc + 1
  /\ UNCHANGED <<deployed, next, upgrade, stage, executor, operation, mode, acts, failure>>

Commit ==
  /\ stage = "execute" /\ Executable /\ ~MoreCommands
  /\ Transacts(work)
  /\ operation' = "done" /\ stage' = "validate" /\ pc' = 0
  /\ UNCHANGED <<deployed, next, upgrade, executor, mode, acts, failure>>

\* simulatePodProposal goes on without an operation that was cancelled.
NotReady ==
  /\ stage = "execute" /\ ~Executable /\ ~FromDao
  /\ stage' = "validate"
  /\ UNCHANGED <<chain, deployed, next, upgrade, pc, executor, operation, mode, acts, failure>>

Validate ==
  /\ stage = "validate" /\ Pass(world, upgrade.validate)
  /\ operation' = "unset"
  /\ IF next < Len(Upgrades)
     THEN /\ next' = next + 1 /\ upgrade' = Upgrades[next'] /\ stage' = "deploy"
          /\ mode' \in Modes(upgrade')
     ELSE stage' = "access" /\ UNCHANGED <<next, upgrade, mode>>
  /\ UNCHANGED <<chain, deployed, pc, executor, acts, failure>>

\* The test of the access control takes the roles of the deployer first.
RevokeDeployAddressPermission ==
  /\ MoreRevocations /\ RevocationSucceeds
  /\ Transacts(After(world, Deployer, RevokeFromDeployer[pc + 1]))
  /\ pc' = pc + 1
  /\ stage' = IF pc' = Len(RevokeFromDeployer) THEN "done" ELSE stage
  /\ UNCHANGED <<deployed, next, upgrade, executor, operation, mode, acts, failure>>

\* What makes the coordinator throw: a name without an address, a transaction
\* that reverts (of the DAO also when its proposal was vetoed), or a check.
NameUnknown ==
  \/ MoreContracts /\ ~NamesResolve(NextContract.needs)
  \/ stage = "propose" /\ ~Proposable
CallReverts ==
  \/ stage = "load" /\ ~Has(world, Governor, "feiDAOTimelock")
  \/ MoreCommands /\ ~NextSucceeds
  \/ stage = "execute" /\ ~Executable /\ FromDao
  \/ MoreRevocations /\ ~RevocationSucceeds
CheckFails ==
  \/ stage = "deploy" /\ ~MoreContracts /\ ~Pass(Prepared, upgrade.before)
  \/ stage = "validate" /\ ~Pass(world, upgrade.validate)
Trouble ==
  CASE NameUnknown -> "name" [] CallReverts -> "revert" [] CheckFails -> "validation"
    [] OTHER -> "none"

\* An error ends the run; the transaction it happened in has no effect.
Throw ==
  /\ Trouble # "none"
  /\ failure' = Trouble /\ stage' = "failed" /\ work' = world
  /\ UNCHANGED <<world, deployed, next, upgrade, pc, executor, operation, mode, acts>>

----------------------------------------------------------------------------
(* The guardian of Core, on the chain and between two transactions. *)

\* Permissions.revokeOverride: Core revokes, as a governor.
RevokeOverride(role, who) ==
  [By({Guardian}, "core") EXCEPT
     !.needs = {AdminOf(role, Governor), Holds(Governor, "core")}, !.removes = {Holds(role, who)}]

\* The roles through which the command lets its caller pass.
Passes(c) == c.roles \cup {f[3] : f \in {g \in OfKind(world, "admin") : g[2] \in c.under}}

\* What it may do against a fact that a command needs, for one that bars it, and
\* against the role of the timelock that makes the call.
Acts(c) ==
  {UnsetSafe(f[2], {f[3]}) : f \in OfKind(c.needs, "safe")}
  \cup {RevokeOverride(f[2], f[3]) : f \in {g \in OfKind(c.needs, "holds") : g[2] # Governor}}
  \cup {RevokeOverride(role, Signer) : role \in Passes(c) \ {Governor}}
  \cup {PausePart(f[2], f[3]) : f \in OfKind(c.bars, "paused")}

\* FeiDAOTimelock, unlike the other timelocks, does nothing while it is paused.
Interventions ==
  {Pause(who) : who \in {Signer} \cap {"feiDAOTimelock"}}
  \cup UNION {Acts(upgrade.commands[i]) : i \in DOMAIN upgrade.commands}

MayAct ==
  /\ mode = "batch" /\ acts < MaxActs
  /\ stage \in {"deploy", "propose", "wait", "execute", "validate"}
  /\ stage = "execute" => pc = 0

GuardianActs ==
  /\ MayAct
  /\ \E c \in Interventions :
       /\ NamesResolve({c.on}) /\ Succeeds(world, "guardianMultisig", c)
       /\ Transacts(After(world, "guardianMultisig", c))
  /\ acts' = acts + 1
  /\ UNCHANGED <<deployed, next, upgrade, stage, pc, executor, operation, mode, failure>>

\* PodAdminGateway.veto, the veto of the timelock of the DAO, or, once the guardian
\* has made itself its admin and a proposer, the cancel of an OptimisticTimelock.
Veto ==
  /\ MayAct /\ operation \in {"waiting", "ready"}
  /\ Has(world, Guardian, "guardianMultisig")
  /\ \/ executor \in {"feiDAOTimelock", "optimisticTimelock"}
     \/ Has(world, executor \o " CANCELLER_ROLE", "podAdminGateway")
  /\ operation' = "unset" /\ acts' = acts + 1
  /\ UNCHANGED <<chain, deployed, next, upgrade, stage, pc, executor, mode, failure>>

Coordinator ==
  \/ Load \/ Deploy \/ Setup \/ Propose \/ Wait \/ ExecuteCommand \/ Commit \/ NotReady
  \/ Validate \/ RevokeDeployAddressPermission \/ Throw

Next == Coordinator \/ GuardianActs \/ Veto

\* The coordinator awaits one step after the other until it returns or throws.
Spec == Init /\ [][Next]_vars /\ WF_vars(Coordinator)

----------------------------------------------------------------------------
(* Properties. *)

\* The offices that one address holds at a time.
Offices == {"feiDAO executor", "tribe minter", "proxyAdmin owner", "timelock admin",
            "timelock pending admin", "rariTimelock admin", "rariPool8Comptroller admin",
            "rariPool8MasterOracle admin"}

\* The facts of which an object has one, and those that are numbered.
Single(f) == f[1] = "admin" \/ (f[1] = "holds" /\ f[2] \in Offices)
NumberedKinds == {"pool", "points", "entry"}

Functional(facts) == \A f, g \in facts : f[1] = g[1] /\ f[2] = g[2] => f = g
Numbered(facts) == {f[2] : f \in facts} = 0..Cardinality(facts) - 1

\* The facts are a chain: an object has one admin role, an office one holder,
\* the pools, their points and the named deposits are numbered without a gap.
Chain(w) ==
  /\ IsFiniteSet(w)
  /\ Functional({f \in w : Single(f)})
  /\ \A kind \in NumberedKinds : Functional(OfKind(w, kind)) /\ Numbered(OfKind(w, kind))
  /\ Size(w, "pool") = Size(w, "points")

\* What happens meanwhile fits the chain.
MeanwhileFits == stage = "deploy" /\ ~MoreContracts => Chain(Prepared)

TypeOK ==
  /\ Chain(work)
  /\ deployed \cap Names = {} /\ next \in 1..Len(Upgrades) /\ stage \in Stages
  /\ operation \in {"unset", "waiting", "ready", "done"} /\ acts \in 0..MaxActs
  /\ (failure # "none") = (stage = "failed")

\* The effects of the commands of a proposal, as far as such facts go: what there
\* is one of is cleared before it is set, a pool is added, pointed or an entry
\* removed by a command of its own.
Orderly(c) ==
  /\ IsFiniteSet(c.adds) /\ IsFiniteSet(c.claims)
  /\ Functional({f \in c.adds : Single(f)})
  /\ \A f \in c.adds : Single(f) => <<f[1], f[2]>> \in c.clears
  /\ \A role \in c.claims \cap Offices :
       <<"holds", role>> \in c.clears /\ \A f \in c.adds : <<f[1], f[2]>> # <<"holds", role>>
  /\ \A f \in c.removes \cup c.lifts : f[1] \notin NumberedKinds
  /\ \/ c.special = "none" /\ \A f \in c.adds \cup c.clears : f[1] \notin NumberedKinds
     \/ c.special = "addPool" /\ c.clears = {} /\ \E f \in c.adds : c.adds = {f}
     \/ /\ c.special = "setPool"
        /\ \E f \in c.adds : c.adds = {Points(f[2], f[3])} /\ c.clears = {<<"points", f[2]>>}
     \/ /\ c.special = "removeEntry" /\ c.clears = {}
        /\ \E f \in c.adds : c.adds = {f} /\ f[2] \in Nat
\* What is born with a contract is not on the chain before: it has its admin role
\* and its list of entries from the constructor.
Rivals(f, g) == f[1] = g[1] /\ (f[1] \in NumberedKinds \/ (Single(f) /\ f[2] = g[2]))
Brings(c) == c.adds \cup {Holds(role, "") : role \in c.claims}
NotAmong(born, facts) == \A f \in born : \A g \in facts : ~Rivals(f, g)
NewlyBorn(n, i) ==
  LET contract == Upgrades[n].deploys[i]
  IN /\ contract.name \notin Names
     /\ Chain(contract.born) /\ \A f \in contract.born : f[1] \notin {"pool", "points"}
     /\ NotAmong(contract.born, Genesis)
     /\ \A name \in DOMAIN Meanwhile : NotAmong(contract.born, Meanwhile[name])
     /\ \A m \in DOMAIN Upgrades :
          /\ \A j \in 1..Len(Upgrades[m].deploys) :
               <<m, j>> # <<n, i>> => NotAmong(contract.born, Upgrades[m].deploys[j].born)
          /\ m < n => \A j \in 1..Len(Upgrades[m].commands) :
                        NotAmong(contract.born, Brings(Upgrades[m].commands[j]))
OrderlyUpgrades ==
  /\ Chain(Genesis) /\ Len(Upgrades) \in Nat \ {0} /\ DOMAIN Upgrades = 1..Len(Upgrades)
  /\ \A n \in DOMAIN Upgrades :
       LET commands == Upgrades[n].commands
       IN /\ {Len(commands), Len(Upgrades[n].deploys)} \subseteq Nat
          /\ \A i \in 1..Len(commands) : Orderly(commands[i])
          /\ \A i \in 1..Len(Upgrades[n].deploys) : NewlyBorn(n, i)

\* RemoveEntry removes by position: what stands there is what the description
\* of the command names, although the commands before it move entries about.
RemovalsHitTheirTarget ==
  MoreCommands /\ NextCommand.special = "removeEntry" =>
    \A f \in NextCommand.adds : f \in work

\* description/old/fip_82b.ts:424-463: of all upgrades it alone gives the role to the new guardian,
\* and none gives it to the old one from then on; nothing is born with it.
OldHolds == Holds(Mover, "pcvGuardianV1")
NewHolds == Holds(Mover, "pcvGuardian")
Gives(c, f) == f \in c.adds \/ f[2] \in c.claims
HandsOver(h) ==
  /\ h \in DOMAIN Upgrades /\ NewHolds \notin Genesis
  /\ \A name \in DOMAIN Meanwhile : {OldHolds, NewHolds} \cap Meanwhile[name] = {}
  /\ Len(Upgrades) \in Nat /\ DOMAIN Upgrades = 1..Len(Upgrades)
  /\ \A n \in DOMAIN Upgrades :
       LET commands == Upgrades[n].commands
       IN /\ {Len(commands), Len(Upgrades[n].deploys)} \subseteq Nat
          /\ \A i \in 1..Len(Upgrades[n].deploys) :
               {OldHolds, NewHolds} \cap Upgrades[n].deploys[i].born = {}
          /\ \A i \in 1..Len(commands) :
               /\ Gives(commands[i], NewHolds) => n = h
               /\ Gives(commands[i], OldHolds) => n < h
          /\ n = h => \E i \in 1..Len(commands) : OldHolds \in commands[i].removes

\* On the chain, between transactions, at most one of the two PCV guardians
\* moves protocol controlled value: fip_82b hands the role over in one, unless
\* it is rehearsed command by command.
OneGuardianContract ==
  mode = "batch" => ~(Has(world, Mover, "pcvGuardianV1") /\ Has(world, Mover, "pcvGuardian"))

Counts == {f[3] : f \in OfKind(world, "counted")}
Holders(role) == {f[3] : f \in {g \in OfKind(world, "holds") : g[2] = role}}

\* description/tip_117.ts:292-308 takes these from the safe addresses, which
\* safeAddresses.ts still lists.
UnsetLast ==
  {"raiPriceBoundPSM", "aaveRaiPCVDeposit", "rariPool9RaiPCVDeposit", "balancerDepositFeiWeth",
   "d3poolConvexPCVDeposit", "d3poolCurvePCVDeposit", "compoundEthPCVDeposit"}

\* Once everything was executed and the deployer has given up its roles, the
\* chain is what the configuration says: the holders of every role, the counted
\* deposits, the pools and their points.  The safe addresses of the guardian are
\* those listed but for the last seven to be unset, and nothing that is
\* deprecated has a role or is counted.
MatchesConfig ==
  stage = "done" /\ acts = 0 =>
    /\ \A role \in DOMAIN permissions : Holders(role) = permissions[role]
    /\ Counts = UNION {collateralizationAddresses[t] : t \in DOMAIN collateralizationAddresses}
    /\ OfKind(world, "pool") = {Pool(pid, config[pid + 1]) : pid \in DOMAIN allocPoint}
    /\ OfKind(world, "points") = {Points(pid, allocPoint[pid]) : pid \in DOMAIN allocPoint}
    /\ {f[3] : f \in {g \in OfKind(world, "safe") : g[2] = "pcvGuardian"}}
         = safeAddressesConfig \ UnsetLast
    /\ Retired \cap (Counts \cup UNION {Holders(role) : role \in DOMAIN permissions}) = {}

\* The coordinator comes to its end or throws: no step waits for ever, whatever
\* the guardian does.
Completes == <>(stage \in {"done", "failed"})

\* The DAO's executor loses GOVERN_ROLE when fip_84a names the previous
\* timelock: the DAO gets an executor with the role again, unless the guardian
\* stopped an upgrade or a rehearsal in DEBUG mode, which signs as the usual
\* timelock, ended in between.
DaoGoverns == \E f \in OfKind(world, "holds") : f[2] = "feiDAO executor" /\ Has(world, Governor, f[3])
DaoRegains == ~DaoGoverns ~> (DaoGoverns \/ (stage = "failed" /\ (acts > 0 \/ Stepwise)))
=============================================================================
