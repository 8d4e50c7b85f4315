--------------------------- MODULE PermissionsProofs ---------------------------
(***************************************************************************)
(* For every set of accounts and roles: a role that was not created has no *)
(* holder, and what governors manage is decided by governors.  The first   *)
(* is inductive together with the types, given that bytes32(0) itself is   *)
(* never created.                                                          *)
(*                                                                         *)
(* For every list of upgrades that change roles: a role that an upgrade    *)
(* hands over is not held by both contracts between two transactions, and  *)
(* the chain keeps one holder for every office, one admin for every role   *)
(* and its lists without a gap.                                            *)
(***************************************************************************)
EXTENDS Permissions, Replay, Integers, FiniteSetTheorems, TLAPS

IInv ==
  /\ RolesTypeOK
  /\ roleAdmin[NoRole] = NoRole
  /\ UncreatedUnheld

(* The roles and the accounts that the module names are among them. *)
LEMMA RoleNames ==
  /\ {GOVERN_ROLE, GUARDIAN_ROLE, ROLE_ADMIN, NoRole} \subseteq Role
  /\ NoRole \notin {GOVERN_ROLE, ROLE_ADMIN}
  /\ \A role \in Role : Grantee(role) \subseteq Account
  /\ NewRole \cup NewAdmin \subseteq Role \ {NoRole}
BY RoleAssumption DEF Role, Account, Grantee

(* What a step does to the roles: one changes its holders, by an account   *)
(* that can manage it or one that leaves it, or one gets another admin.    *)
LEMMA StepKinds ==
  ASSUME RolesTypeOK, NEW caller \in User, Step(caller)
  PROVE  \/ /\ UNCHANGED roleAdmin
            /\ \E role \in Role, a \in Account :
                 /\ \/ CanManage(caller, role)
                    \/ role # GOVERN_ROLE /\ CanManage(core, role)
                         /\ members'[role] \subseteq members[role]
                 /\ members' \in {[members EXCEPT ![role] = @ \cup {a}],
                                  [members EXCEPT ![role] = @ \ {a}]}
         \/ /\ UNCHANGED roleAdmin
            /\ \E role \in Role : members' = [members EXCEPT ![role] = @ \ {caller}]
         \/ /\ UNCHANGED members
            /\ \E role, adminRole \in Role \ {NoRole} :
                 /\ roleAdmin' = [roleAdmin EXCEPT ![role] = adminRole]
                 /\ isGovernor(caller) \/ roleAdmin[role] = NoRole
         \/ UNCHANGED <<members, roleAdmin>>
<1> USE RoleNames
<1>1. CASE \E role \in Role : \E a \in Grantee(role) :
             \/ grantRole(caller, role, a)
             \/ revokeRole(caller, role, a)
             \/ role \in MajorRole /\ GrantMajor(caller, role, a)
             \/ role \in MajorRole /\ RevokeMajor(caller, role, a)
  BY <1>1 DEF grantRole, revokeRole, GrantMajor, RevokeMajor
<1>2. CASE \E role \in Role : \E a \in Grantee(role) : revokeOverride(caller, role, a)
  <2>1. PICK role \in Role, a \in Account : revokeOverride(caller, role, a)
    BY <1>2
  <2>2. /\ role # GOVERN_ROLE /\ CanManage(core, role) /\ UNCHANGED roleAdmin
        /\ members' = [members EXCEPT ![role] = @ \ {a}]
    BY <2>1 DEF revokeOverride, revokeRole
  <2>3. members'[role] \subseteq members[role]
    BY <2>2 DEF RolesTypeOK
  <2> QED
    BY <2>2, <2>3
<1>3. CASE \E role \in Role : renounceRole(caller, role)
  BY <1>3 DEF renounceRole
<1>4. CASE \E role \in Role : BastionCreateRole(caller, role)
  BY <1>4 DEF BastionCreateRole, createRole
<1>5. CASE \E role \in NewRole, adminRole \in NewAdmin : createRole(caller, role, adminRole)
  BY <1>5 DEF createRole
<1>6. CASE PauseBastion(caller)
  BY <1>6 DEF PauseBastion
<1> QED
  BY <1>1, <1>2, <1>3, <1>4, <1>5, <1>6 DEF Step

LEMMA InitInvariant == RolesInit => IInv
<1> SUFFICES ASSUME RolesInit PROVE IInv
  OBVIOUS
<1>1. RolesTypeOK
  BY RoleNames, RoleAssumption DEF RolesInit, RolesTypeOK, Role, Account
<1>2. roleAdmin[NoRole] = NoRole
  BY RoleNames, RoleAssumption DEF RolesInit
<1>3. UncreatedUnheld
  BY RoleNames, RoleAssumption DEF RolesInit, UncreatedUnheld
<1> QED
  BY <1>1, <1>2, <1>3 DEF IInv

(* Each transaction keeps the types. *)
LEMMA TypeInvariant ==
  ASSUME RolesTypeOK, NEW caller \in User, Step(caller)
  PROVE  RolesTypeOK'
<1>1. members' \in [Role -> SUBSET Account] /\ roleAdmin' \in [Role -> Role]
  BY StepKinds DEF RolesTypeOK
<1>2. bastionPaused' \in BOOLEAN
  BY DEF Step, grantRole, revokeRole, GrantMajor, RevokeMajor, revokeOverride,
         renounceRole, BastionCreateRole, createRole, PauseBastion, RolesTypeOK
<1> QED
  BY <1>1, <1>2 DEF RolesTypeOK

LEMMA NextInvariant ==
  ASSUME IInv, [RolesNext]_roleVars
  PROVE  IInv'
<1>1. CASE UNCHANGED roleVars
  BY <1>1 DEF roleVars, IInv, RolesTypeOK, UncreatedUnheld
<1>2. ASSUME NEW caller \in User, Step(caller)
      PROVE  IInv'
  <2> USE RoleNames
  <2>1. RolesTypeOK /\ RolesTypeOK'
    BY <1>2, TypeInvariant DEF IInv
  <2>2. members[NoRole] = {} /\ \A a : ~(a \in members[NoRole])
    BY DEF IInv, UncreatedUnheld
  <2>3. ASSUME NEW role \in Role, NEW a \in Account, UNCHANGED roleAdmin,
               \/ CanManage(caller, role)
               \/ CanManage(core, role),
               members' \in {[members EXCEPT ![role] = @ \cup {a}],
                             [members EXCEPT ![role] = @ \ {a}]}
        PROVE  IInv'
    <3>1. roleAdmin[role] # NoRole
      BY <2>2, <2>3 DEF CanManage
    <3>2. \A r \in Role \ {role} : members'[r] = members[r]
      BY <2>1, <2>3 DEF RolesTypeOK
    <3> QED
      BY <2>1, <2>3, <3>1, <3>2 DEF IInv, UncreatedUnheld
  <2>4. ASSUME NEW role \in Role, UNCHANGED roleAdmin,
               members' = [members EXCEPT ![role] = @ \ {caller}]
        PROVE  IInv'
    BY <2>1, <2>4 DEF IInv, UncreatedUnheld, RolesTypeOK
  <2>5. ASSUME NEW role \in Role \ {NoRole}, NEW adminRole \in Role \ {NoRole},
               UNCHANGED members, roleAdmin' = [roleAdmin EXCEPT ![role] = adminRole]
        PROVE  IInv'
    BY <2>1, <2>5 DEF IInv, UncreatedUnheld, RolesTypeOK
  <2>6. CASE UNCHANGED <<members, roleAdmin>>
    BY <2>1, <2>6 DEF IInv, UncreatedUnheld
  <2> QED
    BY <1>2, <2>1, <2>3, <2>4, <2>5, <2>6, StepKinds
<1> QED
  BY <1>1, <1>2 DEF RolesNext

THEOREM Invariance == RolesSpec => []IInv
<1>1. IInv /\ [RolesNext]_roleVars => IInv'
  BY NextInvariant
<1> QED
  BY <1>1, InitInvariant, PTL DEF RolesSpec

(* RoleBastion.sol:22-29.  bytes32(0), the admin of every role that was not   *)
(* created, is never held, nor is any role before it is created.               *)
THEOREM RolesAreCreatedFirst == RolesSpec => []UncreatedUnheld
<1>1. IInv => UncreatedUnheld
  BY DEF IInv
<1> QED
  BY <1>1, Invariance, PTL

(* Permissions.sol:108-113, RoleBastion.sol:22-29.  The powers that guardians *)
(* and role admins borrow from Core and the bastion give neither a role that   *)
(* governors manage nor its management, and take no governor's role away.      *)
THEOREM GovernorsDecideAlways == RolesSpec => GovernorsDecide
<1> DEFINE Decides(caller) ==
      /\ \A role \in Role : roleAdmin[role] = GOVERN_ROLE =>
           roleAdmin'[role] = GOVERN_ROLE /\ members'[role] \subseteq members[role]
      /\ roleAdmin[GOVERN_ROLE] = GOVERN_ROLE =>
           members[GOVERN_ROLE] \ {caller} \subseteq members'[GOVERN_ROLE]
<1>1. ASSUME RolesTypeOK, NEW caller \in User, Step(caller), ~isGovernor(caller)
      PROVE  Decides(caller)
  <2> USE RoleNames
  <2>1. ASSUME NEW role \in Role, NEW a \in Account, UNCHANGED roleAdmin,
               CanManage(caller, role),
               members' \in {[members EXCEPT ![role] = @ \cup {a}],
                             [members EXCEPT ![role] = @ \ {a}]}
        PROVE  Decides(caller)
    <3>1. roleAdmin[role] # GOVERN_ROLE
      BY <1>1, <2>1 DEF CanManage, isGovernor
    <3>2. \A r \in Role \ {role} : members'[r] = members[r]
      BY <1>1, <2>1 DEF RolesTypeOK
    <3> QED
      BY <2>1, <3>1, <3>2
  <2>2. ASSUME NEW role \in Role, NEW a \in Account, UNCHANGED roleAdmin,
               role # GOVERN_ROLE, members'[role] \subseteq members[role],
               members' \in {[members EXCEPT ![role] = @ \cup {a}],
                             [members EXCEPT ![role] = @ \ {a}]}
        PROVE  Decides(caller)
    <3>1. \A r \in Role \ {role} : members'[r] = members[r]
      BY <1>1, <2>2 DEF RolesTypeOK
    <3> QED
      BY <2>2, <3>1
  <2>3. ASSUME NEW role \in Role, UNCHANGED roleAdmin,
               members' = [members EXCEPT ![role] = @ \ {caller}]
        PROVE  Decides(caller)
    BY <1>1, <2>3 DEF RolesTypeOK
  <2>4. ASSUME NEW role \in Role, NEW adminRole \in Role, UNCHANGED members,
               roleAdmin[role] = NoRole,
               roleAdmin' = [roleAdmin EXCEPT ![role] = adminRole]
        PROVE  Decides(caller)
    <3>1. \A r \in Role \ {role} : roleAdmin'[r] = roleAdmin[r]
      BY <1>1, <2>4 DEF RolesTypeOK
    <3> QED
      BY <2>4, <3>1
  <2>5. CASE UNCHANGED <<members, roleAdmin>>
    BY <2>5
  <2> HIDE DEF Decides
  <2> QED
    BY <1>1, <2>1, <2>2, <2>3, <2>4, <2>5, StepKinds
<1>2. RolesTypeOK =>
        [\A caller \in User : Step(caller) /\ ~isGovernor(caller) => Decides(caller)]_roleVars
  BY <1>1
<1>3. IInv => RolesTypeOK
  BY DEF IInv
<1> QED
  BY <1>2, <1>3, Invariance, PTL DEF GovernorsDecide

----------------------------------------------------------------------------
(* The upgrades. *)

\* The two facts that must not hold together, and what each stage may know of them.
Handing(h) ==
  /\ pc \in Nat /\ next \in DOMAIN Upgrades /\ upgrade = Upgrades[next]
  /\ mode \in {"batch", "steps"}
  /\ stage \in {"propose", "wait"} => pc = 0
  /\ \/ work = world
     \/ mode = "batch" /\ stage = "execute" /\ pc # 0 /\ operation = "ready"
  /\ next < h => NewHolds \notin world \cup work
  /\ next > h => ~({OldHolds, NewHolds} \subseteq work)
  /\ next = h /\ stage = "execute" =>
       \A i \in 1..pc : OldHolds \in upgrade.commands[i].removes => OldHolds \notin work
  /\ (mode = "batch" \/ next # h \/ stage \notin {"execute", "failed"}) =>
       ~({OldHolds, NewHolds} \subseteq world)

LEMMA Differ == OldHolds # NewHolds
BY DEF OldHolds, NewHolds, Holds, Mover

\* What a command puts in is given by it.
LEMMA PutInIsGiven ==
  ASSUME NEW w, NEW who, NEW c, NEW f \in {OldHolds, NewHolds},
         f \in Effect(w, c) \cup {Holds(r, who) : r \in c.claims}
  PROVE  Gives(c, f)
<1>1. f[1] = "holds" /\ f[2] = Mover
  BY DEF OldHolds, NewHolds, Holds
<1>2. CASE f \in Effect(w, c)
  <2>1. CASE c.special = "addPool"
    <3>1. PICK g \in c.adds : f \in {Pool(Size(w, "pool"), g[2]), Points(Size(w, "pool"), g[3])}
      BY <1>2, <2>1 DEF Effect
    <3> QED
      BY <1>1, <3>1 DEF Pool, Points
  <2>2. CASE c.special = "removeEntry"
    <3>1. f \in {Entry(e[2], g[3]) : e \in {e \in c.adds : e[2] # Size(w, "entry") - 1},
                   g \in {g \in OfKind(w, "entry") : g[2] = Size(w, "entry") - 1}}
      BY <1>2, <2>2 DEF Effect
    <3> QED
      BY <1>1, <3>1 DEF Entry
  <2>3. CASE c.special \notin {"addPool", "removeEntry"}
    BY <1>2, <2>3 DEF Effect, Gives
  <2> QED
    BY <2>1, <2>2, <2>3
<1>3. CASE f \in {Holds(r, who) : r \in c.claims}
  <2>1. PICK r \in c.claims : f = Holds(r, who)
    BY <1>3
  <2> QED
    BY <2>1 DEF Holds, Gives
<1> QED
  BY <1>2, <1>3

LEMMA AfterCommand ==
  ASSUME NEW w, NEW who, NEW c, NEW f \in {OldHolds, NewHolds},
         f \in After(w, who, c)
  PROVE  Gives(c, f) \/ (f \in w /\ f \notin c.removes)
BY PutInIsGiven DEF After, Gone

\* A call of the guardian takes a safe address or a role, or pauses something.
LEMMA InterventionKinds ==
  ASSUME NEW c \in Interventions
  PROVE  \/ \E g, a : c = UnsetSafe(g, {a})
         \/ \E r, a : c = RevokeOverride(r, a)
         \/ \E k, p : c = PausePart(k, p)
<1>1. CASE c \in {Pause(who) : who \in {Signer} \cap {"feiDAOTimelock"}}
  BY <1>1 DEF Pause
<1>2. ASSUME NEW i \in DOMAIN upgrade.commands, c \in Acts(upgrade.commands[i])
      PROVE  \/ \E g, a : c = UnsetSafe(g, {a})
             \/ \E r, a : c = RevokeOverride(r, a)
             \/ \E k, p : c = PausePart(k, p)
  <2> DEFINE d == upgrade.commands[i]
  <2>1. CASE c \in {UnsetSafe(f[2], {f[3]}) : f \in OfKind(d.needs, "safe")}
    BY <2>1
  <2>2. CASE c \in {RevokeOverride(f[2], f[3]) :
                      f \in {g \in OfKind(d.needs, "holds") : g[2] # Governor}}
    BY <2>2
  <2>3. CASE c \in {RevokeOverride(role, Signer) : role \in Passes(d) \ {Governor}}
    BY <2>3
  <2>4. CASE c \in {PausePart(f[2], f[3]) : f \in OfKind(d.bars, "paused")}
    BY <2>4
  <2> QED
    BY <1>2, <2>1, <2>2, <2>3, <2>4 DEF Acts
<1> QED
  BY <1>1, <1>2 DEF Interventions

\* Nor does it give the role.
LEMMA GuardianGivesNone ==
  ASSUME NEW c \in Interventions, NEW f \in {OldHolds, NewHolds}
  PROVE  ~Gives(c, f)
<1>1. ASSUME NEW g, NEW a, c = UnsetSafe(g, {a})
      PROVE  ~Gives(c, f)
  BY <1>1 DEF UnsetSafe, By, Call, Gives
<1>2. ASSUME NEW r, NEW a, c = RevokeOverride(r, a)
      PROVE  ~Gives(c, f)
  BY <1>2 DEF RevokeOverride, By, Call, Gives
<1>3. ASSUME NEW k, NEW p, c = PausePart(k, p)
      PROVE  ~Gives(c, f)
  <2>1. c.adds = {Paused(k, p)} /\ c.claims = {}
    BY <1>3 DEF PausePart, By, Call
  <2>2. f # Paused(k, p)
    BY DEF OldHolds, NewHolds, Holds, Paused
  <2> QED
    BY <2>1, <2>2 DEF Gives
<1> QED
  BY <1>1, <1>2, <1>3, InterventionKinds

\* A step that gives neither, and is no part of the commands.
LEMMA TransactionKeeps ==
  ASSUME NEW h, HandsOver(h), Handing(h), UNCHANGED <<next, upgrade, mode>>,
         work' = world', {OldHolds, NewHolds} \cap world' \subseteq world,
         pc' \in Nat, stage' \in {"propose", "wait", "execute"} => pc' = 0,
         mode = "batch" \/ stage \notin {"execute", "failed"} \/ stage' = "failed"
  PROVE  Handing(h)'
<1>1. next \in Nat /\ h \in Nat /\ next \in DOMAIN Upgrades
  BY DEF Handing, HandsOver
<1>2. CASE next < h
  BY <1>1, <1>2 DEF Handing
<1>3. CASE next > h
  <2>1. ~({OldHolds, NewHolds} \subseteq world)
    BY <1>1, <1>3 DEF Handing
  <2> QED
    BY <1>1, <1>3, <2>1 DEF Handing
<1>4. CASE next = h
  <2>1. mode = "batch" \/ stage \notin {"execute", "failed"} =>
          ~({OldHolds, NewHolds} \subseteq world)
    BY DEF Handing
  <2>2. stage' = "execute" => pc' = 0
    OBVIOUS
  <2> QED
    BY <1>1, <1>4, <2>1, <2>2 DEF Handing
<1> QED
  BY <1>1, <1>2, <1>3, <1>4

\* One of the commands: the new guardian has the role in the transaction, the
\* old one not once a command has taken it.
LEMMA CommandKeeps ==
  ASSUME NEW h, HandsOver(h), Handing(h), ExecuteCommand
  PROVE  Handing(h)'
<1> DEFINE c == upgrade.commands[pc + 1]
<1>1. /\ pc \in Nat /\ next \in DOMAIN Upgrades /\ next \in Nat /\ h \in Nat
      /\ upgrade = Upgrades[next]
  BY DEF Handing, HandsOver
<1>2. /\ stage = "execute" /\ pc < Len(upgrade.commands)
      /\ \/ mode = "batch" /\ operation = "ready" /\ world' = world
         \/ mode = "steps" /\ world' = work'
      /\ work' = After(work, executor, c) /\ pc' = pc + 1
      /\ UNCHANGED <<next, upgrade, stage, operation, mode>>
  BY DEF ExecuteCommand, MoreCommands, Executable, Stepwise, Committed, NextCommand, Handing
<1>3. /\ pc + 1 \in 1..Len(upgrade.commands)
      /\ Gives(c, NewHolds) => next = h
      /\ Gives(c, OldHolds) => next < h
  BY <1>1, <1>2 DEF HandsOver
<1>4. \A f \in {OldHolds, NewHolds} :
        f \in work' => Gives(c, f) \/ (f \in work /\ f \notin c.removes)
  BY <1>2, AfterCommand
<1>5. /\ mode' \in {"batch", "steps"}
      /\ \/ work' = world'
         \/ mode' = "batch" /\ stage' = "execute" /\ pc' # 0 /\ operation' = "ready"
  BY <1>1, <1>2 DEF Handing
<1>6. CASE next < h
  BY <1>1, <1>2, <1>3, <1>4, <1>5, <1>6 DEF Handing
<1>7. CASE next > h
  BY <1>1, <1>2, <1>3, <1>4, <1>5, <1>7 DEF Handing
<1>8. CASE next = h
  <2>1. ASSUME NEW i \in 1..(pc + 1), OldHolds \in upgrade.commands[i].removes,
               OldHolds \in work'
        PROVE  FALSE
    <3>1. OldHolds \in work /\ OldHolds \notin c.removes
      BY <1>3, <1>4, <1>8, <2>1, <1>1
    <3>2. i \in 1..pc
      BY <1>1, <2>1, <3>1
    <3> QED
      BY <1>2, <1>8, <2>1, <3>1, <3>2 DEF Handing
  <2> QED
    BY <1>1, <1>2, <1>5, <1>8, <2>1 DEF Handing
<1> QED
  BY <1>1, <1>6, <1>7, <1>8

LEMMA CommitKeeps ==
  ASSUME NEW h, HandsOver(h), Handing(h), Commit
  PROVE  Handing(h)'
<1>1. /\ pc \in Nat /\ next \in DOMAIN Upgrades /\ next \in Nat /\ h \in Nat
      /\ upgrade = Upgrades[next]
  BY DEF Handing, HandsOver
<1>2. /\ stage = "execute" /\ ~(pc < Len(upgrade.commands))
      /\ work' = work /\ world' = work /\ pc' = 0 /\ stage' = "validate"
      /\ UNCHANGED <<next, upgrade, mode>>
  BY DEF Commit, MoreCommands, Transacts
<1>3. CASE next < h
  BY <1>1, <1>2, <1>3 DEF Handing
<1>4. CASE next > h
  BY <1>1, <1>2, <1>4 DEF Handing
<1>5. CASE next = h
  <2>1. PICK i \in 1..Len(upgrade.commands) : OldHolds \in upgrade.commands[i].removes
    BY <1>1, <1>5 DEF HandsOver
  <2>2. i \in 1..pc
    <3>1. Len(upgrade.commands) \in Nat
      BY <1>1 DEF HandsOver
    <3> QED
      BY <1>1, <1>2, <3>1
  <2>3. OldHolds \notin work
    BY <1>2, <1>5, <2>1, <2>2 DEF Handing
  <2> QED
    BY <1>1, <1>2, <1>5, <2>3 DEF Handing
<1> QED
  BY <1>1, <1>3, <1>4, <1>5

LEMMA ValidateKeeps ==
  ASSUME NEW h, HandsOver(h), Handing(h), Validate
  PROVE  Handing(h)'
<1>1. /\ pc \in Nat /\ next \in DOMAIN Upgrades /\ next \in Nat /\ h \in Nat
      /\ DOMAIN Upgrades = 1..Len(Upgrades) /\ Len(Upgrades) \in Nat
  BY DEF Handing, HandsOver
<1>2. stage = "validate" /\ work = world /\ UNCHANGED <<world, work, pc>>
  BY DEF Validate, chain, Handing
<1>3. ~({OldHolds, NewHolds} \subseteq world)
  BY <1>2 DEF Handing
<1>4. CASE next < Len(Upgrades)
  <2>1. /\ next' = next + 1 /\ upgrade' = Upgrades[next'] /\ stage' = "deploy"
        /\ mode' \in {"batch", "steps"}
    BY <1>4 DEF Validate, Modes
  <2>2. next' \in DOMAIN Upgrades
    BY <1>1, <1>4, <2>1
  <2>3. next' < h => NewHolds \notin world' \cup work'
    BY <1>1, <1>2, <2>1 DEF Handing
  <2>4. ~({OldHolds, NewHolds} \subseteq world') /\ work' = world'
    BY <1>2, <1>3
  <2> QED
    BY <1>1, <1>2, <2>1, <2>2, <2>3, <2>4 DEF Handing
<1>5. CASE ~(next < Len(Upgrades))
  <2>1. UNCHANGED <<next, upgrade, mode>> /\ stage' = "access"
    BY <1>5 DEF Validate
  <2> QED
    BY <1>1, <1>2, <2>1, TransactionKeeps
<1> QED
  BY <1>4, <1>5

\* What the coordinator, the guardian and the veto do besides.
LEMMA DeployKeeps ==
  ASSUME NEW h, HandsOver(h), Handing(h), Deploy
  PROVE  Handing(h)'
<1> DEFINE d == upgrade.deploys[pc + 1]
<1>1. /\ pc \in Nat /\ next \in DOMAIN Upgrades /\ upgrade = Upgrades[next]
  BY DEF Handing
<1>2. /\ pc < Len(upgrade.deploys) /\ stage = "deploy" /\ pc' = pc + 1
      /\ UNCHANGED <<next, upgrade, stage, mode>>
      /\ world' = world \cup d.born \cup Copied(world, d) /\ work' = world'
  BY DEF Deploy, MoreContracts, NextContract, Transacts
<1>3. {OldHolds, NewHolds} \cap d.born = {}
  <2>1. Len(upgrade.deploys) \in Nat
    BY <1>1 DEF HandsOver
  <2>2. pc + 1 \in 1..Len(upgrade.deploys)
    BY <1>1, <1>2, <2>1
  <2> QED
    BY <1>1, <2>2 DEF HandsOver
<1>4. {OldHolds, NewHolds} \cap Copied(world, d) = {}
  BY DEF Copied, Safe, OldHolds, NewHolds, Holds
<1> HIDE DEF d
<1>5. {OldHolds, NewHolds} \cap world' \subseteq world
  BY <1>2, <1>3, <1>4
<1>6. pc' \in Nat /\ stage' \notin {"propose", "wait", "execute"}
  BY <1>1, <1>2
<1> QED
  BY <1>2, <1>5, <1>6, TransactionKeeps

LEMMA LoadKeeps ==
  ASSUME NEW h, HandsOver(h), Handing(h), Load
  PROVE  Handing(h)'
<1>1. {OldHolds, NewHolds}
        \cap {Holds(DeployerRoles[i], Deployer) : i \in DOMAIN DeployerRoles} = {}
  BY DEF Holds, OldHolds, NewHolds, Deployer
<1>2. {OldHolds, NewHolds} \cap world' \subseteq world
  BY <1>1 DEF Load, Transacts
<1> QED
  BY <1>2, TransactionKeeps DEF Load, Transacts, Handing

LEMMA SetupKeeps ==
  ASSUME NEW h, HandsOver(h), Handing(h), Setup
  PROVE  Handing(h)'
<1>1. {OldHolds, NewHolds} \cap Prepared \subseteq world
  BY DEF Prepared, HandsOver
<1> QED
  BY <1>1, TransactionKeeps DEF Setup, Transacts

LEMMA GuardianKeeps ==
  ASSUME NEW h, HandsOver(h), Handing(h), GuardianActs
  PROVE  Handing(h)'
<1>1. PICK c \in Interventions :
        world' = After(world, "guardianMultisig", c) /\ work' = world'
  BY DEF GuardianActs, Transacts
<1>2. {OldHolds, NewHolds} \cap world' \subseteq world
  BY <1>1, AfterCommand, GuardianGivesNone
<1>3. pc \in Nat /\ mode = "batch" /\ (stage \in {"propose", "wait", "execute"} => pc = 0)
  BY DEF GuardianActs, MayAct, Handing
<1>4. UNCHANGED <<next, upgrade, stage, pc, mode>>
  BY DEF GuardianActs
<1> QED
  BY <1>1, <1>2, <1>3, <1>4, TransactionKeeps

LEMMA RevocationKeeps ==
  ASSUME NEW h, HandsOver(h), Handing(h), RevokeDeployAddressPermission
  PROVE  Handing(h)'
<1> DEFINE c == RevokeFromDeployer[pc + 1]
<1>1. /\ stage = "access" /\ pc < Len(RevokeFromDeployer) /\ pc \in Nat
      /\ world' = After(world, Deployer, c) /\ work' = world'
      /\ pc' = pc + 1 /\ stage' \in {"done", stage} /\ UNCHANGED <<next, upgrade, mode>>
  BY DEF RevokeDeployAddressPermission, MoreRevocations, Transacts, Handing
<1>2. c.adds = {} /\ c.claims = {}
  <2>1. Len(RevokeFromDeployer) = 4 /\ DOMAIN DeployerRoles = 1..4
    BY DEF RevokeFromDeployer, DeployerRoles
  <2>2. pc + 1 \in DOMAIN DeployerRoles
    BY <1>1, <2>1
  <2>3. c = GovernorRevokes(DeployerRoles[pc + 1], Deployer)
    BY <2>2 DEF RevokeFromDeployer
  <2> QED
    BY <2>3 DEF GovernorRevokes, Revoke, Call
<1> HIDE DEF c
<1>3. {OldHolds, NewHolds} \cap world' \subseteq world
  BY <1>1, <1>2, AfterCommand DEF Gives
<1> QED
  BY <1>1, <1>3, TransactionKeeps

LEMMA WaitingKeeps ==
  ASSUME NEW h, HandsOver(h), Handing(h), Propose \/ Wait \/ NotReady \/ Throw \/ Veto
  PROVE  Handing(h)'
<1>1. CASE Propose
  <2>1. /\ stage = "propose" /\ stage' \in {"wait", "execute"}
        /\ UNCHANGED <<world, work, next, upgrade, pc, mode>>
    BY <1>1 DEF Propose, chain
  <2> QED
    BY <2>1, TransactionKeeps DEF Handing
<1>2. CASE Wait
  <2>1. stage = "wait" /\ stage' = "execute" /\ UNCHANGED <<world, work, next, upgrade, pc, mode>>
    BY <1>2 DEF Wait, chain
  <2> QED
    BY <2>1, TransactionKeeps DEF Handing
<1>3. CASE NotReady
  <2>1. /\ stage = "execute" /\ operation # "ready" /\ stage' = "validate" /\ mode = "batch"
        /\ UNCHANGED <<world, work, next, upgrade, pc, mode>>
    BY <1>3 DEF NotReady, chain, Executable, Stepwise, Handing
  <2> QED
    BY <2>1, TransactionKeeps DEF Handing
<1>4. CASE Throw
  BY <1>4, TransactionKeeps DEF Throw, Handing
<1>5. CASE Veto
  <2>1. /\ stage = "execute" => pc = 0
        /\ mode = "batch" /\ UNCHANGED <<world, work, next, upgrade, pc, mode, stage>>
    BY <1>5 DEF Veto, MayAct, chain
  <2> QED
    BY <2>1, TransactionKeeps DEF Handing
<1> QED
  BY <1>1, <1>2, <1>3, <1>4, <1>5

LEMMA HandingIsKept ==
  ASSUME NEW h, HandsOver(h), Handing(h), [Next]_vars
  PROVE  Handing(h)'
<1>1. CASE ExecuteCommand \/ Commit \/ Validate \/ RevokeDeployAddressPermission
  BY <1>1, CommandKeeps, CommitKeeps, ValidateKeeps, RevocationKeeps
<1>2. CASE Load \/ Deploy \/ Setup \/ GuardianActs
  BY <1>2, LoadKeeps, DeployKeeps, SetupKeeps, GuardianKeeps
<1>3. CASE Propose \/ Wait \/ NotReady \/ Throw \/ Veto
  BY <1>3, WaitingKeeps
<1>4. CASE UNCHANGED vars
  BY <1>4 DEF vars, Handing
<1> QED
  BY <1>1, <1>2, <1>3, <1>4 DEF Next, Coordinator

\* description/old/fip_82b.ts:424-463, whatever the other upgrades are and whatever the guardian does:
\* if one upgrade gives the role to the new guardian, takes it from the old one with
\* another of its commands, and no later one gives it back, then between transactions
\* never both guardians can move protocol controlled value.
THEOREM RoleIsHandedOver ==
  ASSUME NEW h, HandsOver(h)
  PROVE  Spec => []OneGuardianContract
<1>1. Init => Handing(h)
  <2>1. h \in DOMAIN Upgrades /\ DOMAIN Upgrades = 1..Len(Upgrades) /\ Len(Upgrades) \in Nat
        /\ NewHolds \notin Genesis
    BY DEF HandsOver
  <2>2. 1 \in DOMAIN Upgrades
    BY <2>1
  <2> QED
    BY <2>1, <2>2 DEF Init, Handing, Modes
<1>2. Handing(h) /\ [Next]_vars => Handing(h)'
  BY HandingIsKept
<1>3. Handing(h) => OneGuardianContract
  BY DEF Handing, OneGuardianContract, Has, OldHolds, NewHolds
<1> QED
  BY <1>1, <1>2, <1>3, PTL DEF Spec

----------------------------------------------------------------------------
(* The facts of the chain. *)

----------------------------------------------------------------------------
(* Facts that are numbered without a gap, as the pools of TribalChief and the  *)
(* entries of NamedStaticPCVDepositWrapper.                                    *)
List(S) == IsFiniteSet(S) /\ Functional(S) /\ Numbered(S)

LEMMA NumberedMeans ==
  ASSUME NEW S
  PROVE  Numbered(S) <=> {f[2] : f \in S} = 0..Cardinality(S) - 1
BY DEF Numbered

LEMMA ListFacts ==
  ASSUME NEW S, List(S)
  PROVE  /\ Cardinality(S) \in Nat
         /\ \A f \in S : f[2] \in Nat /\ f[2] < Cardinality(S)
         /\ \A i \in Nat : i < Cardinality(S) => \E f \in S : f[2] = i
<1>1. PICK n \in Nat : n = Cardinality(S)
  BY FS_CardinalityType DEF List
<1>2. {f[2] : f \in S} = 0..n - 1
  BY <1>1, NumberedMeans DEF List
<1>3. ASSUME NEW f \in S PROVE f[2] \in 0..n - 1
  <2>1. f[2] \in {g[2] : g \in S}
    OBVIOUS
  <2> QED
    BY <1>2, <2>1
<1>4. ASSUME NEW i \in Nat, i < n PROVE \E f \in S : f[2] = i
  <2>1. i \in 0..n - 1
    BY <1>4
  <2>2. i \in {f[2] : f \in S}
    BY <1>2, <2>1, Zenon
  <2> QED
    BY <2>2
<1> QED
  BY <1>1, <1>3, <1>4

LEMMA IsNumbered ==
  ASSUME NEW S, NEW n \in Nat, Cardinality(S) = n, \A f \in S : f[2] \in 0..n - 1,
         \A i \in 0..n - 1 : \E f \in S : f[2] = i
  PROVE  Numbered(S)
<1>1. {f[2] : f \in S} \subseteq 0..n - 1
  OBVIOUS
<1>2. 0..n - 1 \subseteq {f[2] : f \in S}
  OBVIOUS
<1>3. {f[2] : f \in S} = 0..n - 1
  BY <1>1, <1>2, Zenon
<1> QED
  BY <1>3, NumberedMeans

\* One more at the end,
LEMMA ListAppends ==
  ASSUME NEW S, List(S), NEW g, g[2] = Cardinality(S)
  PROVE  List(S \cup {g}) /\ Cardinality(S \cup {g}) = Cardinality(S) + 1
<1> DEFINE T == S \cup {g}
<1>1. PICK n \in Nat : n = Cardinality(S)
  BY ListFacts
<1>2. \A f \in S : f[2] \in 0..n - 1
  BY <1>1, ListFacts
<1>3. \A i \in 0..n - 1 : \E f \in S : f[2] = i
  BY <1>1, ListFacts
<1>4. g \notin S
  BY <1>1, <1>2
<1>5. IsFiniteSet(T) /\ Cardinality(T) = n + 1
  BY <1>1, <1>4, FS_AddElement DEF List
<1>6. Functional(T)
  BY <1>1, <1>2 DEF List, Functional
<1>7. \A f \in T : f[2] \in 0..(n + 1) - 1
  BY <1>1, <1>2
<1>8. \A i \in 0..(n + 1) - 1 : \E f \in T : f[2] = i
  <2> SUFFICES ASSUME NEW i \in 0..(n + 1) - 1 PROVE \E f \in T : f[2] = i
    OBVIOUS
  <2>1. CASE i = n
    BY <1>1, <2>1
  <2>2. CASE i # n
    BY <1>3, <2>2
  <2> QED
    BY <2>1, <2>2
<1> HIDE DEF T
<1>9. Numbered(T)
  BY <1>5, <1>7, <1>8, IsNumbered
<1> QED
  BY <1>1, <1>5, <1>6, <1>9 DEF List, T

\* one in the place of another,
LEMMA ListReplaces ==
  ASSUME NEW S, List(S), NEW f \in S, NEW g, g[2] = f[2], \A h \in S \cup {g} : h[1] = f[1]
  PROVE  List((S \ {f}) \cup {g}) /\ Cardinality((S \ {f}) \cup {g}) = Cardinality(S)
<1> DEFINE T == (S \ {f}) \cup {g}
<1>1. PICK n \in Nat : n = Cardinality(S)
  BY ListFacts
<1>2. \A h \in S : h[2] = f[2] => h = f
  BY DEF List, Functional
<1>3. g \notin S \ {f}
  BY <1>2
<1>4. IsFiniteSet(S \ {f}) /\ Cardinality(S \ {f}) = n - 1
  BY <1>1, FS_RemoveElement DEF List
<1>5. IsFiniteSet(T) /\ Cardinality(T) = n
  <2>1. IsFiniteSet(T) /\ Cardinality(T) = (n - 1) + 1
    BY <1>3, <1>4, FS_AddElement
  <2> QED
    BY <2>1
<1>6. Functional(T)
  BY <1>2 DEF List, Functional
<1>7. \A h \in T : h[2] \in 0..n - 1
  <2>1. \A h \in S : h[2] \in 0..n - 1
    BY <1>1, ListFacts
  <2> QED
    BY <2>1
<1>8. \A i \in 0..n - 1 : \E h \in T : h[2] = i
  <2> SUFFICES ASSUME NEW i \in 0..n - 1 PROVE \E h \in T : h[2] = i
    OBVIOUS
  <2>1. PICK h \in S : h[2] = i
    BY <1>1, ListFacts
  <2> QED
    BY <2>1
<1> HIDE DEF T
<1>9. Numbered(T)
  BY <1>5, <1>7, <1>8, IsNumbered
<1> QED
  BY <1>1, <1>5, <1>6, <1>9 DEF List, T

\* one less at the end.
LEMMA ListDrops ==
  ASSUME NEW S, List(S), NEW f \in S, f[2] = Cardinality(S) - 1, \A h \in S : h[1] = f[1]
  PROVE  List(S \ {f})
<1> DEFINE T == S \ {f}
<1>1. PICK n \in Nat : n = Cardinality(S) - 1
  BY ListFacts
<1>2. \A h \in S : h[2] = n => h = f
  BY <1>1 DEF List, Functional
<1>3. IsFiniteSet(T) /\ Cardinality(T) = n
  BY <1>1, FS_RemoveElement DEF List
<1>4. Functional(T)
  BY DEF List, Functional
<1>5. \A h \in S : h[2] \in Nat /\ h[2] <= n
  BY <1>1, ListFacts
<1>6. \A h \in T : h[2] \in 0..n - 1
  BY <1>1, <1>2, <1>5
<1>7. \A i \in 0..n - 1 : \E h \in T : h[2] = i
  <2> SUFFICES ASSUME NEW i \in 0..n - 1 PROVE \E h \in T : h[2] = i
    OBVIOUS
  <2>1. PICK h \in S : h[2] = i
    BY <1>1, ListFacts
  <2> QED
    BY <1>1, <2>1
<1> HIDE DEF T
<1>8. Numbered(T)
  BY <1>3, <1>6, <1>7, IsNumbered
<1> QED
  BY <1>3, <1>4, <1>8 DEF List, T

\* The chain, in these terms
LEMMA ChainMeans ==
  ASSUME NEW w
  PROVE  Chain(w) <=>
           /\ IsFiniteSet(w) /\ Functional({f \in w : Single(f)})
           /\ \A kind \in NumberedKinds : List(OfKind(w, kind))
           /\ Cardinality(OfKind(w, "pool")) = Cardinality(OfKind(w, "points"))
<1>1. IsFiniteSet(w) => \A kind : IsFiniteSet(OfKind(w, kind))
  <2>1. ASSUME IsFiniteSet(w), NEW kind PROVE IsFiniteSet(OfKind(w, kind))
    <3>1. OfKind(w, kind) \in SUBSET w
      BY DEF OfKind
    <3> QED
      BY <2>1, <3>1, FS_Subset
  <2> QED
    BY <2>1
<1>2. IsFiniteSet(w) <=> IsFiniteSet(w)
  OBVIOUS
<1>3. \A kind : Size(w, kind) = Cardinality(OfKind(w, kind))
  BY DEF Size
<1> QED
  BY <1>1, <1>2, <1>3 DEF Chain, List

\* Facts of other kinds do not matter to it.
LEMMA PlainFacts ==
  ASSUME NEW w, Chain(w), NEW A, IsFiniteSet(A),
         \A f \in A : ~Single(f) /\ f[1] \notin NumberedKinds
  PROVE  Chain(w \cup A)
<1>1. IsFiniteSet(w \cup A)
  BY ChainMeans, FS_Union
<1>2. {f \in w \cup A : Single(f)} = {f \in w : Single(f)}
  OBVIOUS
<1>3. \A kind \in NumberedKinds : OfKind(w \cup A, kind) = OfKind(w, kind)
  BY DEF OfKind
<1>4. {"pool", "points"} \subseteq NumberedKinds
  BY DEF NumberedKinds
<1> QED
  BY <1>1, <1>2, <1>3, <1>4, ChainMeans

----------------------------------------------------------------------------
(* A command. *)

\* What it puts in and takes away, of the numbered facts
LEMMA AfterKind ==
  ASSUME NEW w, NEW who, NEW c, NEW kind \in NumberedKinds
  PROVE  OfKind(After(w, who, c), kind)
           = (OfKind(w, kind) \ Gone(w, c)) \cup OfKind(Effect(w, c), kind)
<1>1. \A f \in {Holds(r, who) : r \in c.claims} : f[1] # kind
  BY DEF Holds, NumberedKinds
<1> QED
  BY <1>1 DEF OfKind, After

\* is nothing, for most commands.
LEMMA MostKeepLists ==
  ASSUME NEW w, NEW who, NEW c, Chain(w), Orderly(c), c.special = "none"
  PROVE  \A kind \in NumberedKinds :
           OfKind(After(w, who, c), kind) = OfKind(w, kind)
<1> SUFFICES ASSUME NEW kind \in NumberedKinds
             PROVE  OfKind(After(w, who, c), kind) = OfKind(w, kind)
  OBVIOUS
<1>1. /\ \A f \in c.adds \cup c.clears : f[1] \notin NumberedKinds
      /\ \A f \in c.removes \cup c.lifts : f[1] \notin NumberedKinds
  BY DEF Orderly
<1>2. OfKind(Effect(w, c), kind) = {}
  BY <1>1 DEF Effect, OfKind
<1>3. OfKind(w, kind) \cap Gone(w, c) = {}
  <2>1. ASSUME NEW f \in OfKind(w, kind), f \in Cleared(w, c) PROVE FALSE
    <3>1. <<f[1], f[2]>> \in c.clears
      BY <2>1 DEF Cleared
    <3>2. <<f[1], f[2]>>[1] \notin NumberedKinds
      BY <1>1, <3>1
    <3> QED
      BY <3>2, <2>1 DEF OfKind
  <2> QED
    BY <1>1, <2>1 DEF Gone, OfKind
<1> QED
  BY <1>2, <1>3, AfterKind

\* TribalChief.add: a pool and its points take the next number.
LEMMA PoolsAppend ==
  ASSUME NEW w, NEW who, NEW c, Chain(w), Orderly(c), c.special = "addPool"
  PROVE  \E f \in c.adds :
           /\ OfKind(After(w, who, c), "pool")
                = OfKind(w, "pool") \cup {Pool(Size(w, "pool"), f[2])}
           /\ OfKind(After(w, who, c), "points")
                = OfKind(w, "points") \cup {Points(Size(w, "pool"), f[3])}
           /\ OfKind(After(w, who, c), "entry") = OfKind(w, "entry")
<1>1. PICK f \in c.adds : c.adds = {f} /\ c.clears = {}
  BY DEF Orderly
<1>2. \A g \in c.removes \cup c.lifts : g[1] \notin NumberedKinds
  BY DEF Orderly
<1>3. Effect(w, c)
        = {Pool(Size(w, "pool"), f[2]), Points(Size(w, "pool"), f[3])}
  BY <1>1 DEF Effect
<1>4. ASSUME NEW kind \in NumberedKinds
      PROVE  OfKind(w, kind) \cap Gone(w, c) = {}
  <2>1. Cleared(w, c) = {}
    BY <1>1 DEF Cleared
  <2>2. Gone(w, c) = c.removes \cup c.lifts
    BY <2>1 DEF Gone
  <2> QED
    BY <1>2, <2>2 DEF OfKind
<1>5. /\ OfKind(Effect(w, c), "pool") = {Pool(Size(w, "pool"), f[2])}
      /\ OfKind(Effect(w, c), "points") = {Points(Size(w, "pool"), f[3])}
      /\ OfKind(Effect(w, c), "entry") = {}
  BY <1>3 DEF OfKind, Pool, Points
<1>6. ASSUME NEW kind \in NumberedKinds
      PROVE  OfKind(After(w, who, c), kind)
               = OfKind(w, kind) \cup OfKind(Effect(w, c), kind)
  BY <1>4, AfterKind
<1>7. "pool" \in NumberedKinds /\ "points" \in NumberedKinds /\ "entry" \in NumberedKinds
  BY DEF NumberedKinds
<1>8. OfKind(After(w, who, c), "pool")
        = OfKind(w, "pool") \cup {Pool(Size(w, "pool"), f[2])}
  BY <1>5, <1>6, <1>7
<1>9. OfKind(After(w, who, c), "points")
        = OfKind(w, "points") \cup {Points(Size(w, "pool"), f[3])}
  BY <1>5, <1>6, <1>7
<1>10. OfKind(After(w, who, c), "entry") = OfKind(w, "entry")
  BY <1>5, <1>6, <1>7
<1> QED
  BY <1>8, <1>9, <1>10

\* TribalChief.set: the points of a pool that there is are replaced.
LEMMA PointsReplace ==
  ASSUME NEW w, NEW who, NEW c, Chain(w), Orderly(c), c.special = "setPool",
         Succeeds(w, who, c)
  PROVE  /\ \E f \in OfKind(w, "points") : \E points :
              OfKind(After(w, who, c), "points")
                = (OfKind(w, "points") \ {f}) \cup {Points(f[2], points)}
         /\ OfKind(After(w, who, c), "pool") = OfKind(w, "pool")
         /\ OfKind(After(w, who, c), "entry") = OfKind(w, "entry")
<1>1. PICK g \in c.adds : c.adds = {Points(g[2], g[3])} /\ c.clears = {<<"points", g[2]>>}
  BY DEF Orderly
<1>2. \A f \in c.removes \cup c.lifts : f[1] \notin NumberedKinds
  BY DEF Orderly
<1>3. Cleared(w, c) # {}
  BY DEF Succeeds
<1>4. PICK f \in w : f[1] = "points" /\ f[2] = g[2]
  BY <1>1, <1>3 DEF Cleared
<1>5. f \in OfKind(w, "points") /\ \A h \in OfKind(w, "points") : h[2] = g[2] => h = f
  BY <1>4, ChainMeans DEF OfKind, List, Functional, NumberedKinds
<1>6. Cleared(w, c) = {f}
  BY <1>1, <1>4, <1>5 DEF Cleared, OfKind
<1>7. /\ OfKind(w, "points") \cap Gone(w, c) = {f}
      /\ OfKind(w, "pool") \cap Gone(w, c) = {}
      /\ OfKind(w, "entry") \cap Gone(w, c) = {}
  BY <1>2, <1>4, <1>5, <1>6 DEF Gone, OfKind, NumberedKinds
<1>8. Effect(w, c) = {Points(f[2], g[3])}
  BY <1>1, <1>4 DEF Effect
<1>9. /\ OfKind(Effect(w, c), "points") = {Points(f[2], g[3])}
      /\ OfKind(Effect(w, c), "pool") = {}
      /\ OfKind(Effect(w, c), "entry") = {}
  BY <1>8 DEF OfKind, Points
<1>10. ASSUME NEW kind \in NumberedKinds
       PROVE  OfKind(After(w, who, c), kind)
                = (OfKind(w, kind) \ (OfKind(w, kind) \cap Gone(w, c)))
                    \cup OfKind(Effect(w, c), kind)
  BY AfterKind
<1>11. "pool" \in NumberedKinds /\ "points" \in NumberedKinds /\ "entry" \in NumberedKinds
  BY DEF NumberedKinds
<1>12. OfKind(After(w, who, c), "points")
         = (OfKind(w, "points") \ {f}) \cup {Points(f[2], g[3])}
  BY <1>7, <1>9, <1>10, <1>11
<1>13. OfKind(After(w, who, c), "pool") = OfKind(w, "pool")
  BY <1>7, <1>9, <1>10, <1>11
<1>14. OfKind(After(w, who, c), "entry") = OfKind(w, "entry")
  BY <1>7, <1>9, <1>10, <1>11
<1> QED
  BY <1>5, <1>12, <1>13, <1>14

\* NamedStaticPCVDepositWrapper.removeDeposit: the last entry takes the place of the
\* one that is removed.
LEMMA EntriesMove ==
  ASSUME NEW w, NEW who, NEW c, Chain(w), Orderly(c), c.special = "removeEntry",
         Succeeds(w, who, c)
  PROVE  /\ \E last \in OfKind(w, "entry"), f \in OfKind(w, "entry") :
              LET entries == OfKind(w, "entry") \ {last}
              IN /\ last[2] = Cardinality(OfKind(w, "entry")) - 1
                 /\ OfKind(After(w, who, c), "entry")
                      = IF f = last THEN entries
                        ELSE (entries \ {f}) \cup {Entry(f[2], last[3])}
         /\ OfKind(After(w, who, c), "pool") = OfKind(w, "pool")
         /\ OfKind(After(w, who, c), "points") = OfKind(w, "points")
<1> DEFINE all == OfKind(w, "entry")
<1>1. PICK g \in c.adds : c.adds = {g} /\ g[2] \in Nat /\ c.clears = {}
  BY DEF Orderly
<1>2. \A f \in c.removes \cup c.lifts : f[1] \notin NumberedKinds
  BY DEF Orderly
<1>3. "pool" \in NumberedKinds /\ "points" \in NumberedKinds /\ "entry" \in NumberedKinds
  BY DEF NumberedKinds
<1>4. List(all) /\ Size(w, "entry") = Cardinality(all) /\ \A f \in all : f[1] = "entry"
  BY <1>3, ChainMeans DEF Size, OfKind
<1>5. PICK n \in Nat : n = Cardinality(all)
  BY <1>4, ListFacts
<1>6. g[2] < n
  BY <1>1, <1>4, <1>5 DEF Succeeds
<1>7. PICK f \in all : f[2] = g[2]
  BY <1>1, <1>4, <1>5, <1>6, ListFacts
<1>8. PICK last \in all : last[2] = n - 1
  <2>1. n - 1 \in Nat
    BY <1>1, <1>6
  <2> QED
    BY <1>4, <1>5, <2>1, ListFacts
<1>9. \A h \in all : (h[2] = g[2] => h = f) /\ (h[2] = n - 1 => h = last)
  BY <1>4, <1>7, <1>8 DEF List, Functional
<1>10. Cleared(w, c) = {}
  BY <1>1 DEF Cleared
<1>11. all \cap Gone(w, c) = {last, f}
  <2>1. ASSUME NEW h \in all
        PROVE  h \in Gone(w, c) <=> (h[2] = n - 1 \/ h[2] = g[2])
    BY <1>1, <1>2, <1>3, <1>4, <1>5, <1>10, <2>1 DEF Gone
  <2> QED
    BY <1>7, <1>8, <1>9, <2>1
<1>12. /\ OfKind(w, "pool") \cap Gone(w, c) = {}
       /\ OfKind(w, "points") \cap Gone(w, c) = {}
  BY <1>2, <1>3, <1>10 DEF Gone, OfKind
<1>13. Effect(w, c) = {Entry(e[2], h[3]) : e \in {e \in c.adds : e[2] # n - 1},
                                               h \in {h \in all : h[2] = n - 1}}
  BY <1>4, <1>5 DEF Effect
<1>14. Effect(w, c) = IF f = last THEN {} ELSE {Entry(f[2], last[3])}
  <2>1. {h \in all : h[2] = n - 1} = {last}
    BY <1>8, <1>9
  <2>2. CASE f = last
    <3>1. {e \in c.adds : e[2] # n - 1} = {}
      BY <1>1, <1>7, <1>8, <2>2
    <3> QED
      BY <1>13, <2>2, <3>1
  <2>3. CASE f # last
    <3>1. {e \in c.adds : e[2] # n - 1} = {g}
      BY <1>1, <1>7, <1>9, <2>3
    <3>2. Effect(w, c) = {Entry(g[2], last[3])}
      BY <1>13, <2>1, <3>1
    <3> QED
      BY <1>7, <2>3, <3>2
  <2> QED
    BY <2>2, <2>3
<1>15. /\ OfKind(Effect(w, c), "entry") = Effect(w, c)
       /\ OfKind(Effect(w, c), "pool") = {} /\ OfKind(Effect(w, c), "points") = {}
  BY <1>14 DEF OfKind, Entry
<1>16. ASSUME NEW kind \in NumberedKinds
       PROVE  OfKind(After(w, who, c), kind)
                = (OfKind(w, kind) \ (OfKind(w, kind) \cap Gone(w, c)))
                    \cup OfKind(Effect(w, c), kind)
  BY AfterKind
<1>17. OfKind(After(w, who, c), "pool") = OfKind(w, "pool")
  BY <1>3, <1>12, <1>15, <1>16
<1>18. OfKind(After(w, who, c), "points") = OfKind(w, "points")
  BY <1>3, <1>12, <1>15, <1>16
<1>19. OfKind(After(w, who, c), "entry") = (all \ {last, f}) \cup Effect(w, c)
  BY <1>3, <1>11, <1>15, <1>16
<1> HIDE DEF all
<1>20. OfKind(After(w, who, c), "entry")
         = IF f = last THEN all \ {last}
           ELSE ((all \ {last}) \ {f}) \cup {Entry(f[2], last[3])}
  BY <1>14, <1>19
<1> QED
  BY <1>5, <1>8, <1>17, <1>18, <1>20 DEF all

\* What there is one of is cleared before it is set.
LEMMA SinglesAfter ==
  ASSUME NEW w, NEW who, NEW c, Chain(w), Orderly(c)
  PROVE  Functional({f \in After(w, who, c) : Single(f)})
<1> DEFINE claimed == {Holds(r, who) : r \in c.claims}
<1>1. SUFFICES ASSUME NEW f \in After(w, who, c), NEW g \in After(w, who, c),
                      Single(f), Single(g), f[1] = g[1], f[2] = g[2]
               PROVE  f = g
  BY DEF Functional
<1>2. ASSUME NEW h \in Effect(w, c), Single(h)
      PROVE  h \in c.adds
  <2>1. CASE c.special = "addPool"
    <3>1. PICK a \in c.adds : h \in {Pool(Size(w, "pool"), a[2]), Points(Size(w, "pool"), a[3])}
      BY <1>2, <2>1 DEF Effect
    <3> QED
      BY <1>2, <3>1 DEF Pool, Points, Single
  <2>2. CASE c.special = "removeEntry"
    <3>1. h \in {Entry(a[2], b[3]) : a \in {a \in c.adds : a[2] # Size(w, "entry") - 1},
                   b \in {b \in OfKind(w, "entry") : b[2] = Size(w, "entry") - 1}}
      BY <1>2, <2>2 DEF Effect
    <3> QED
      BY <1>2, <3>1 DEF Entry, Single
  <2>3. CASE c.special \notin {"addPool", "removeEntry"}
    BY <1>2, <2>3 DEF Effect
  <2> QED
    BY <2>1, <2>2, <2>3
<1>3. ASSUME NEW h \in After(w, who, c), Single(h)
      PROVE  (h \in w /\ <<h[1], h[2]>> \notin c.clears) \/ h \in c.adds \/ h \in claimed
  BY <1>2, <1>3 DEF After, Gone, Cleared
<1>4. ASSUME NEW h \in c.adds, Single(h)
      PROVE  <<h[1], h[2]>> \in c.clears
  BY <1>4 DEF Orderly
<1>5. ASSUME NEW h \in claimed, Single(h)
      PROVE  /\ <<h[1], h[2]>> \in c.clears
             /\ \A a \in c.adds : <<a[1], a[2]>> # <<h[1], h[2]>>
             /\ h = Holds(h[2], who)
  <2>1. PICK r \in c.claims : h = Holds(r, who)
    OBVIOUS
  <2>2. h[1] = "holds" /\ h[2] = r
    BY <2>1 DEF Holds
  <2>3. r \in Offices
    BY <1>5, <2>2 DEF Single
  <2> QED
    BY <2>1, <2>2, <2>3 DEF Orderly
<1>6. CASE <<f[1], f[2]>> \notin c.clears
  <2>1. f \in w /\ g \in w
    BY <1>1, <1>3, <1>4, <1>5, <1>6
  <2> QED
    BY <1>1, <2>1, ChainMeans DEF Functional
<1>7. CASE f \in c.adds
  <2>1. g \in c.adds
    BY <1>1, <1>3, <1>4, <1>5, <1>7
  <2> QED
    BY <1>1, <1>7, <2>1 DEF Orderly, Functional
<1>8. CASE f \in claimed /\ <<f[1], f[2]>> \in c.clears
  <2>1. g \in claimed
    BY <1>1, <1>3, <1>5, <1>8
  <2> QED
    BY <1>1, <1>5, <1>8, <2>1
<1> QED
  BY <1>1, <1>3, <1>6, <1>7, <1>8

LEMMA FiniteAfter ==
  ASSUME NEW w, NEW who, NEW c, Chain(w), Orderly(c)
  PROVE  IsFiniteSet(After(w, who, c))
<1>1. IsFiniteSet(w) /\ IsFiniteSet(c.adds) /\ IsFiniteSet(c.claims)
  BY ChainMeans DEF Orderly
<1>2. IsFiniteSet(w \ Gone(w, c))
  BY <1>1, FS_Subset
<1>3. IsFiniteSet(Effect(w, c))
  <2>1. CASE c.special = "addPool"
    <3>1. PICK f \in c.adds : c.adds = {f}
      BY <2>1 DEF Orderly
    <3>2. Effect(w, c) = {Pool(Size(w, "pool"), f[2])} \cup {Points(Size(w, "pool"), f[3])}
      BY <2>1, <3>1 DEF Effect
    <3> DEFINE pool == Pool(Size(w, "pool"), f[2])
               points == Points(Size(w, "pool"), f[3])
    <3>3. IsFiniteSet({pool}) /\ IsFiniteSet({points})
      BY FS_Singleton
    <3>4. Effect(w, c) = {pool} \cup {points}
      BY <3>2
    <3> HIDE DEF pool, points
    <3> QED
      BY <3>3, <3>4, FS_Union
  <2>2. CASE c.special = "removeEntry"
    <3>1. PICK f \in c.adds : c.adds = {f}
      BY <2>2 DEF Orderly
    <3> DEFINE lasts == {h \in OfKind(w, "entry") : h[2] = Size(w, "entry") - 1}
               moved == {Entry(f[2], h[3]) : h \in lasts}
               move == [h \in lasts |-> Entry(f[2], h[3])]
    <3>2. Effect(w, c) \subseteq moved
      BY <2>2, <3>1 DEF Effect
    <3>3. lasts \in SUBSET w
      BY DEF OfKind
    <3>4. IsFiniteSet(lasts)
      BY <1>1, <3>3, FS_Subset
    <3>5. move \in Surjection(lasts, moved)
      BY DEF Surjection
    <3>6. IsFiniteSet(moved)
      BY <3>4, <3>5, FS_Surjection
    <3> QED
      BY <3>2, <3>6, FS_Subset
  <2>3. CASE c.special \notin {"addPool", "removeEntry"}
    BY <1>1, <2>3 DEF Effect
  <2> QED
    BY <2>1, <2>2, <2>3
<1>4. IsFiniteSet({Holds(r, who) : r \in c.claims})
  <2> DEFINE claimed == {Holds(r, who) : r \in c.claims}
             claim == [r \in c.claims |-> Holds(r, who)]
  <2>1. claim \in Surjection(c.claims, claimed)
    BY DEF Surjection
  <2> QED
    BY <1>1, <2>1, FS_Surjection
<1>5. IsFiniteSet((w \ Gone(w, c)) \cup Effect(w, c))
  BY <1>2, <1>3, FS_Union
<1> QED
  BY <1>4, <1>5, FS_Union DEF After

\* A command that does not revert leaves the facts a chain, if they were one.
LEMMA CommandsKeepChain ==
  ASSUME NEW w, NEW who, NEW c, Chain(w), Orderly(c), Succeeds(w, who, c)
  PROVE  Chain(After(w, who, c))
<1> DEFINE v == After(w, who, c)
<1>1. IsFiniteSet(v) /\ Functional({f \in v : Single(f)})
  BY FiniteAfter, SinglesAfter
<1>2. "pool" \in NumberedKinds /\ "points" \in NumberedKinds /\ "entry" \in NumberedKinds
  BY DEF NumberedKinds
<1>3. /\ List(OfKind(w, "pool")) /\ List(OfKind(w, "points")) /\ List(OfKind(w, "entry"))
      /\ Cardinality(OfKind(w, "pool")) = Cardinality(OfKind(w, "points"))
  BY <1>2, ChainMeans
<1>4. /\ List(OfKind(v, "pool")) /\ List(OfKind(v, "points")) /\ List(OfKind(v, "entry"))
      /\ Cardinality(OfKind(v, "pool")) = Cardinality(OfKind(v, "points"))
  <2>1. CASE c.special = "none"
    BY <1>2, <1>3, <2>1, MostKeepLists
  <2>2. CASE c.special = "addPool"
    <3>1. PICK f \in c.adds :
            /\ OfKind(v, "pool") = OfKind(w, "pool") \cup {Pool(Size(w, "pool"), f[2])}
            /\ OfKind(v, "points") = OfKind(w, "points") \cup {Points(Size(w, "pool"), f[3])}
            /\ OfKind(v, "entry") = OfKind(w, "entry")
      BY <2>2, PoolsAppend
    <3>2. Size(w, "pool") = Cardinality(OfKind(w, "pool"))
      BY DEF Size
    <3>3. /\ Pool(Size(w, "pool"), f[2])[2] = Cardinality(OfKind(w, "pool"))
          /\ Points(Size(w, "pool"), f[3])[2] = Cardinality(OfKind(w, "points"))
      BY <1>3, <3>2 DEF Pool, Points
    <3>4. /\ List(OfKind(v, "pool"))
          /\ Cardinality(OfKind(v, "pool")) = Cardinality(OfKind(w, "pool")) + 1
      BY <1>3, <3>1, <3>3, ListAppends
    <3>5. /\ List(OfKind(v, "points"))
          /\ Cardinality(OfKind(v, "points")) = Cardinality(OfKind(w, "points")) + 1
      BY <1>3, <3>1, <3>3, ListAppends
    <3> QED
      BY <1>3, <3>1, <3>4, <3>5
  <2>3. CASE c.special = "setPool"
    <3>0. PICK f \in OfKind(w, "points") : \E points :
            OfKind(v, "points") = (OfKind(w, "points") \ {f}) \cup {Points(f[2], points)}
      BY <2>3, PointsReplace
    <3>1. PICK points :
            OfKind(v, "points") = (OfKind(w, "points") \ {f}) \cup {Points(f[2], points)}
      BY <3>0
    <3>2. OfKind(v, "pool") = OfKind(w, "pool") /\ OfKind(v, "entry") = OfKind(w, "entry")
      BY <2>3, PointsReplace
    <3>3. /\ Points(f[2], points)[2] = f[2]
          /\ \A h \in OfKind(w, "points") \cup {Points(f[2], points)} : h[1] = f[1]
      BY <3>1 DEF Points, OfKind
    <3>4. /\ List(OfKind(v, "points"))
          /\ Cardinality(OfKind(v, "points")) = Cardinality(OfKind(w, "points"))
      BY <1>3, <3>1, <3>3, ListReplaces
    <3> QED
      BY <1>3, <3>2, <3>4
  <2>4. CASE c.special = "removeEntry"
    <3> DEFINE all == OfKind(w, "entry")
    <3>1. PICK last \in all, f \in all :
            /\ last[2] = Cardinality(all) - 1
            /\ OfKind(v, "entry") = IF f = last THEN all \ {last}
                                      ELSE ((all \ {last}) \ {f}) \cup {Entry(f[2], last[3])}
      BY <2>4, EntriesMove
    <3>2. OfKind(v, "pool") = OfKind(w, "pool") /\ OfKind(v, "points") = OfKind(w, "points")
      BY <2>4, EntriesMove
    <3>3. \A h \in all : h[1] = "entry"
      BY DEF OfKind
    <3>4. Entry(f[2], last[3])[1] = "entry" /\ Entry(f[2], last[3])[2] = f[2]
      BY DEF Entry
    <3>5. List(all)
      BY <1>3
    <3> HIDE DEF all
    <3>6. List(all \ {last})
      BY <3>1, <3>3, <3>5, ListDrops
    <3>7. CASE f = last
      BY <1>3, <3>1, <3>2, <3>6, <3>7
    <3>8. CASE f # last
      <4>1. f \in all \ {last}
            /\ \A h \in (all \ {last}) \cup {Entry(f[2], last[3])} : h[1] = f[1]
        BY <3>1, <3>3, <3>4, <3>8
      <4>2. List(((all \ {last}) \ {f}) \cup {Entry(f[2], last[3])})
        BY <3>4, <3>6, <4>1, ListReplaces
      <4> QED
        BY <1>3, <3>1, <3>2, <3>8, <4>2
    <3> QED
      BY <3>7, <3>8
  <2> QED
    BY <2>1, <2>2, <2>3, <2>4 DEF Orderly
<1> HIDE DEF v
<1>5. \A kind \in NumberedKinds : List(OfKind(v, kind))
  BY <1>4 DEF NumberedKinds
<1>6. Chain(v)
  BY <1>1, <1>4, <1>5, ChainMeans
<1> QED
  BY <1>6 DEF v

----------------------------------------------------------------------------
(* What else changes the chain. *)

\* What changes the chain besides the commands of an upgrade: what the guardian does
\* and what takes the roles of the deployer. Neither touches what is numbered or what
\* there is one of.
Plain(c) ==
  /\ IsFiniteSet(c.adds) /\ c.claims = {} /\ c.clears = {} /\ c.special = "none"
  /\ \A f \in c.adds \cup c.removes \cup c.lifts :
       f[1] \in {"holds", "safe", "paused"} /\ (f \in c.adds => f[1] = "paused")

LEMMA PlainIsOrderly ==
  ASSUME NEW c, Plain(c)
  PROVE  Orderly(c)
<1>1. IsFiniteSet(c.adds) /\ IsFiniteSet(c.claims)
  BY FS_EmptySet DEF Plain
<1>2. \A f \in c.adds : ~Single(f)
  BY DEF Plain, Single
<1>3. \A f \in c.adds \cup c.removes \cup c.lifts : f[1] \notin NumberedKinds
  BY DEF Plain, NumberedKinds
<1>4. Functional({f \in c.adds : Single(f)})
  BY <1>2 DEF Functional
<1> QED
  BY <1>1, <1>2, <1>3, <1>4 DEF Plain, Orderly

LEMMA ActsArePlain ==
  ASSUME NEW c \in Interventions
  PROVE  Plain(c)
<1>1. ASSUME NEW g, NEW a, c = UnsetSafe(g, {a})
      PROVE  Plain(c)
  <2>1. /\ c.adds = {} /\ c.claims = {} /\ c.clears = {} /\ c.special = "none"
        /\ c.removes = {Safe(g, b) : b \in {a}} /\ c.lifts = {}
    BY <1>1 DEF UnsetSafe, By, Call
  <2> QED
    BY <2>1, FS_EmptySet DEF Plain, Safe
<1>2. ASSUME NEW r, NEW a, c = RevokeOverride(r, a)
      PROVE  Plain(c)
  <2>1. /\ c.adds = {} /\ c.claims = {} /\ c.clears = {} /\ c.special = "none"
        /\ c.removes = {Holds(r, a)} /\ c.lifts = {}
    BY <1>2 DEF RevokeOverride, By, Call
  <2> QED
    BY <2>1, FS_EmptySet DEF Plain, Holds
<1>3. ASSUME NEW k, NEW p, c = PausePart(k, p)
      PROVE  Plain(c)
  <2>1. /\ c.adds = {Paused(k, p)} /\ c.claims = {} /\ c.clears = {} /\ c.special = "none"
        /\ c.removes = {} /\ c.lifts = {}
    BY <1>3 DEF PausePart, By, Call
  <2>2. IsFiniteSet({Paused(k, p)})
    BY FS_Singleton
  <2> QED
    BY <2>1, <2>2 DEF Plain, Paused
<1> QED
  BY <1>1, <1>2, <1>3, InterventionKinds

LEMMA RevocationsArePlain ==
  ASSUME NEW r, NEW a
  PROVE  Plain(GovernorRevokes(r, a))
<1> DEFINE c == GovernorRevokes(r, a)
<1>1. /\ c.adds = {} /\ c.claims = {} /\ c.clears = {} /\ c.special = "none"
      /\ c.removes = {Holds(r, a)} /\ c.lifts = {}
  BY DEF GovernorRevokes, Revoke, Call
<1> QED
  BY <1>1, FS_EmptySet DEF Plain, Holds

\* sudo: the roles of the deployer are none of the offices.
LEMMA SudoIsPlain ==
  \A f \in {Holds(DeployerRoles[i], Deployer) : i \in DOMAIN DeployerRoles} :
    ~Single(f) /\ f[1] \notin NumberedKinds
<1>1. ASSUME NEW i \in DOMAIN DeployerRoles PROVE DeployerRoles[i] \notin Offices
  <2>1. i = 1 \/ i = 2 \/ i = 3 \/ i = 4
    BY DEF DeployerRoles
  <2>2. DeployerRoles[i] \in {"MINTER_ROLE", "BURNER_ROLE", "PCV_CONTROLLER_ROLE", "GOVERN_ROLE"}
    BY <2>1 DEF DeployerRoles, Mover, Governor
  <2> QED
    BY <2>2 DEF Offices, Mover, Governor
<1> QED
  BY <1>1 DEF Single, Holds, NumberedKinds

LEMMA SudoKeepsChain ==
  ASSUME NEW w, Chain(w)
  PROVE  Chain(w \cup {Holds(DeployerRoles[i], Deployer) : i \in DOMAIN DeployerRoles})
<1> DEFINE given == {Holds(DeployerRoles[i], Deployer) : i \in DOMAIN DeployerRoles}
<1>1. DOMAIN DeployerRoles = 1..4
  BY DEF DeployerRoles
<1>3. IsFiniteSet(given)
  <2>1. 1 \in Int /\ 4 \in Int
    OBVIOUS
  <2>2. IsFiniteSet(1..4)
    BY <2>1, FS_Interval
  <2>3. [i \in 1..4 |-> Holds(DeployerRoles[i], Deployer)] \in Surjection(1..4, given)
    BY <1>1 DEF Surjection
  <2> HIDE DEF given
  <2> QED
    BY <2>2, <2>3, FS_Surjection
<1>4. \A f \in given : ~Single(f) /\ f[1] \notin NumberedKinds
  BY SudoIsPlain
<1> HIDE DEF given
<1>5. Chain(w \cup given)
  BY <1>3, <1>4, PlainFacts
<1> QED
  BY <1>5 DEF given

\* A contract that brings what there was nothing of
LEMMA BirthsKeepChain ==
  ASSUME NEW w, NEW born, Chain(w), Chain(born), NotAmong(born, w),
         \A f \in born : f[1] \notin {"pool", "points"}
  PROVE  Chain(w \cup born)
<1> DEFINE v == w \cup born
<1>1. IsFiniteSet(v)
  BY ChainMeans, FS_Union
<1>2. ASSUME NEW f \in v, NEW g \in v, Single(f), Single(g), f[1] = g[1], f[2] = g[2]
      PROVE  f = g
  <2>1. CASE f \in w /\ g \in w
    BY <1>2, <2>1, ChainMeans DEF Functional
  <2>2. CASE f \in born /\ g \in born
    BY <1>2, <2>2, ChainMeans DEF Functional
  <2>3. ~(f \in born /\ g \in w) /\ ~(f \in w /\ g \in born)
    BY <1>2 DEF NotAmong, Rivals
  <2> QED
    BY <2>1, <2>2, <2>3
<1>3. Functional({f \in v : Single(f)})
  BY <1>2 DEF Functional
<1>4. ASSUME NEW kind \in NumberedKinds
      PROVE  OfKind(v, kind) = OfKind(w, kind) \/ OfKind(v, kind) = OfKind(born, kind)
  BY DEF OfKind, NotAmong, Rivals
<1>5. \A kind \in NumberedKinds : List(OfKind(v, kind))
  BY <1>4, ChainMeans
<1>6. OfKind(v, "pool") = OfKind(w, "pool") /\ OfKind(v, "points") = OfKind(w, "points")
  BY DEF OfKind
<1> HIDE DEF v
<1>7. Chain(v)
  BY <1>1, <1>3, <1>5, <1>6, ChainMeans
<1> QED
  BY <1>7 DEF v

\* and with it the safe addresses of the guardian it replaces.
LEMMA CopiesKeepChain ==
  ASSUME NEW w, NEW v, NEW d, Chain(w), Chain(v)
  PROVE  Chain(v \cup Copied(w, d))
<1> DEFINE old == {f \in OfKind(w, "safe") : f[2] \in d.copies}
           copied == {Safe(d.name, f[3]) : f \in old}
<1>1. copied = Copied(w, d)
  BY DEF Copied
<1>2. old \in SUBSET w
  BY DEF OfKind
<1>3. IsFiniteSet(old)
  BY <1>2, ChainMeans, FS_Subset
<1>4. [f \in old |-> Safe(d.name, f[3])] \in Surjection(old, copied)
  BY DEF Surjection
<1>5. \A f \in copied : ~Single(f) /\ f[1] \notin NumberedKinds
  BY DEF Safe, Single, NumberedKinds
<1> HIDE DEF old, copied
<1>6. IsFiniteSet(copied)
  BY <1>3, <1>4, FS_Surjection
<1> QED
  BY <1>1, <1>5, <1>6, PlainFacts

\* What a command brings about is of a kind that it brings.
LEMMA NotAmongAfter ==
  ASSUME NEW born, NEW w, NEW who, NEW c, NotAmong(born, w), NotAmong(born, Brings(c)),
         Orderly(c), \A f \in born : f[1] \notin {"pool", "points"}
  PROVE  NotAmong(born, After(w, who, c))
<1> SUFFICES ASSUME NEW f \in born, NEW g \in After(w, who, c), Rivals(f, g)
             PROVE  FALSE
  BY DEF NotAmong
<1>1. CASE g \in w
  BY <1>1 DEF NotAmong
<1>2. CASE g \in {Holds(r, who) : r \in c.claims}
  <2>1. PICK r \in c.claims : g = Holds(r, who)
    BY <1>2
  <2>2. Holds(r, "") \in Brings(c)
    BY DEF Brings
  <2>3. Rivals(f, Holds(r, ""))
    BY <2>1 DEF Rivals, Holds
  <2> QED
    BY <2>2, <2>3 DEF NotAmong
<1>3. CASE g \in Effect(w, c)
  <2>1. CASE c.special = "addPool"
    <3>1. PICK a \in c.adds : g \in {Pool(Size(w, "pool"), a[2]), Points(Size(w, "pool"), a[3])}
      BY <1>3, <2>1 DEF Effect
    <3> QED
      BY <3>1 DEF Pool, Points, Rivals
  <2>2. CASE c.special = "removeEntry"
    <3>1. g \in {Entry(a[2], b[3]) : a \in {a \in c.adds : a[2] # Size(w, "entry") - 1},
                   b \in {b \in OfKind(w, "entry") : b[2] = Size(w, "entry") - 1}}
      BY <1>3, <2>2 DEF Effect
    <3>2. PICK b \in OfKind(w, "entry") : TRUE
      BY <3>1
    <3>3. b \in w /\ b[1] = "entry" /\ g[1] = "entry"
      BY <3>1, <3>2 DEF OfKind, Entry
    <3>4. Rivals(f, b)
      BY <3>3 DEF Rivals, NumberedKinds, Single
    <3> QED
      BY <3>3, <3>4 DEF NotAmong
  <2>3. CASE c.special \notin {"addPool", "removeEntry"}
    <3>1. Effect(w, c) = c.adds
      BY <2>3 DEF Effect
    <3>2. g \in Brings(c)
      BY <1>3, <3>1 DEF Brings
    <3> QED
      BY <3>2 DEF NotAmong
  <2> QED
    BY <2>1, <2>2, <2>3
<1> QED
  BY <1>1, <1>2, <1>3 DEF After

\* Nothing has a rival in what is not numbered, nor held or given once only.
LEMMA PlainAreNoRivals ==
  ASSUME NEW born, NEW A, \A g \in A : ~Single(g) /\ g[1] \notin NumberedKinds
  PROVE  NotAmong(born, A)
BY DEF NotAmong, Rivals, Single

LEMMA PlainBringNoRivals ==
  ASSUME NEW born, NEW c, Plain(c)
  PROVE  NotAmong(born, Brings(c))
<1>1. Brings(c) = c.adds
  BY DEF Brings, Plain
<1>2. \A g \in c.adds : ~Single(g) /\ g[1] \notin NumberedKinds
  BY DEF Plain, Single, NumberedKinds
<1> QED
  BY <1>1, <1>2, PlainAreNoRivals

LEMMA NotAmongBoth ==
  ASSUME NEW born, NEW A, NEW B, NotAmong(born, A), NotAmong(born, B)
  PROVE  NotAmong(born, A \cup B)
BY DEF NotAmong

----------------------------------------------------------------------------
(* The facts are a chain, in a transaction and between two. *)
InOrder ==
  /\ Chain(work) /\ Chain(world)
  /\ next \in 1..Len(Upgrades) /\ upgrade = Upgrades[next] /\ pc \in Nat
  /\ deployed \cap Names = {} /\ stage \in Stages
  /\ operation \in {"unset", "waiting", "ready", "done"} /\ acts \in 0..MaxActs
  /\ (failure # "none") = (stage = "failed")

\* What is still to be deployed has no rival there.
Unborn ==
  \A n \in DOMAIN Upgrades : \A i \in 1..Len(Upgrades[n].deploys) :
    n > next \/ (n = next /\ (stage = "load" \/ (stage = "deploy" /\ i > pc))) =>
      /\ NotAmong(Upgrades[n].deploys[i].born, world)
      /\ NotAmong(Upgrades[n].deploys[i].born, work)

LEMMA InOrderAtFirst ==
  ASSUME OrderlyUpgrades, MaxActs \in Nat, Init
  PROVE  InOrder
<1>1. 1 \in 1..Len(Upgrades)
  BY DEF OrderlyUpgrades
<1>2. "load" \in Stages /\ "load" # "failed"
  BY DEF Stages
<1> QED
  BY <1>1, <1>2 DEF Init, InOrder, OrderlyUpgrades

LEMMA InOrderStays ==
  ASSUME OrderlyUpgrades, MaxActs \in Nat, InOrder, Unborn, MeanwhileFits, [Next]_vars
  PROVE  InOrder'
<1> USE DEF InOrder
<1>0. "execute" \in Stages /\ "deploy" \in Stages /\ "propose" \in Stages
      /\ "wait" \in Stages /\ "validate" \in Stages /\ "access" \in Stages
      /\ "done" \in Stages /\ "failed" \in Stages
  BY DEF Stages
<1>1. CASE Load
  <2>1. Chain(world') /\ work' = world'
    BY <1>1, SudoKeepsChain DEF Load, Transacts
  <2> QED
    BY <1>0, <1>1, <2>1 DEF Load
<1>2. CASE Deploy
  <2> DEFINE d == Upgrades[next].deploys[pc + 1]
  <2>1. next \in DOMAIN Upgrades /\ pc + 1 \in 1..Len(Upgrades[next].deploys)
    BY <1>2 DEF Deploy, MoreContracts, OrderlyUpgrades
  <2>2. NewlyBorn(next, pc + 1) /\ stage = "deploy"
    BY <1>2, <2>1 DEF OrderlyUpgrades, Deploy, MoreContracts
  <2>3. Chain(d.born) /\ d.name \notin Names /\ \A f \in d.born : f[1] \notin {"pool", "points"}
    BY <2>2 DEF NewlyBorn
  <2>4. NotAmong(d.born, world)
    BY <2>1, <2>2 DEF Unborn, OrderlyUpgrades
  <2>5. NextContract = d
    BY DEF NextContract
  <2>6. /\ world' = (world \cup d.born) \cup Copied(world, d) /\ work' = world'
        /\ deployed' = deployed \cup {d.name}
    BY <1>2, <2>5 DEF Deploy, Transacts
  <2> HIDE DEF d
  <2>7. Chain(world')
    BY <2>3, <2>4, <2>6, BirthsKeepChain, CopiesKeepChain
  <2> QED
    BY <1>2, <2>3, <2>6, <2>7 DEF Deploy
<1>3. CASE Setup
  <2>1. Chain(world') /\ work' = world'
    BY <1>3 DEF Setup, Transacts, MeanwhileFits, MoreContracts
  <2> QED
    BY <1>0, <1>3, <2>1 DEF Setup
<1>4. CASE Propose
  <2>1. operation' \in {"unset", "waiting"} /\ stage' \in {"execute", "wait"}
    BY <1>4 DEF Propose
  <2> QED
    BY <1>0, <1>4, <2>1 DEF Propose, chain
<1>5. CASE Wait
  BY <1>0, <1>5 DEF Wait, chain
<1>6. CASE ExecuteCommand
  <2>1. Orderly(NextCommand) /\ Succeeds(work, executor, NextCommand)
    <3>1. pc + 1 \in 1..Len(upgrade.commands)
      BY <1>6 DEF ExecuteCommand, MoreCommands, OrderlyUpgrades
    <3> QED
      BY <1>6, <3>1 DEF ExecuteCommand, OrderlyUpgrades, NextCommand, NextSucceeds
  <2>2. Chain(work')
    BY <1>6, <2>1, CommandsKeepChain DEF ExecuteCommand
  <2>3. Chain(world')
    BY <1>6, <2>2 DEF ExecuteCommand, Committed
  <2> QED
    BY <1>6, <2>2, <2>3 DEF ExecuteCommand
<1>7. CASE Commit
  BY <1>0, <1>7 DEF Commit, Transacts
<1>8. CASE NotReady
  BY <1>0, <1>8 DEF NotReady, chain
<1>9. CASE Validate
  <2>1. next' \in 1..Len(Upgrades) /\ upgrade' = Upgrades[next'] /\ stage' \in {"deploy", "access"}
    BY <1>9 DEF Validate, OrderlyUpgrades
  <2> QED
    BY <1>0, <1>9, <2>1 DEF Validate, chain
<1>10. CASE RevokeDeployAddressPermission
  <2> DEFINE c == RevokeFromDeployer[pc + 1]
  <2>1. Orderly(c) /\ Succeeds(world, Deployer, c)
    <3>1. pc + 1 \in DOMAIN DeployerRoles
      BY <1>10 DEF RevokeDeployAddressPermission, MoreRevocations, RevokeFromDeployer,
         DeployerRoles
    <3>2. c = GovernorRevokes(DeployerRoles[pc + 1], Deployer)
      BY <3>1 DEF RevokeFromDeployer
    <3> QED
      BY <1>10, <3>2, RevocationsArePlain, PlainIsOrderly
         DEF RevokeDeployAddressPermission, RevocationSucceeds
  <2>2. world' = After(world, Deployer, c) /\ work' = world'
    BY <1>10 DEF RevokeDeployAddressPermission, Transacts
  <2> HIDE DEF c
  <2>3. Chain(world') /\ work' = world'
    BY <2>1, <2>2, CommandsKeepChain
  <2> QED
    BY <1>0, <1>10, <2>3 DEF RevokeDeployAddressPermission, MoreRevocations
<1>11. CASE Throw
  <2>1. failure' # "none"
    BY <1>11 DEF Throw
  <2> QED
    BY <1>0, <1>11, <2>1 DEF Throw
<1>12. CASE GuardianActs
  <2>2. PICK c \in Interventions :
          /\ Succeeds(world, "guardianMultisig", c)
          /\ Transacts(After(world, "guardianMultisig", c))
    BY <1>12 DEF GuardianActs
  <2>3. Orderly(c)
    BY ActsArePlain, PlainIsOrderly
  <2>4. Chain(world') /\ work' = world'
    BY <2>2, <2>3, CommandsKeepChain DEF Transacts
  <2>5. acts' \in 0..MaxActs
    BY <1>12 DEF GuardianActs, MayAct
  <2> QED
    BY <1>12, <2>4, <2>5 DEF GuardianActs
<1>13. CASE Veto
  <2>1. acts < MaxActs /\ acts' = acts + 1
    BY <1>13 DEF Veto, MayAct
  <2>2. acts' \in 0..MaxActs
    BY <2>1
  <2> QED
    BY <1>13, <2>2 DEF Veto, chain
<1>14. CASE UNCHANGED vars
  BY <1>14 DEF vars
<1> QED
  BY <1>1, <1>2, <1>3, <1>4, <1>5, <1>6, <1>7, <1>8, <1>9, <1>10, <1>11, <1>12, <1>13, <1>14
     DEF Next, Coordinator

LEMMA UnbornAtFirst ==
  ASSUME OrderlyUpgrades, Init
  PROVE  Unborn
BY DEF OrderlyUpgrades, NewlyBorn, Init, Unborn

\* Nothing that a later upgrade deploys is there before.
LEMMA UnbornStays ==
  ASSUME OrderlyUpgrades, InOrder, Unborn, [Next]_vars
  PROVE  Unborn'
<1> SUFFICES ASSUME NEW n \in DOMAIN Upgrades, NEW i \in 1..Len(Upgrades[n].deploys),
                    (n > next \/ (n = next /\ (stage = "load" \/ (stage = "deploy" /\ i > pc))))'
             PROVE  /\ NotAmong(Upgrades[n].deploys[i].born, world')
                    /\ NotAmong(Upgrades[n].deploys[i].born, work')
  BY DEF Unborn
<1> DEFINE born == Upgrades[n].deploys[i].born
<1>0. /\ NewlyBorn(n, i) /\ DOMAIN Upgrades = 1..Len(Upgrades) /\ Len(Upgrades) \in Nat
      /\ Len(Upgrades[n].deploys) \in Nat /\ \A f \in born : f[1] \notin {"pool", "points"}
      /\ next \in Nat /\ pc \in Nat /\ next \in DOMAIN Upgrades /\ upgrade = Upgrades[next]
      /\ n \in Nat /\ i \in Nat
  BY DEF OrderlyUpgrades, NewlyBorn, InOrder
<1>a. \/ n > next
      \/ n = next /\ (stage = "load" \/ (stage = "deploy" /\ i > pc))
      \/ Validate /\ n = next
  <2>1. CASE Load
    BY <1>0, <2>1 DEF Load
  <2>2. CASE Deploy
    BY <1>0, <2>2 DEF Deploy, MoreContracts
  <2>3. CASE Validate
    BY <1>0, <2>3 DEF Validate
  <2>4. CASE Propose \/ Wait \/ Commit \/ Setup
    <3>1. next' = next /\ stage' \notin {"load", "deploy"}
      BY <2>4 DEF Propose, Wait, Commit, Setup
    <3> QED
      BY <3>1
  <2>5. CASE NotReady \/ Throw
    BY <2>5 DEF NotReady, Throw
  <2>6. CASE ExecuteCommand
    BY <2>6 DEF ExecuteCommand, MoreCommands
  <2>7. CASE RevokeDeployAddressPermission
    <3>1. next' = next /\ stage' \notin {"load", "deploy"}
      BY <2>7 DEF RevokeDeployAddressPermission, MoreRevocations
    <3> QED
      BY <3>1
  <2>8. CASE GuardianActs \/ Veto \/ UNCHANGED vars
    BY <2>8 DEF GuardianActs, Veto, vars
  <2> QED
    BY <2>1, <2>2, <2>3, <2>4, <2>5, <2>6, <2>7, <2>8 DEF Next, Coordinator
<1>v. ASSUME Validate, n = next PROVE FALSE
  BY <1>0, <1>v DEF Validate
<1>b. NotAmong(born, world) /\ NotAmong(born, work)
  BY <1>0, <1>a, <1>v DEF Unborn
<1> HIDE DEF born
<1> SUFFICES NotAmong(born, world') /\ NotAmong(born, work')
  BY DEF born
<1>1. CASE Load
  <2> DEFINE given == {Holds(DeployerRoles[k], Deployer) : k \in DOMAIN DeployerRoles}
  <2>1. NotAmong(born, given)
    BY SudoIsPlain, PlainAreNoRivals
  <2>2. world' = world \cup given /\ work' = world'
    BY <1>1 DEF Load, Transacts
  <2> QED
    BY <1>b, <2>1, <2>2, NotAmongBoth
<1>2. CASE Deploy
  <2> DEFINE d == Upgrades[next].deploys[pc + 1]
  <2>1. next \in DOMAIN Upgrades /\ pc + 1 \in 1..Len(Upgrades[next].deploys)
    BY <1>0, <1>2 DEF Deploy, MoreContracts, OrderlyUpgrades
  <2>2. <<next, pc + 1>> # <<n, i>>
    BY <1>0, <1>2, <1>a, <1>v DEF Deploy, MoreContracts
  <2>3. NotAmong(born, d.born)
    BY <1>0, <2>1, <2>2 DEF NewlyBorn, born
  <2>4. \A g \in Copied(world, d) : ~Single(g) /\ g[1] \notin NumberedKinds
    BY DEF Copied, Safe, Single, NumberedKinds
  <2>5. NextContract = d
    BY <1>0 DEF NextContract
  <2>6. world' = (world \cup d.born) \cup Copied(world, d) /\ work' = world'
    BY <1>2, <2>5 DEF Deploy, Transacts
  <2> HIDE DEF d
  <2>7. NotAmong(born, Copied(world, d))
    BY <2>4, PlainAreNoRivals
  <2>8. NotAmong(born, world \cup d.born)
    BY <1>b, <2>3, NotAmongBoth
  <2> QED
    BY <2>6, <2>7, <2>8, NotAmongBoth
<1>3. CASE Setup
  <2>1. world' = Prepared /\ work' = world'
    BY <1>3 DEF Setup, Transacts
  <2>2. CASE upgrade.name \in DOMAIN Meanwhile
    <3>1. NotAmong(born, Meanwhile[upgrade.name])
      BY <1>0, <2>2 DEF NewlyBorn, born
    <3> QED
      BY <1>b, <2>1, <2>2, <3>1, NotAmongBoth DEF Prepared
  <2>3. CASE upgrade.name \notin DOMAIN Meanwhile
    BY <1>b, <2>1, <2>3 DEF Prepared
  <2> QED
    BY <2>2, <2>3
<1>4. CASE ExecuteCommand
  <2>1. n > next
    BY <1>4, <1>a, <1>v DEF ExecuteCommand, MoreCommands
  <2>2. pc + 1 \in 1..Len(upgrade.commands)
    BY <1>0, <1>4 DEF ExecuteCommand, MoreCommands, OrderlyUpgrades
  <2>3. Orderly(NextCommand) /\ NotAmong(born, Brings(NextCommand))
    BY <1>0, <2>1, <2>2 DEF OrderlyUpgrades, NewlyBorn, NextCommand, born
  <2>4. work' = After(work, executor, NextCommand) /\ (world' = work' \/ world' = world)
    BY <1>4 DEF ExecuteCommand, Committed
  <2> QED
    BY <1>0, <1>b, <2>3, <2>4, NotAmongAfter
<1>5. CASE RevokeDeployAddressPermission
  <2> DEFINE c == RevokeFromDeployer[pc + 1]
  <2>1. Plain(c)
    <3>1. pc + 1 \in DOMAIN DeployerRoles
      BY <1>0, <1>5 DEF RevokeDeployAddressPermission, MoreRevocations, RevokeFromDeployer,
         DeployerRoles
    <3>2. c = GovernorRevokes(DeployerRoles[pc + 1], Deployer)
      BY <3>1 DEF RevokeFromDeployer
    <3> QED
      BY <3>2, RevocationsArePlain
  <2>2. world' = After(world, Deployer, c) /\ work' = world'
    BY <1>5 DEF RevokeDeployAddressPermission, Transacts
  <2> HIDE DEF c
  <2> QED
    BY <1>0, <1>b, <2>1, <2>2, PlainIsOrderly, PlainBringNoRivals, NotAmongAfter
<1>6. CASE GuardianActs
  <2>2. PICK c \in Interventions :
          Transacts(After(world, "guardianMultisig", c))
    BY <1>6 DEF GuardianActs
  <2>3. Plain(c)
    BY ActsArePlain
  <2> QED
    BY <1>0, <1>b, <2>2, <2>3, PlainIsOrderly, PlainBringNoRivals, NotAmongAfter DEF Transacts
<1>7. CASE Commit
  BY <1>b, <1>7 DEF Commit, Transacts
<1>8. CASE Throw
  BY <1>b, <1>8 DEF Throw
<1>9. CASE Propose \/ Wait \/ NotReady \/ Validate \/ Veto \/ UNCHANGED vars
  BY <1>b, <1>9 DEF Propose, Wait, NotReady, Validate, Veto, vars, chain
<1> QED
  BY <1>1, <1>2, <1>3, <1>4, <1>5, <1>6, <1>7, <1>8, <1>9 DEF Next, Coordinator

\* Type correctness: as long as what happens between two upgrades fits the chain, no command of an
\* orderly upgrade, nothing that is deployed or that the guardian does and no error in the middle of
\* a transaction leaves two holders of an office, two admins of a role, or a gap in the numbers of
\* the pools or the entries.
THEOREM ChainStaysInOrder ==
  ASSUME OrderlyUpgrades
  PROVE  Spec /\ []MeanwhileFits => []TypeOK
<1>1. Init => InOrder /\ Unborn
  BY InOrderAtFirst, UnbornAtFirst, UpgradesAssumption
<1>2. InOrder /\ Unborn /\ MeanwhileFits /\ [Next]_vars => (InOrder /\ Unborn)'
  BY InOrderStays, UnbornStays, UpgradesAssumption
<1>3. InOrder => TypeOK
  BY DEF InOrder, TypeOK
<1> QED
  BY <1>1, <1>2, <1>3, PTL DEF Spec
================================================================================
