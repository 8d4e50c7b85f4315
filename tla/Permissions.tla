----------------------------- MODULE Permissions -----------------------------
(***************************************************************************)
(* The roles of the system, kept by Core (contracts/core/Permissions.sol), *)
(* and the RoleBastion (contracts/pods/RoleBastion.sol), which is a        *)
(* governor so that holders of ROLE_ADMIN can create roles through it.     *)
(* Who may give a role to an account is decided by the role's own admin    *)
(* role, as in OpenZeppelin's AccessControl.                               *)
(***************************************************************************)
EXTENDS FiniteSets

CONSTANTS
  User,                 \* the accounts that send transactions
  core, bastion,        \* the contracts
  deployer,             \* calls Core.init
  GOVERN_ROLE, GUARDIAN_ROLE, ROLE_ADMIN,
  MajorRole,            \* the roles that Core sets up
  OtherRole,            \* the roles that are created later
  NoRole,               \* bytes32(0), the admin of a role not created
  NewRole, NewAdmin     \* what governors call createRole with

(* Bound: contracts are given the governor role only; no other is used by them. *)
Grantee(role) == IF role = GOVERN_ROLE THEN User \cup {core, bastion} ELSE User

Role == MajorRole \cup OtherRole \cup {NoRole}
Account == User \cup {core, bastion}

ASSUME RoleAssumption ==
  /\ {GOVERN_ROLE, GUARDIAN_ROLE} \subseteq MajorRole
  /\ ROLE_ADMIN \in OtherRole
  /\ MajorRole \cap OtherRole = {}
  /\ NoRole \notin MajorRole \cup OtherRole
  /\ GOVERN_ROLE # GUARDIAN_ROLE
  /\ NewRole \cup NewAdmin \subseteq MajorRole \cup OtherRole  \* governors never pass bytes32(0)
  /\ deployer \in User
  /\ core \notin User /\ bastion \notin User /\ core # bastion

VARIABLES
  members,              \* the accounts that hold each role
  roleAdmin,            \* getRoleAdmin
  bastionPaused

roleVars == <<members, roleAdmin, bastionPaused>>

isGovernor(a) == a \in members[GOVERN_ROLE]
isGuardian(a) == a \in members[GUARDIAN_ROLE]
CanManage(a, role) == a \in members[roleAdmin[role]]

----------------------------------------------------------------------------
(* After the constructor and init *)
RolesInit ==
  /\ members = [role \in Role |-> IF role = GOVERN_ROLE THEN {core, deployer} ELSE {}]
  /\ roleAdmin = [role \in Role |-> IF role \in MajorRole THEN GOVERN_ROLE ELSE NoRole]
  /\ bastionPaused = FALSE

(* External: AccessControl.grantRole, revokeRole and renounceRole *)
grantRole(caller, role, a) ==
  /\ CanManage(caller, role)
  /\ members' = [members EXCEPT ![role] = @ \cup {a}]
  /\ UNCHANGED <<roleAdmin, bastionPaused>>

revokeRole(caller, role, a) ==
  /\ CanManage(caller, role)
  /\ members' = [members EXCEPT ![role] = @ \ {a}]
  /\ UNCHANGED <<roleAdmin, bastionPaused>>

renounceRole(caller, role) ==
  /\ members' = [members EXCEPT ![role] = @ \ {caller}]
  /\ UNCHANGED <<roleAdmin, bastionPaused>>

(* grantMinter, grantGovernor, ..., and the same for revoking *)
GrantMajor(caller, role, a) ==
  /\ isGovernor(caller)
  /\ grantRole(caller, role, a)

RevokeMajor(caller, role, a) ==
  /\ isGovernor(caller)
  /\ revokeRole(caller, role, a)

createRole(caller, role, adminRole) ==
  /\ isGovernor(caller)
  /\ roleAdmin' = [roleAdmin EXCEPT ![role] = adminRole]
  /\ UNCHANGED <<members, bastionPaused>>

(* Core calls itself: it revokes as a governor, not as the guardian. *)
revokeOverride(caller, role, a) ==
  /\ isGuardian(caller)
  /\ role # GOVERN_ROLE
  /\ revokeRole(core, role, a)

(* Faulty: takes over a role that is managed already. *)
BastionCreatesExisting(caller, role) ==
  /\ caller \in members[ROLE_ADMIN]
  /\ ~bastionPaused
  /\ role # NoRole
  /\ createRole(bastion, role, ROLE_ADMIN)

(* Faulty: creates the role of bytes32(0), too. *)
BastionCreatesZero(caller, role) ==
  /\ caller \in members[ROLE_ADMIN]
  /\ ~bastionPaused
  /\ roleAdmin[role] = NoRole
  /\ createRole(bastion, role, ROLE_ADMIN)

(* RoleBastion.createRole *)
BastionCreateRole(caller, role) ==
  /\ caller \in members[ROLE_ADMIN]
  /\ ~bastionPaused
  /\ role # NoRole
  /\ roleAdmin[role] = NoRole
  /\ createRole(bastion, role, ROLE_ADMIN)

(* pause and unpause of the bastion *)
PauseBastion(caller) ==
  /\ isGuardian(caller) \/ isGovernor(caller)
  /\ bastionPaused' = ~bastionPaused
  /\ UNCHANGED <<members, roleAdmin>>

Step(caller) ==
  \/ \E role \in Role :
       \/ \E a \in Grantee(role) :
            \/ grantRole(caller, role, a)
            \/ revokeRole(caller, role, a)
            \/ role \in MajorRole /\ GrantMajor(caller, role, a)
            \/ role \in MajorRole /\ RevokeMajor(caller, role, a)
            \/ revokeOverride(caller, role, a)
       \/ renounceRole(caller, role)
       \/ BastionCreateRole(caller, role)
  \/ \E role \in NewRole, adminRole \in NewAdmin : createRole(caller, role, adminRole)
  \/ PauseBastion(caller)

RolesNext == \E caller \in User : Step(caller)

RolesSpec == RolesInit /\ [][RolesNext]_roleVars

----------------------------------------------------------------------------
RolesTypeOK ==
  /\ members \in [Role -> SUBSET Account]
  /\ roleAdmin \in [Role -> Role]
  /\ bastionPaused \in BOOLEAN

(* Permissions.sol:41-43, 108-113 and RoleBastion.sol:22-29.  Core and the       *)
(* bastion act as governors for guardians and for holders of ROLE_ADMIN.  Still, *)
(* unless a governor says otherwise, a role that governors manage stays with     *)
(* governors, and gains no holder; and nobody loses the governor role but who    *)
(* gives it up.                                                                  *)
GovernorsDecide ==
  [][\A caller \in User :
       Step(caller) /\ ~isGovernor(caller) =>
         /\ \A role \in Role : roleAdmin[role] = GOVERN_ROLE =>
              roleAdmin'[role] = GOVERN_ROLE /\ members'[role] \subseteq members[role]
         /\ roleAdmin[GOVERN_ROLE] = GOVERN_ROLE =>
              members[GOVERN_ROLE] \ {caller} \subseteq members'[GOVERN_ROLE]]_roleVars

(* RoleBastion.sol:22-29.  bytes32(0) is the admin of every role that was not    *)
(* created: nobody ever holds it, nor any role before it is created.             *)
UncreatedUnheld ==
  \A role \in Role : roleAdmin[role] = NoRole => members[role] = {}
=============================================================================
