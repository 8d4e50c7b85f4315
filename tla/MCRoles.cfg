CONSTANTS
  User = {deployer, u1}
  core = core
  bastion = bastion
  deployer = deployer
  GOVERN_ROLE = GOVERN_ROLE
  GUARDIAN_ROLE = GUARDIAN_ROLE
  ROLE_ADMIN = ROLE_ADMIN
  MajorRole = {GOVERN_ROLE, GUARDIAN_ROLE}
  OtherRole = {ROLE_ADMIN, pod}
  NoRole = NoRole
  NewRole = {ROLE_ADMIN, GUARDIAN_ROLE}
  NewAdmin = {GOVERN_ROLE, ROLE_ADMIN}
SPECIFICATION RolesSpec
INVARIANT UncreatedUnheld
PROPERTY GovernorsDecide
