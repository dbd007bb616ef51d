\* A governor puts the administration of a role under another role.
CONSTANTS
  gov = gov
  guard = guard
  govern = govern
  guardian = guardian
  minter = minter
  custom = custom
  default = default
  roleAdmin = roleAdmin
  minor = minor
  People = {gov, guard}
  Core = core
  GOVERN_ROLE = govern
  GUARDIAN_ROLE = guardian
  OtherMajors = {}
  DEFAULT_ADMIN = default
  CustomRoles = {roleAdmin, minor}
  Creations <- MCRoleAdminCreations
  FirstGovernor = gov
SPECIFICATION Spec
INVARIANTS GuardianCanRevoke
CHECK_DEADLOCK FALSE
