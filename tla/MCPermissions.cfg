\* Two accounts that may hold any role, and admins that change.
CONSTANTS
  gov = gov
  guard = guard
  govern = govern
  guardian = guardian
  minter = minter
  custom = custom
  default = default
  roleAdmin = roleAdmin
  minor = minor
  People = {gov, guard}
  Core = core
  GOVERN_ROLE = govern
  GUARDIAN_ROLE = guardian
  OtherMajors = {minter}
  DEFAULT_ADMIN = default
  CustomRoles = {custom}
  Creations <- MCCreations
  FirstGovernor = gov
SPECIFICATION Spec
PROPERTIES ShutdownIsFinal NoEscalation
CHECK_DEADLOCK FALSE
