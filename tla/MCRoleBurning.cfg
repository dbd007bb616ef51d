\* The calls of TIP-121c, and the same calls made again.
CONSTANTS
  daoTimelock = daoTimelock
  govern = govern
  guardian = guardian
  minter = minter
  temporary = temporary
  default = default
  People = {daoTimelock}
  Core = core
  GOVERN_ROLE = govern
  GUARDIAN_ROLE = guardian
  OtherMajors = {minter}
  DEFAULT_ADMIN = default
  CustomRoles = {temporary}
  Creations <- MCCreations
  FirstGovernor = daoTimelock
SPECIFICATION BurnSpec
PROPERTIES NeverGrantedAgain
CHECK_DEADLOCK FALSE
