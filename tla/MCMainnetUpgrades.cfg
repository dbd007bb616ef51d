SPECIFICATION FairSpec
CONSTANTS
  History      <- MainnetHistory
  Roles        <- UpgradeRoles
  Accounts     <- AllContracts
  Administered <- AdministeredContracts
  Guardians    = {"pcvGuardianV1", "pcvGuardian"}
  Genesis      <- InitialConfiguration
  Existing     <- OldContracts
  CopiedFrom   <- GuardianCopies
  Awaited      <- MadeAfter
  Vetoable     <- VetoableProposals
  Window       = 3
  MaxFaults    = 1
INVARIANTS
  Validated
  ConfiguredAtTheEnd
  CountedOnce
  NoRoleOrphaned
  NoPowerFromNowhere
PROPERTIES
  ExecutedAsWholes
  EverythingExecuted
CHECK_DEADLOCK FALSE
