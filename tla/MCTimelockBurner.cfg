\* Every contract of the directory, started at once or a second later,
\* handed over to a burner or not.
CONSTANTS
  funder = funder
  timelock = timelock
  People = {alice, burner, sink}
  Funders = {funder}
  Timelock = timelock
  ClawbackAdmin = admin
  Delegatees = {delegatee}
  FirstBeneficiary = alice
  Burner = burner
  Sink = sink
  NoOne = noone
  Duration = 3
  CliffSeconds = 2
  StartTimes = {2, 3}
  InitialTokens <- MCInitialTokens
  DeployTime = 2
  MaxTime = 6
  MaxAmount = 2
SPECIFICATION FairBurnerSpec
INVARIANTS VestedOnly NeverLockedOut DelegationsBacked
PROPERTIES ClawbackIsFair EverythingReleased HandoverIsFinal OnlyTheSinkGains EverythingPassedOn
CHECK_DEADLOCK FALSE
