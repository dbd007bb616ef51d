\* ERC20Dripper: drips whenever the period is over.
CONSTANTS
  dripper = dripper
  target = target
  holder = holder
  Dripper = dripper
  Target = target
  Others = {holder}
  Duration = 2
  AmountToDrip = 2
  InitialBal <- MCInitialBal
  DeployTime = 1
  MaxTime = 8
  MaxAmount = 3
SPECIFICATION Spec
INVARIANTS RateLimit
CHECK_DEADLOCK FALSE
