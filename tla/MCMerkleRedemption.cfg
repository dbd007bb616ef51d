\* The dripper is paused, unpaused and withdrawn from, and FEI is sent around.
CONSTANTS
  alice = alice
  bob = bob
  c1 = c1
  sigA = sigA
  sigB = sigB
  Users = {alice, bob}
  CTokens = {c1}
  Redeemer = redeemer
  Dripper = dripper
  Dao = dao
  DaoFei = 0
  Signatures = {sigA, sigB}
  SignedBy <- MCSignedBy
  NoSignature = nosig
  Leaves <- MCLeaves
  Rate <- MCRate
  Scale = 2
  InitialCTokens <- MCInitialCTokens
  InitialFei <- MCInitialFei
  Duration = 2
  AmountToDrip = 2
  DeployTime = 1
  MaxTime = 9
  MaxAmount = 3
SPECIFICATION Spec
INVARIANTS PacedRelease LittleAtRisk
PROPERTIES EveryUserSettled
CHECK_DEADLOCK FALSE
