\* Two users and two cTokens, batches of up to two items.
CONSTANTS
  alice = alice
  bob = bob
  c1 = c1
  c2 = c2
  sigA1 = sigA1
  sigA2 = sigA2
  sigB = sigB
  Users = {alice, bob}
  CTokens = {c1, c2}
  Redeemer = redeemer
  Treasury = treasury
  Signatures = {sigA1, sigB}
  SignedBy <- MCSignedBy
  NoSignature = nosig
  Leaves <- MCLeaves
  Rate <- MCRate
  Scale = 2
  InitialCTokens <- MCInitialCTokens
  InitialFei <- MCInitialFei
  MaxAmount = 2
  MaxBatch = 2
SPECIFICATION Spec
INVARIANTS SignedFirst RedeemedHeld StillCovered
PROPERTIES ImplementsLedger
CHECK_DEADLOCK FALSE
