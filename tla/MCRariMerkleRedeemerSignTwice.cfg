\* One user who can sign twice, one cToken.
CONSTANTS
  alice = alice
  bob = bob
  c1 = c1
  c2 = c2
  sigA1 = sigA1
  sigA2 = sigA2
  sigB = sigB
  Users = {alice}
  CTokens = {c1}
  Redeemer = redeemer
  Treasury = treasury
  Signatures = {sigA1, sigA2}
  SignedBy <- MCSignedBy
  NoSignature = nosig
  Leaves <- MCOneUserLeaves
  Rate <- MCOneUserRate
  Scale = 2
  InitialCTokens <- MCOneUserCTokens
  InitialFei <- MCInitialFei
  MaxAmount = 2
  MaxBatch = 2
SPECIFICATION Spec
PROPERTIES SignatureProvidedOnce
CHECK_DEADLOCK FALSE
