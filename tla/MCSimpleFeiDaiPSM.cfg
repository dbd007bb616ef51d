\* Two DAI in the PSM for two FEI in circulation, and one DAI to come.
CONSTANTS
  alice = alice
  bob = bob
  Users = {alice, bob}
  Contracts = {psm}
  PSM = psm
  Spenders = {psm, bob}
  Minters = {psm, lender}
  Burners = {bob}
  Permits <- MCPermits
  InitialFei <- MCInitialFei
  InitialSupply = 2
  InitialDai <- MCInitialDai
  MaxTime = 1
  MaxSupply = 1
  MaxApproved = 1
  MaxAmount = 2
SPECIFICATION Spec
INVARIANTS SpendsWhatWasApproved CirculationCovered NobodyIsLast
PROPERTIES WrapperOnly
CHECK_DEADLOCK FALSE
