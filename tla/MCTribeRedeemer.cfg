\* Two holders, a basket of two tokens of which one rebases.
CONSTANTS
  alice = alice
  bob = bob
  fei = fei
  steth = steth
  Redeemer = redeemer
  Users = {alice, bob}
  Tokens = {fei, steth}
  Rebasing = {steth}
  InitialBase = 4
  InitialTribes <- MCInitialTribes
  InitialBasket <- MCBasket
  MaxAmount = 3
  MaxRebase = 2
SPECIFICATION Spec
INVARIANTS NeverBricked HoldersCanExit
PROPERTIES ShareNeverFalls LastRedemptionDrains
CHECK_DEADLOCK FALSE
