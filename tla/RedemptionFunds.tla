-------------------------- MODULE RedemptionFunds --------------------------
(***************************************************************************)
(* Whose FEI the redemption of TIP-121 is about: the users' and the         *)
(* redeemer's, from what the redeemer is given at first.                    *)
(***************************************************************************)
CONSTANTS
  Users,
  Redeemer,      \* address of the redeemer
  InitialFei     \* baseToken of the redeemer and of its treasury

VARIABLE fei     \* balances of baseToken
=============================================================================
