-------------------------- MODULE MCTribeRedeemer --------------------------
(***************************************************************************)
(* Instances of TribeRedeemer for TLC.  The base is all the TRIBE there is, *)
(* or less; amounts share no factor with it, so divisions have remainders.  *)
(***************************************************************************)
EXTENDS TribeRedeemer, TLC

CONSTANTS alice, bob, fei, steth

MCInitialTribes == {alice :> 3 @@ bob :> 1, alice :> 3 @@ bob :> 2}

MCBasket == fei :> 3 @@ steth :> 2
=============================================================================
