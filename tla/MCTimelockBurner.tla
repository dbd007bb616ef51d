-------------------------- MODULE MCTimelockBurner --------------------------
(***************************************************************************)
(* Instances of TimelockBurner for TLC: the first beneficiary, the burner,  *)
(* the sink and a funder that never gets its tokens back, so that the       *)
(* amounts ever locked are bounded.                                         *)
(***************************************************************************)
EXTENDS TimelockBurner, TLC

CONSTANTS funder, timelock

MCInitialTokens == timelock :> 2 @@ funder :> 2
=============================================================================
