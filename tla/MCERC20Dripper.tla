--------------------------- MODULE MCERC20Dripper ---------------------------
(***************************************************************************)
(* Instances of ERC20Dripper for TLC: one holder beside the dripper and its *)
(* target, and a clock that outlasts three periods.                         *)
(***************************************************************************)
EXTENDS ERC20Dripper, TLC

CONSTANTS dripper, target, holder

MCInitialBal == dripper :> 3 @@ target :> 1 @@ holder :> 1
=============================================================================
