------------------------- MODULE MCSimpleFeiDaiPSM -------------------------
(***************************************************************************)
(* Instances of SimpleFeiDaiPSM for TLC: alice signs two permits with one   *)
(* nonce and one with the next, bob may burn, and another contract may be a *)
(* minter.                                                                  *)
(***************************************************************************)
EXTENDS SimpleFeiDaiPSM, TLC

CONSTANTS alice, bob

MCPermits ==
  {[owner |-> alice, spender |-> PSM, value |-> 2, nonce |-> 0, deadline |-> 0],
   [owner |-> alice, spender |-> bob, value |-> 1, nonce |-> 0, deadline |-> 1],
   [owner |-> alice, spender |-> PSM, value |-> 1, nonce |-> 1, deadline |-> 1]}

MCInitialFei == alice :> 2 @@ bob :> 0 @@ PSM :> 0
MCInitialDai == alice :> 0 @@ bob :> 1 @@ PSM :> 2
=============================================================================
