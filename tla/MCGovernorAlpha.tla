-------------------------- MODULE MCGovernorAlpha --------------------------
(***************************************************************************)
(* An instance of GovernorAlpha for TLC: alice can propose, and so can bob  *)
(* once votes move to him; proposals change the delay, call another         *)
(* contract, or hand the timelock to the burner.                            *)
(***************************************************************************)
EXTENDS GovernorAlpha, TLC

CONSTANTS alice, bob, call

Symmetric == Permutations({alice, bob})

MCInitialVotes == alice :> 2 @@ bob :> 2

MCActionSets ==
  LET CallTx == [fn |-> "call", arg |-> call]
  IN {{CallTx, [fn |-> "setDelay", arg |-> 2]}, {PendingAdminTx(Burner)}}
=============================================================================
