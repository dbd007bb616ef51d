------------------------- MODULE MCMerkleRedemption -------------------------
(***************************************************************************)
(* Instances of MerkleRedemption for TLC: two users whose claims are worth  *)
(* more than the redeemer ever holds at once unless it is sent FEI, funding *)
(* that just covers them, and at first two amounts with the redeemer, as    *)
(* TIP-121b funded it.                                                      *)
(***************************************************************************)
EXTENDS MerkleRedemption, TLC

CONSTANTS alice, bob, c1, sigA, sigB

MCSignedBy == sigA :> alice @@ sigB :> bob
MCLeaves == c1 :> {<<alice, 3>>, <<bob, 1>>}
MCRate == c1 :> 3
MCInitialCTokens == c1 :> (alice :> 3 @@ bob :> 1)
MCInitialFei == Redeemer :> 4 @@ Dripper :> 2
=============================================================================
