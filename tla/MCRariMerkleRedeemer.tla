------------------------ MODULE MCRariMerkleRedeemer ------------------------
(***************************************************************************)
(* Instances of RariMerkleRedeemer for TLC.  Alice can sign in two ways,    *)
(* and the tree of one cToken has two leaves for her, of which she may use  *)
(* one.  One rate is a fraction that rounds.                                *)
(***************************************************************************)
EXTENDS RariMerkleRedeemer, TLC

CONSTANTS alice, bob, c1, c2, sigA1, sigA2, sigB

MCSignedBy == [s \in Signatures |-> IF s = sigB THEN bob ELSE alice]

MCLeaves == c1 :> {<<alice, 2>>, <<bob, 1>>} @@ c2 :> {<<alice, 1>>, <<alice, 2>>}

MCRate == c1 :> 3 @@ c2 :> 2

MCInitialCTokens ==
  c1 :> (alice :> 2 @@ bob :> 1) @@ c2 :> (alice :> 1 @@ bob :> 1)

(* Exactly what the distribution is worth: 3 + 1 for c1 and 2 for c2.       *)
MCInitialFei == Redeemer :> 3 @@ Treasury :> 3

(* Two signatures for one user.                                             *)
MCOneUserLeaves == c1 :> {<<alice, 2>>}
MCOneUserCTokens == c1 :> (alice :> 3)
MCOneUserRate == c1 :> 3
=============================================================================
