-------------------------- MODULE MerkleRedemption --------------------------
(***************************************************************************)
(* The Rari redemption of TIP-121 as it is deployed: a RariMerkleRedeemer   *)
(* that holds little FEI and a MerkleRedeemerDripper that refills it, on    *)
(* one ledger of FEI.  Users sign, claim and redeem, anybody calls drip,    *)
(* the guardian may pause the dripper, the PCV controller may withdraw from *)
(* it to any address, and FEI is sent from anybody to anybody.              *)
(***************************************************************************)
EXTENDS Integers, RedemptionPace

CONSTANTS
  CTokens, Dripper,
  Dao,      \* everybody else who holds FEI, the DAO's other contracts included
  DaoFei,   \* FEI they hold at first
  Signatures, SignedBy, NoSignature, Leaves, Rate, Scale, InitialCTokens,
  MaxTime, MaxAmount

VARIABLES
  userSignatures, claims, redemptions, cToken,  \* of the redeemer
  now, paused,                                  \* of the dripper
  withdrawn                \* history: FEI was withdrawn from the dripper

redeemerVars == <<userSignatures, claims, redemptions, cToken>>
dripperVars  == <<now, startTime, paused, drips>>
history      == <<withdrawn, brought, sent>>
vars == <<redeemerVars, dripperVars, fei, history>>

Inside     == Users \cup {Redeemer}
FeiHolders == Inside \cup {Dripper, Dao}

R == INSTANCE RariMerkleRedeemer WITH
       Treasury <- Dripper, MaxBatch <- 1

D == INSTANCE ERC20Dripper WITH
       Target <- Redeemer, Others <- Users \cup {Dao},
       InitialBal <- [a \in FeiHolders |->
                        IF a \in Users THEN 0
                        ELSE IF a = Dao THEN DaoFei ELSE InitialFei[a]],
       bal <- fei

ASSUME RedemptionAssumption ==
  /\ R!MerkleAssumption
  /\ D!DripperAssumption
  /\ Dao \notin Users
  /\ DaoFei \in Nat

Init ==
  /\ userSignatures = [u \in Users |-> NoSignature]
  /\ claims = [u \in Users |-> [c \in CTokens |-> 0]]
  /\ redemptions = [u \in Users |-> [c \in CTokens |-> 0]]
  /\ cToken = [c \in CTokens |->
                 [a \in Users \cup {Redeemer} |->
                    IF a = Redeemer THEN 0 ELSE InitialCTokens[c][a]]]
  /\ D!Init
  /\ withdrawn = FALSE
  /\ brought = 0
  /\ sent = 0

Enrol(u) ==
  /\ \/ \E s \in Signatures : R!Sign(u, s)
     \/ \E c \in CTokens, n \in 1 .. MaxAmount : R!Claim(u, c, n)
  /\ UNCHANGED <<dripperVars, history>>

Redeem(u, c, amount) ==
  R!Redeem(u, c, amount) /\ UNCHANGED <<dripperVars, history>>

Drip ==
  /\ D!MerkleDrip
  /\ sent' = 0
  /\ UNCHANGED <<redeemerVars, withdrawn, brought>>

Pause == (D!Pause \/ D!Unpause) /\ UNCHANGED <<redeemerVars, history>>

Noted(from, to, amount) ==
  /\ brought' = brought + (IF to \in Inside THEN amount ELSE 0)
                        - (IF from \in Inside THEN amount ELSE 0)
  /\ sent' = sent + (IF to = Redeemer THEN amount ELSE 0)

Withdraw(to, amount) ==
  /\ D!Withdraw(to, amount)
  /\ Noted(Dripper, to, amount)
  /\ withdrawn' = TRUE
  /\ UNCHANGED redeemerVars

(* A user or somebody else sends FEI: back to the redeemer, to the dripper  *)
(* or to one another.                                                       *)
Transfer(from, to, amount) ==
  /\ D!Transfer(from, to, amount)
  /\ Noted(from, to, amount)
  /\ UNCHANGED <<redeemerVars, withdrawn>>

(* Once the period is over, later times are the same to the dripper.        *)
Tick == ~D!TimeEnded /\ D!Tick /\ UNCHANGED <<redeemerVars, history>>

Next ==
  \/ \E u \in Users : Enrol(u)
  \/ \E u \in Users, c \in CTokens, n \in 1 .. MaxAmount : Redeem(u, c, n)
  \/ Drip
  \/ Pause
  \/ \E to \in FeiHolders, n \in 1 .. MaxAmount : Withdraw(to, n)
  \/ \E from \in Users \cup {Dao}, to \in FeiHolders, n \in 1 .. MaxAmount :
       Transfer(from, to, n)
  \/ Tick

(* Time passes; drip is open to anybody, the claimants who want their FEI   *)
(* included; a user who can enrol or redeem a unit of a cToken does so.     *)
Fairness ==
  /\ WF_vars(Tick)
  /\ WF_vars(Drip)
  /\ \A u \in Users : WF_vars(Enrol(u))
  /\ \A u \in Users, c \in CTokens : WF_vars(Redeem(u, c, 1))

Spec == Init /\ [][Next]_vars /\ Fairness

-----------------------------------------------------------------------------
Settled(u) ==
  \A c \in CTokens :
    (\E leaf \in Leaves[c] : leaf[1] = u) =>
      claims[u][c] # 0 /\ redemptions[u][c] = claims[u][c]

(* Every user in the trees is paid in full in the end, if they redeem in    *)
(* pieces, nothing is withdrawn from the dripper and the guardian does not  *)
(* keep it paused.                                                          *)
EveryUserSettled ==
  []~withdrawn /\ <>[]~paused => \A u \in Users : <>Settled(u)
=============================================================================
