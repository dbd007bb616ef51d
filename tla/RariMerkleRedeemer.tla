------------------------- MODULE RariMerkleRedeemer -------------------------
(***************************************************************************)
(* contracts/shutdown/fuse/RariMerkleRedeemer.sol on the storage of         *)
(* MultiMerkleRedeemer.sol: users sign a message, prove by Merkle proofs    *)
(* the cTokens they held in a snapshot, and exchange cTokens for FEI at     *)
(* fixed rates.  Signatures and proofs are abstracted to what they verify:  *)
(* who signed, and which (user, amount) leaves the tree of a cToken has.    *)
(***************************************************************************)
EXTENDS ERC20, RedemptionFunds, Sequences, SequencesExt, FiniteSetsExt

CONSTANTS
  CTokens,        \* the supported cTokens
  Treasury,       \* whoever funds the redeemer with baseToken (the dripper)
  Signatures,     \* signatures of MESSAGE
  SignedBy,       \* [Signatures -> Users], what ECDSA.recover returns
  NoSignature,    \* the empty bytes of userSignatures[address(0)]
  Leaves,         \* [CTokens -> SUBSET (Users \X Nat)], the Merkle trees
  Rate,           \* cTokenExchangeRates
  Scale,          \* 1e18
  InitialCTokens, \* [CTokens -> [Users -> Nat]]
  MaxAmount,      \* bound of the amounts calls name
  MaxBatch        \* bound of the length of the arrays calls pass

FeiAccounts    == Users \cup {Redeemer, Treasury}
CTokenAccounts == Users \cup {Redeemer}

ASSUME MerkleAssumption ==
  /\ IsFiniteSet(Users) /\ IsFiniteSet(CTokens)
  /\ Users \cap {Redeemer, Treasury} = {} /\ Redeemer # Treasury
  /\ NoSignature \notin Signatures
  /\ SignedBy \in [Signatures -> Users]
  /\ \A c \in CTokens : Leaves[c] \subseteq Users \X Nat
  /\ Rate \in [CTokens -> Nat \ {0}]
  /\ Scale \in Nat \ {0}
  /\ \A c \in CTokens, u \in Users : InitialCTokens[c][u] \in Nat
  /\ InitialFei \in [{Redeemer, Treasury} -> Nat]
  /\ MaxAmount \in Nat
  /\ MaxBatch \in Nat

VARIABLES
  userSignatures,  \* the signature stored for each user
  claims,          \* claims[u][c]: cTokens of the user's proven claim
  redemptions,     \* redemptions[u][c]: cTokens redeemed so far
  cToken           \* cToken[c]: balances of cToken c

contractVars == <<userSignatures, claims, redemptions>>
vars == <<userSignatures, claims, redemptions, cToken, fei>>

(* The arrays of a call: cTokens[i] and amounts[i] as one sequence of items.*)
Items   == [cToken : CTokens, amount : 0 .. MaxAmount]
Batches == SeqOf(Items, MaxBatch)
Item(c, amount) == <<[cToken |-> c, amount |-> amount]>>

(* Indices of the items for cToken c, among the first n.                    *)
ItemsOf(batch, c, n) == {i \in 1 .. n : batch[i].cToken = c}

Total(batch, c, n) ==
  MapThenSumSet(LAMBDA i : batch[i].amount, ItemsOf(batch, c, n))

-----------------------------------------------------------------------------
Init ==
  /\ userSignatures = [u \in Users |-> NoSignature]
  /\ claims = [u \in Users |-> [c \in CTokens |-> 0]]
  /\ redemptions = [u \in Users |-> [c \in CTokens |-> 0]]
  /\ cToken = [c \in CTokens |->
                 [a \in CTokenAccounts |->
                    IF a = Redeemer THEN 0 ELSE InitialCTokens[c][a]]]
  /\ fei = [a \in FeiAccounts |-> IF a \in Users THEN 0 ELSE InitialFei[a]]

HasSigned(u) == userSignatures[u] # NoSignature

(* previewRedeem                                                            *)
PreviewRedeem(c, amount) == (Rate[c] * amount) \div Scale

(* _sign                                                                    *)
DoSign(u, signature) ==
  /\ SignedBy[signature] = u
  /\ userSignatures' = [userSignatures EXCEPT ![u] = signature]

ClaimableAgain(u, batch) ==   \* mutant: an earlier claim is not looked at
  \A i \in DOMAIN batch : <<u, batch[i].amount>> \in Leaves[batch[i].cToken]

(* _multiClaim: every item must be proven, for a cToken that has no claim   *)
(* yet, not even from an earlier item of the same batch.                    *)
Claimable(u, batch) ==
  \A i \in DOMAIN batch :
    /\ claims[u][batch[i].cToken] = 0
    /\ Total(batch, batch[i].cToken, i - 1) = 0
    /\ <<u, batch[i].amount>> \in Leaves[batch[i].cToken]

(* All the items of a cToken but the last then have amount zero, so what is *)
(* assigned last is their total.                                            *)
WithClaims(u, batch) ==
  [claims EXCEPT ![u] = [c \in CTokens |->
     IF ItemsOf(batch, c, Len(batch)) = {} THEN claims[u][c]
     ELSE Total(batch, c, Len(batch))]]

RedeemableSeparately(u, batch, claimed) ==   \* mutant: all checks come first
  \A i \in DOMAIN batch :
    /\ batch[i].amount # 0
    /\ redemptions[u][batch[i].cToken] + batch[i].amount
         <= claimed[u][batch[i].cToken]

(* _multiRedeem, the first loop: an item is checked after the items before  *)
(* it have been added to redemptions.                                       *)
Redeemable(u, batch, claimed) ==
  \A i \in DOMAIN batch :
    /\ batch[i].amount # 0
    /\ redemptions[u][batch[i].cToken] + Total(batch, batch[i].cToken, i)
         <= claimed[u][batch[i].cToken]

(* _multiRedeem, the second loop: cTokens in, baseToken out, item by item.  *)
Payout(batch) ==
  MapThenSumSet(LAMBDA i : PreviewRedeem(batch[i].cToken, batch[i].amount),
                DOMAIN batch)

ExchangeKeepsCTokens(u, batch) ==   \* mutant: no transferFrom
  /\ Payout(batch) <= fei[Redeemer]
  /\ fei' = Move(fei, Redeemer, u, Payout(batch))
  /\ UNCHANGED cToken

Exchange(u, batch) ==
  /\ \A c \in CTokens : Total(batch, c, Len(batch)) <= cToken[c][u]
  /\ Payout(batch) <= fei[Redeemer]
  /\ cToken' = [c \in CTokens |->
                  Move(cToken[c], u, Redeemer, Total(batch, c, Len(batch)))]
  /\ fei' = Move(fei, Redeemer, u, Payout(batch))

(* _redeem does with one item what _multiRedeem does with several.          *)
DoRedeem(u, batch, claimed) ==
  /\ Redeemable(u, batch, claimed)
  /\ redemptions' =
       [redemptions EXCEPT ![u] = [c \in CTokens |->
          redemptions[u][c] + Total(batch, c, Len(batch))]]
  /\ Exchange(u, batch)

-----------------------------------------------------------------------------
(* The external functions, with the modifiers hasSigned and hasNotSigned.   *)
(* One transaction is one step, which is what nonReentrant is for.          *)
Sign(u, signature) ==
  /\ ~HasSigned(u)
  /\ DoSign(u, signature)
  /\ UNCHANGED <<claims, redemptions, cToken, fei>>

MultiClaimUnsigned(u, batch) ==   \* mutant: without hasSigned
  /\ Claimable(u, batch)
  /\ claims' = WithClaims(u, batch)
  /\ UNCHANGED <<userSignatures, redemptions, cToken, fei>>

MultiClaim(u, batch) ==
  /\ HasSigned(u)
  /\ Claimable(u, batch)
  /\ claims' = WithClaims(u, batch)
  /\ UNCHANGED <<userSignatures, redemptions, cToken, fei>>

Claim(u, c, amount) == MultiClaim(u, Item(c, amount))

MultiRedeem(u, batch) ==
  /\ HasSigned(u)
  /\ DoRedeem(u, batch, claims)
  /\ UNCHANGED <<userSignatures, claims>>

Redeem(u, c, amount) == MultiRedeem(u, Item(c, amount))

(* signAndClaim has no hasNotSigned.                                        *)
SignAndClaim(u, signature, batch) ==
  /\ DoSign(u, signature)
  /\ Claimable(u, batch)
  /\ claims' = WithClaims(u, batch)
  /\ UNCHANGED <<redemptions, cToken, fei>>

ClaimAndRedeem(u, batch) ==
  /\ HasSigned(u)
  /\ Claimable(u, batch)
  /\ claims' = WithClaims(u, batch)
  /\ DoRedeem(u, batch, claims')
  /\ UNCHANGED userSignatures

(* The amounts to claim and to redeem are two arrays beside one of cTokens. *)
SignAndClaimAndRedeem(u, signature, toClaim, toRedeem) ==
  /\ ~HasSigned(u)
  /\ DoSign(u, signature)
  /\ Len(toClaim) = Len(toRedeem)
  /\ \A i \in DOMAIN toClaim : toClaim[i].cToken = toRedeem[i].cToken
  /\ Claimable(u, toClaim)
  /\ claims' = WithClaims(u, toClaim)
  /\ DoRedeem(u, toRedeem, claims')

(* Around the contract: users trade cTokens or lose them to it, and it is   *)
(* funded in parts.                                                         *)
CTokenTransfer(c, u, to, amount) ==
  /\ amount <= cToken[c][u]
  /\ cToken' = [cToken EXCEPT ![c] = Move(cToken[c], u, to, amount)]
  /\ UNCHANGED <<contractVars, fei>>

Fund(amount) ==
  /\ amount <= fei[Treasury]
  /\ fei' = Move(fei, Treasury, Redeemer, amount)
  /\ UNCHANGED <<contractVars, cToken>>

UserCall(u) ==
  \/ \E s \in Signatures : Sign(u, s)
  \/ \E c \in CTokens, n \in 0 .. MaxAmount : Claim(u, c, n)
  \/ \E c \in CTokens, n \in 0 .. MaxAmount : Redeem(u, c, n)
  \/ \E b \in Batches : MultiClaim(u, b)
  \/ \E b \in Batches : MultiRedeem(u, b)
  \/ \E b \in Batches : ClaimAndRedeem(u, b)
  \/ \E s \in Signatures, b \in Batches : SignAndClaim(u, s, b)
  \/ \E s \in Signatures, b1, b2 \in Batches : SignAndClaimAndRedeem(u, s, b1, b2)

Next ==
  \/ \E u \in Users : UserCall(u)
  \/ \E c \in CTokens, u \in Users, to \in CTokenAccounts, n \in 1 .. MaxAmount :
       CTokenTransfer(c, u, to, n)
  \/ \E n \in 1 .. MaxAmount : Fund(n)

Spec == Init /\ [][Next]_vars

-----------------------------------------------------------------------------
TypeOK ==
  /\ userSignatures \in [Users -> Signatures \cup {NoSignature}]
  /\ claims \in [Users -> [CTokens -> Nat]]
  /\ redemptions \in [Users -> [CTokens -> Nat]]
  /\ cToken \in [CTokens -> [CTokenAccounts -> Nat]]
  /\ fei \in [FeiAccounts -> Nat]

(* Nobody claims or redeems before their own signature of the message is    *)
(* stored, through whichever of the eight functions.                        *)
SignedFirst ==
  \A u \in Users :
    (\E c \in CTokens : claims[u][c] # 0 \/ redemptions[u][c] # 0) =>
      HasSigned(u) /\ SignedBy[userSignatures[u]] = u

(* Every cToken counted as redeemed is in the custody of the redeemer.      *)
RedeemedHeld ==
  \A c \in CTokens :
    cToken[c][Redeemer] >= MapThenSumSet(LAMBDA u : redemptions[u][c], Users)

(* The most a user can still claim or redeem in a cToken.                   *)
Entitlement(u, c) ==
  IF claims[u][c] # 0 THEN claims[u][c]
  ELSE Max({0} \cup {n \in 0 .. MaxAmount : <<u, n>> \in Leaves[c]})

Unredeemed(u, c) == Max({0, Entitlement(u, c) - redemptions[u][c]})

Owed == MapThenSumSet(
  LAMBDA p : PreviewRedeem(p[2], Unredeemed(p[1], p[2])), Users \X CTokens)

(* Funding that covers the whole distribution at first covers what is left  *)
(* of it after any redemptions: splitting a redemption gains nothing.       *)
StillCovered == fei[Redeemer] + fei[Treasury] >= Owed

(* The contract implements the abstract ledger of redemptions.              *)
Ledger == INSTANCE RedemptionLedger WITH
  Distribution <- [u \in Users |-> [c \in CTokens |->
                     {n \in 0 .. MaxAmount : <<u, n>> \in Leaves[c]}]],
  entitled <- claims,
  redeemed <- redemptions,
  paid <- [u \in Users |-> fei[u]]

ImplementsLedger == Ledger!LedgerSpec

(* "one signature per user, can only be provided once"                      *)
(* (MultiMerkleRedeemer.sol:41).                                            *)
SignatureProvidedOnce ==
  [][\A u \in Users : HasSigned(u) => userSignatures'[u] = userSignatures[u]]_vars
=============================================================================
