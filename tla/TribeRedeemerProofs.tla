------------------------ MODULE TribeRedeemerProofs ------------------------
(***************************************************************************)
(* Theorems about TribeRedeemer, for any set of holders, any basket and any *)
(* amounts.  The inductive invariant is TypeOK together with NeverBricked:  *)
(* a share of less than the whole base, rounded down, leaves something of   *)
(* every token of the basket.  That holders can exit needs one more part:   *)
(* what has left the base is in the custody of the redeemer.                *)
(***************************************************************************)
EXTENDS TribeRedeemer, Arithmetic

IInv == TypeOK /\ NeverBricked

(* Every unit taken off the base is TRIBE that the redeemer now holds.      *)
BaseInCustody == InitialBase <= redeemBase + tribe[Redeemer]

(* redeem pays every basket token by one transfer of its rounded share, and *)
(* a transfer keeps balances natural.                                       *)
LEMMA RedeemStep ==
  ASSUME TypeOK,
         NEW user \in Users, NEW to \in Accounts, NEW n \in Nat,
         Redeem(user, to, n)
  PROVE  /\ TypeOK'
         /\ redeemBase' = redeemBase - n
         /\ \A t \in Tokens :
              /\ Held(t)' * redeemBase >= Held(t) * redeemBase'
              /\ redeemBase' > 0 => Held(t)' > 0
  <1> USE DEF Accounts
  <1>1. /\ redeemBase \in Nat /\ redeemBase # 0 /\ n <= redeemBase
        /\ n <= tribe[user] /\ user # Redeemer
        /\ \A t \in Tokens : Held(t) \in Nat /\ Held(t) # 0
    BY ConstantsAssumption DEF TypeOK, Redeem, CanRedeem, PreviewReverts, Held
  <1>2. redeemBase' = redeemBase - n /\ redeemBase' \in Nat
    BY <1>1 DEF Redeem
  <1>3. tribe' \in [Accounts -> Nat]
    BY <1>1 DEF TypeOK, Redeem, Move
  <1>4. ASSUME NEW t \in Tokens
        PROVE  /\ bal'[t] \in [Accounts -> Nat]
               /\ Held(t)' * redeemBase >= Held(t) * redeemBase'
               /\ redeemBase' > 0 => Held(t)' > 0
    <2> DEFINE q == PreviewRedeem(t, n)
               h == Held(t)
    <2>1. /\ q \in Nat /\ q <= h
          /\ (h - q) * redeemBase >= h * (redeemBase - n)
          /\ n < redeemBase /\ h > 0 => q < h
      BY <1>1, ShareBounds DEF PreviewRedeem
    <2>2. bal'[t] = Move(bal[t], Redeemer, to, q)
      BY DEF Redeem
    <2>3. bal[t] \in [Accounts -> Nat] /\ h = bal[t][Redeemer]
      BY DEF TypeOK, Held
    <2>4. bal'[t] \in [Accounts -> Nat]
      <3> HIDE DEF q
      <3> QED BY <2>1, <2>2, <2>3 DEF Move
    <2>5. Held(t)' = IF to = Redeemer THEN h ELSE h - q
      <3> HIDE DEF q
      <3> QED BY <2>1, <2>2, <2>3 DEF Move, Held
    <2>6. Held(t)' >= h - q /\ Held(t)' \in Nat /\ h - q \in Nat
      <3> HIDE DEF q, h
      <3> QED BY <1>1, <2>1, <2>5 DEF h
    <2>7. Held(t)' * redeemBase >= (h - q) * redeemBase
      BY <1>1, <2>6, ProductMonotone
    <2>8. Held(t)' * redeemBase >= h * redeemBase'
      <3> HIDE DEF q, h
      <3>1. h * (redeemBase - n) = h * redeemBase'
        BY <1>2
      <3> QED BY <1>1, <1>2, <2>1, <2>6, <2>7, <3>1 DEF h
    <2> QED
      BY <1>1, <1>2, <2>1, <2>4, <2>6, <2>8
  <1>5. bal' \in [Tokens -> [Accounts -> Nat]]
    BY <1>4 DEF Redeem
  <1> QED
    BY <1>2, <1>3, <1>4, <1>5 DEF TypeOK

(* Trading and donating: no balance of the redeemer falls, the base stays.  *)
LEMMA TransferStep ==
  ASSUME TypeOK,
         NEW user \in Users, NEW to \in Accounts, NEW n \in Nat,
         \/ TribeTransfer(user, to, n)
         \/ \E t \in Tokens : TokenTransfer(t, user, to, n)
  PROVE  /\ TypeOK'
         /\ redeemBase' = redeemBase
         /\ \A t \in Tokens : Held(t)' >= Held(t)
  <1> USE DEF Accounts
  <1>1. user # Redeemer
    BY ConstantsAssumption
  <1>2. CASE TribeTransfer(user, to, n)
    BY <1>1, <1>2 DEF TypeOK, TribeTransfer, Move, Held
  <1>3. ASSUME NEW t \in Tokens, TokenTransfer(t, user, to, n)
        PROVE  /\ TypeOK'
               /\ redeemBase' = redeemBase
               /\ \A s \in Tokens : Held(s)' >= Held(s)
    <2>1. bal[t] \in [Accounts -> Nat] /\ n <= bal[t][user]
      BY <1>3 DEF TypeOK, TokenTransfer
    <2>2. Move(bal[t], user, to, n) \in [Accounts -> Nat]
      BY <2>1 DEF Move
    <2>3. Move(bal[t], user, to, n)[Redeemer] >= bal[t][Redeemer]
      BY <1>1, <2>1 DEF Move
    <2> QED
      BY <1>3, <2>1, <2>2, <2>3 DEF TypeOK, TokenTransfer, Held
  <1> QED
    BY <1>2, <1>3

(* A rebase is of a rebasing token: the balances of the others stay.        *)
LEMMA RebaseStep ==
  ASSUME TypeOK, NEW t \in Rebasing, NEW n \in Nat, Rebase(t, n)
  PROVE  /\ TypeOK'
         /\ redeemBase' = redeemBase
         /\ \A s \in Tokens \ Rebasing : Held(s)' = Held(s)
  <1>1. t \in Tokens
    BY ConstantsAssumption
  <1>2. [bal[t] EXCEPT ![Redeemer] = n] \in [Accounts -> Nat]
    BY <1>1 DEF TypeOK, Accounts
  <1> QED
    BY <1>1, <1>2 DEF TypeOK, Rebase, Held

(* One step from a state of the invariant: the invariant holds after it and *)
(* no share of a token that does not rebase has fallen.                     *)
LEMMA NextStep ==
  ASSUME IInv, [Next]_vars
  PROVE  /\ IInv'
         /\ \A t \in Tokens \ Rebasing :
              Held(t)' * redeemBase >= Held(t) * redeemBase'
  <1> USE DEF IInv, NeverBricked
  <1>1. /\ redeemBase \in Nat
        /\ \A t \in Tokens : Held(t) \in Nat
    BY DEF TypeOK, Held, Accounts
  <1>2. ASSUME NEW u \in Users, NEW to \in Accounts, NEW n \in Nat,
               Redeem(u, to, n)
        PROVE  /\ IInv'
               /\ \A t \in Tokens \ Rebasing :
                    Held(t)' * redeemBase >= Held(t) * redeemBase'
    BY <1>2, RedeemStep
  <1>3. ASSUME TypeOK', redeemBase' = redeemBase,
               \A t \in Tokens \ Rebasing : Held(t)' >= Held(t)
        PROVE  /\ IInv'
               /\ \A t \in Tokens \ Rebasing :
                    Held(t)' * redeemBase >= Held(t) * redeemBase'
    <2>1. \A t \in Tokens : Held(t)' \in Nat
      BY <1>3 DEF TypeOK, Held, Accounts
    <2>2. \A t \in Tokens \ Rebasing :
            Held(t)' * redeemBase >= Held(t) * redeemBase
      BY <1>1, <1>3, <2>1, ProductMonotone
    <2> QED
      BY <1>1, <1>3, <2>1, <2>2
  <1>4. ASSUME NEW u \in Users, NEW to \in Accounts, NEW n \in Nat,
               \/ TribeTransfer(u, to, n)
               \/ \E t \in Tokens : TokenTransfer(t, u, to, n)
        PROVE  TypeOK' /\ redeemBase' = redeemBase
               /\ \A t \in Tokens \ Rebasing : Held(t)' >= Held(t)
    BY <1>4, TransferStep
  <1>5. ASSUME NEW t \in Rebasing, NEW n \in Nat, Rebase(t, n)
        PROVE  TypeOK' /\ redeemBase' = redeemBase
               /\ \A s \in Tokens \ Rebasing : Held(s)' >= Held(s)
    BY <1>1, <1>5, RebaseStep
  <1>6. 0 .. MaxAmount \subseteq Nat /\ 1 .. MaxAmount \subseteq Nat
        /\ 0 .. MaxRebase \subseteq Nat
    BY ConstantsAssumption
  <1>7. CASE UNCHANGED vars
    <2>1. TypeOK' /\ redeemBase' = redeemBase
          /\ \A t \in Tokens \ Rebasing : Held(t)' >= Held(t)
      BY <1>1, <1>7 DEF vars, TypeOK, Held
    <2> QED
      BY <1>3, <2>1
  <1>8. CASE Next
    BY <1>2, <1>3, <1>4, <1>5, <1>6, <1>8 DEF Next
  <1> QED
    BY <1>7, <1>8

(* redeem takes as much TRIBE in as it takes off the base, and nothing else *)
(* takes TRIBE from the redeemer.                                           *)
LEMMA CustodyStep ==
  ASSUME TypeOK, BaseInCustody, [Next]_vars
  PROVE  BaseInCustody'
  <1> USE DEF Accounts
  <1>1. /\ redeemBase \in Nat /\ tribe \in [Accounts -> Nat] /\ InitialBase \in Nat
        /\ Redeemer \notin Users
    BY ConstantsAssumption DEF TypeOK
  <1>2. ASSUME NEW u \in Users, NEW to \in Accounts, NEW n \in Nat
        PROVE  Move(tribe, u, to, n)[Redeemer] =
                 tribe[Redeemer] + (IF to = Redeemer THEN n ELSE 0)
    BY <1>1 DEF Move
  <1>3. ASSUME NEW u \in Users, NEW to \in Accounts, NEW n \in Nat,
               Redeem(u, to, n)
        PROVE  BaseInCustody'
    <2>1. redeemBase' = redeemBase - n /\ tribe' = Move(tribe, u, Redeemer, n)
      BY <1>3 DEF Redeem
    <2> QED
      BY <1>1, <1>2, <2>1 DEF BaseInCustody
  <1>4. ASSUME NEW u \in Users, NEW to \in Accounts, NEW n \in Nat,
               \/ TribeTransfer(u, to, n)
               \/ \E t \in Tokens : TokenTransfer(t, u, to, n)
        PROVE  BaseInCustody'
    <2>1. redeemBase' = redeemBase
          /\ (tribe' = tribe \/ tribe' = Move(tribe, u, to, n))
      BY <1>4 DEF TribeTransfer, TokenTransfer
    <2> QED
      BY <1>1, <1>2, <2>1 DEF BaseInCustody
  <1>5. CASE UNCHANGED vars \/ \E t \in Rebasing, n \in 0 .. MaxRebase : Rebase(t, n)
    BY <1>5 DEF BaseInCustody, vars, Rebase
  <1>6. 0 .. MaxAmount \subseteq Nat /\ 1 .. MaxAmount \subseteq Nat
    BY ConstantsAssumption
  <1> QED
    BY <1>3, <1>4, <1>5, <1>6 DEF Next

(* What a holder and the redeemer hold together is part of the supply, so a *)
(* holder never has more than what is left of the base.                     *)
LEMMA CustodyLetsExit ==
  ASSUME IInv, BaseInCustody
  PROVE  HoldersCanExit
  <1> SUFFICES ASSUME BaseCoversSupply, \A t \in Rebasing : Held(t) > 0,
                      NEW u \in Users, tribe[u] > 0
               PROVE  CanRedeem(u, tribe[u])
    BY DEF HoldersCanExit
  <1>1. /\ redeemBase \in Nat /\ InitialBase \in Nat
        /\ \A a \in Accounts : tribe[a] \in Nat
        /\ u \in Accounts /\ Redeemer \in Accounts /\ u # Redeemer
    BY ConstantsAssumption DEF IInv, TypeOK, Accounts
  <1>2. IsFiniteSet(Accounts)
    BY ConstantsAssumption, FS_AddElement DEF Accounts
  <1>3. tribe[Redeemer] + tribe[u] <= SumOf(tribe, Accounts)
    <2>1. SumOf(tribe, Accounts) =
            tribe[Redeemer] + SumOf(tribe, Accounts \ {Redeemer})
      BY <1>1, <1>2, SumTake
    <2>2. /\ SumOf(tribe, Accounts \ {Redeemer}) \in Nat
          /\ tribe[u] <= SumOf(tribe, Accounts \ {Redeemer})
      BY <1>1, <1>2, FS_RemoveElement, SumNat
    <2> QED
      BY <1>1, <2>1, <2>2
  <1>4. SumOf(tribe, Accounts) \in Nat
    BY <1>1, <1>2, SumNat
  <1>5. SumOf(tribe, Accounts) <= InitialBase
    BY DEF BaseCoversSupply, SumOf
  <1>6. tribe[u] <= redeemBase
    BY <1>1, <1>3, <1>4, <1>5 DEF BaseInCustody
  <1>7. \A t \in Tokens : Held(t) # 0
    BY <1>1, <1>6 DEF IInv, NeverBricked
  <1> QED
    BY <1>1, <1>6, <1>7 DEF CanRedeem, PreviewReverts

(* Only redeem changes the base; when it takes all of it, the share of it   *)
(* is the whole balance of each token.                                      *)
LEMMA DrainStep ==
  ASSUME TypeOK, [Next]_vars, redeemBase > 0, redeemBase' = 0
  PROVE  (\A t \in Tokens : Held(t)' = 0) \/ bal' = bal
  <1>1. PICK u \in Users, to \in Accounts, n \in 0 .. MaxAmount : Redeem(u, to, n)
    <2>1. redeemBase' # redeemBase
      BY DEF TypeOK
    <2> QED
      BY <2>1 DEF Next, vars, TribeTransfer, TokenTransfer, Rebase
  <1>2. n \in Nat /\ redeemBase \in Nat /\ n = redeemBase
    BY <1>1, ConstantsAssumption DEF TypeOK, Redeem
  <1>3. ASSUME NEW t \in Tokens
        PROVE  /\ bal'[t] = Move(bal[t], Redeemer, to, Held(t))
               /\ bal[t] \in [Accounts -> Int]
               /\ Held(t) \in Int /\ Held(t) = bal[t][Redeemer]
               /\ Redeemer \in Accounts
    <2>1. bal[t] \in [Accounts -> Nat] /\ Redeemer \in Accounts
      BY DEF TypeOK, Accounts
    <2>2. Held(t) = bal[t][Redeemer] /\ Held(t) \in Nat
      BY <2>1 DEF Held
    <2>3. PreviewRedeem(t, n) = Held(t)
      BY <1>2, <2>2, ShareBounds DEF PreviewRedeem
    <2>4. bal[t] \in [Accounts -> Int]
      BY <2>1, NaturalBalances
    <2> QED
      BY <1>1, <2>1, <2>2, <2>3, <2>4 DEF Redeem
  <1>4. CASE to = Redeemer
    <2>1. \A t \in Tokens : bal'[t] = bal[t]
      <3> TAKE t \in Tokens
      <3> QED
        BY <1>3, <1>4, MoveValues
    <2>2. bal = [t \in Tokens |-> bal[t]] /\ bal' = [t \in Tokens |-> bal'[t]]
      BY <1>1 DEF TypeOK, Redeem
    <2> QED
      BY <2>1, <2>2
  <1>5. CASE to # Redeemer
    <2> SUFFICES ASSUME NEW t \in Tokens PROVE Held(t)' = 0
      OBVIOUS
    <2>1. Move(bal[t], Redeemer, to, Held(t))[Redeemer] =
            bal[t][Redeemer] - (IF Redeemer = Redeemer THEN Held(t) ELSE 0)
                             + (IF Redeemer = to THEN Held(t) ELSE 0)
      BY <1>3, MoveValues
    <2> QED
      BY <1>3, <1>5, <2>1 DEF Held
  <1> QED
    BY <1>4, <1>5

LEMMA InitIInv == Init => IInv
  BY ConstantsAssumption DEF Init, IInv, TypeOK, NeverBricked, Held, Accounts

(* No transfer overdraws an account.                                        *)
THEOREM TypeCorrect == Spec => []TypeOK
  <1>1. IInv /\ [Next]_vars => IInv'
    BY NextStep
  <1> QED
    BY InitIInv, <1>1, PTL DEF Spec, IInv

(* While there is a base left, no token of the basket that does not rebase  *)
(* is used up: previewRedeem does not revert with ZERO_BALANCE.             *)
THEOREM RedemptionNeverBricked == Spec => []NeverBricked
  <1>1. IInv /\ [Next]_vars => IInv'
    BY NextStep
  <1> QED
    BY InitIInv, <1>1, PTL DEF Spec, IInv

(* No redemption, trade or donation lowers what a unit of base is worth in  *)
(* any token of the basket that does not rebase.                            *)
THEOREM WaitingIsNeverWorse == Spec => ShareNeverFalls
  <1>1. IInv /\ [Next]_vars => IInv'
    BY NextStep
  <1>2. IInv /\ [Next]_vars =>
          [\A t \in Tokens \ Rebasing :
             Held(t)' * redeemBase >= Held(t) * redeemBase']_vars
    BY NextStep
  <1> QED
    BY InitIInv, <1>1, <1>2, PTL DEF Spec, ShareNeverFalls

(* When the base covers all TRIBE there is, any holder can redeem all of    *)
(* theirs at any time, however the others redeemed, traded or donated and   *)
(* whatever they sent to the redeemer.                                      *)
THEOREM EveryHolderCanExit == Spec => []HoldersCanExit
  <1>1. Init => IInv /\ BaseInCustody
    <2>1. Init => BaseInCustody
      BY ConstantsAssumption DEF Init, BaseInCustody, Accounts
    <2> QED
      BY <2>1, InitIInv
  <1>2. IInv /\ BaseInCustody /\ [Next]_vars => (IInv /\ BaseInCustody)'
    BY NextStep, CustodyStep DEF IInv
  <1>3. IInv /\ BaseInCustody => HoldersCanExit
    BY CustodyLetsExit
  <1> QED
    BY <1>1, <1>2, <1>3, PTL DEF Spec

(* The redemption that uses up the base leaves nothing of the basket with   *)
(* the redeemer, unless it pays the redeemer itself.                        *)
THEOREM LastHolderTakesTheRest == Spec => LastRedemptionDrains
  <1>1. IInv /\ [Next]_vars => IInv'
    BY NextStep
  <1>2. IInv /\ [Next]_vars =>
          [redeemBase > 0 /\ redeemBase' = 0 =>
             (\A t \in Tokens : Held(t)' = 0) \/ bal' = bal]_vars
    BY DrainStep DEF IInv
  <1> QED
    BY InitIInv, <1>1, <1>2, PTL DEF Spec, LastRedemptionDrains
=============================================================================
