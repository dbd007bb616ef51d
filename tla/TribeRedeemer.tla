--------------------------- MODULE TribeRedeemer ---------------------------
(***************************************************************************)
(* contracts/shutdown/redeem/TribeRedeemer.sol: holders of TRIBE give it up *)
(* for a pro rata share of a basket of tokens.  Every transaction is one    *)
(* step; a call the code reverts is not a step.                             *)
(***************************************************************************)
EXTENDS ERC20, FiniteSets, FiniteSetsExt

CONSTANTS
  Users,          \* holders of TRIBE
  Redeemer,       \* address of the redeemer contract
  Tokens,         \* tokensReceived, the basket (no token occurs twice)
  Rebasing,       \* basket tokens (stETH) whose balances change by themselves
  InitialBase,    \* constructor argument _redeemBase
  InitialTribes,  \* TRIBE of each user when redemption opens, all that it may be
  InitialBasket,  \* basket sent to the redeemer by the DAO
  MaxAmount,      \* bound of the amounts calls name
  MaxRebase       \* bound of the balance a rebase may set

Accounts == Users \cup {Redeemer}

ASSUME ConstantsAssumption ==
  /\ IsFiniteSet(Users)
  /\ Redeemer \notin Users
  /\ Rebasing \subseteq Tokens
  /\ InitialBase \in Nat \ {0}
  /\ InitialTribes \subseteq [Users -> Nat]
  /\ InitialBasket \in [Tokens -> Nat \ {0}]
  /\ MaxAmount \in Nat
  /\ MaxRebase \in Nat

VARIABLES
  redeemBase,  \* what is left of the base of the pro rata computation
  tribe,       \* TRIBE balance of every account
  bal          \* bal[t]: balance of basket token t of every account

vars == <<redeemBase, tribe, bal>>

Held(t) == bal[t][Redeemer]

-----------------------------------------------------------------------------
Init ==
  /\ redeemBase = InitialBase
  /\ \E initial \in InitialTribes :
       tribe = [a \in Accounts |-> IF a = Redeemer THEN 0 ELSE initial[a]]
  /\ bal = [t \in Tokens |->
              [a \in Accounts |-> IF a = Redeemer THEN InitialBasket[t] ELSE 0]]

(* previewRedeem: the division rounds down, and reverts on a zero base or   *)
(* when one of the basket balances is zero.                                 *)
PreviewReverts == redeemBase = 0 \/ \E t \in Tokens : Held(t) = 0

PreviewRoundsUp(t, amountIn) ==   \* mutant
  (amountIn * Held(t) + redeemBase - 1) \div redeemBase

PreviewOfInitialBase(t, amountIn) ==   \* mutant: the base of the constructor
  (amountIn * Held(t)) \div InitialBase

PreviewRedeem(t, amountIn) == (amountIn * Held(t)) \div redeemBase

(* redeem: the base is decremented with checked arithmetic, so amountIn can *)
(* not exceed it.                                                           *)
CanRedeem(user, amountIn) ==
  /\ amountIn <= tribe[user]
  /\ ~PreviewReverts
  /\ amountIn <= redeemBase

RedeemKeepsBase(user, to, amountIn) ==   \* mutant: the base is not decremented
  /\ CanRedeem(user, amountIn)
  /\ tribe' = Move(tribe, user, Redeemer, amountIn)
  /\ bal' = [t \in Tokens |->
               Move(bal[t], Redeemer, to, PreviewRedeem(t, amountIn))]
  /\ UNCHANGED redeemBase

Redeem(user, to, amountIn) ==
  /\ CanRedeem(user, amountIn)
  /\ tribe' = Move(tribe, user, Redeemer, amountIn)
  /\ redeemBase' = redeemBase - amountIn
  /\ bal' = [t \in Tokens |->
               Move(bal[t], Redeemer, to, PreviewRedeem(t, amountIn))]

(* Around the redeemer: TRIBE and the tokens of the basket are traded, and  *)
(* anybody may send either to the redeemer.                                 *)
TribeTransfer(user, to, amount) ==
  /\ amount <= tribe[user]
  /\ tribe' = Move(tribe, user, to, amount)
  /\ UNCHANGED <<redeemBase, bal>>

TokenTransfer(t, user, to, amount) ==
  /\ amount <= bal[t][user]
  /\ bal' = [bal EXCEPT ![t] = Move(bal[t], user, to, amount)]
  /\ UNCHANGED <<redeemBase, tribe>>

(* A rebasing token may set the balance of the redeemer to anything, up     *)
(* (rewards) or down (slashing).                                            *)
Rebase(t, newBalance) ==
  /\ bal' = [bal EXCEPT ![t][Redeemer] = newBalance]
  /\ UNCHANGED <<redeemBase, tribe>>

Next ==
  \/ \E u \in Users, to \in Accounts, n \in 0 .. MaxAmount : Redeem(u, to, n)
  \/ \E u \in Users, to \in Accounts, n \in 1 .. MaxAmount :
       \/ TribeTransfer(u, to, n)
       \/ \E t \in Tokens : TokenTransfer(t, u, to, n)
  \/ \E t \in Rebasing, n \in 0 .. MaxRebase : Rebase(t, n)

Spec == Init /\ [][Next]_vars

-----------------------------------------------------------------------------
(* Balances are natural numbers: no transfer overdraws an account.          *)
TypeOK ==
  /\ redeemBase \in Nat
  /\ tribe \in [Accounts -> Nat]
  /\ bal \in [Tokens -> [Accounts -> Nat]]

(* previewRedeem reverts with ZERO_BALANCE as soon as one basket token is   *)
(* used up, which would lock every other token with it.  Rounding down      *)
(* keeps that from happening while there is a base left to redeem.          *)
NeverBricked ==
  redeemBase > 0 => \A t \in Tokens \ Rebasing : Held(t) > 0

(* The basket held per unit of base never falls, whoever redeems, trades or *)
(* donates, so redeem never pays a late holder less than an early one.      *)
ShareNeverFalls ==
  [][\A t \in Tokens \ Rebasing :
       Held(t)' * redeemBase >= Held(t) * redeemBase']_vars

(* When the base covers all TRIBE there is, every holder can redeem all of  *)
(* theirs at any time, unless the balance of a rebasing token is lost.      *)
BaseCoversSupply ==
  MapThenSumSet(LAMBDA a : tribe[a], Accounts) <= InitialBase

HoldersCanExit ==
  BaseCoversSupply /\ (\A t \in Rebasing : Held(t) > 0) =>
    \A u \in Users : tribe[u] > 0 => CanRedeem(u, tribe[u])

(* The redemption that uses up the base takes the whole basket with it,     *)
(* unless it names the redeemer itself as the receiver.                     *)
LastRedemptionDrains ==
  [][redeemBase > 0 /\ redeemBase' = 0 =>
       (\A t \in Tokens : Held(t)' = 0) \/ bal' = bal]_vars

=============================================================================
