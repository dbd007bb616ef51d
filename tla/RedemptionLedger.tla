-------------------------- MODULE RedemptionLedger --------------------------
(***************************************************************************)
(* What the redemption of Rari cTokens promises, whatever the calls and the *)
(* batches by which it is done: a user's entitlement in a cToken is set     *)
(* once, to an amount of the published distribution; redemptions only grow, *)
(* up to the entitlement; and what is paid never exceeds the exchange rates *)
(* of what was redeemed by the same user in the same call.                  *)
(***************************************************************************)
EXTENDS Integers, FiniteSets, FiniteSetsExt

CONSTANTS
  Users, CTokens,
  Distribution,  \* [Users -> [CTokens -> set of the amounts published]]
  Rate, Scale    \* Scale cTokens c are worth Rate[c]

VARIABLES entitled, redeemed, paid

ledgerVars == <<entitled, redeemed, paid>>

LedgerInit ==
  /\ entitled = [u \in Users |-> [c \in CTokens |-> 0]]
  /\ redeemed = [u \in Users |-> [c \in CTokens |-> 0]]
  /\ paid = [u \in Users |-> 0]

(* What user u has redeemed in all, at the exchange rates, times Scale.     *)
Worth(u) == MapThenSumSet(LAMBDA c : Rate[c] * redeemed[u][c], CTokens)

Entitle(u) ==
  \A c \in CTokens :
    \/ entitled'[u][c] = entitled[u][c]
    \/ entitled[u][c] = 0 /\ entitled'[u][c] \in Distribution[u][c]

RedeemUpTo(u) ==
  \A c \in CTokens :
    redeemed[u][c] <= redeemed'[u][c] /\ redeemed'[u][c] <= entitled'[u][c]

Pay(u) ==
  /\ paid[u] <= paid'[u]
  /\ (paid'[u] - paid[u]) * Scale <= Worth(u)' - Worth(u)

UserStep(u) ==
  /\ Entitle(u)
  /\ RedeemUpTo(u)
  /\ Pay(u)
  /\ \A v \in Users \ {u} :
       /\ entitled'[v] = entitled[v]
       /\ redeemed'[v] = redeemed[v]
       /\ paid'[v] = paid[v]

LedgerNext == \E u \in Users : UserStep(u)

LedgerSpec == LedgerInit /\ [][LedgerNext]_ledgerVars
=============================================================================
