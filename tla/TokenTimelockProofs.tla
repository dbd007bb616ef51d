------------------------ MODULE TokenTimelockProofs ------------------------
(***************************************************************************)
(* Theorems about TokenTimelock and TimelockBurner, for any durations,      *)
(* amounts and accounts.                                                    *)
(* What makes VestedOnly inductive is that the two balances balanceCheck    *)
(* keeps account for every token released: initialBalance covers            *)
(* lastBalance and the outflow, and is exactly their sum as long as nothing *)
(* was clawed back or unlocked.                                             *)
(***************************************************************************)
EXTENDS TimelockBurner, Arithmetic

Accounted ==
  /\ lastBalance + outflow <= initialBalance
  /\ ~clawed /\ ~terms.unlock =>
       lastBalance <= TotalToken /\ initialBalance = lastBalance + outflow
  /\ ~Started => initialBalance = 0

DelegateesHold ==
  \A d \in Delegatees :
    /\ delegateAmount[d] <= tok[d]
    /\ ~delegateContract[d] => tok[d] = 0

Delegations == totalDelegated = SumOf(delegateAmount, Delegatees)

IInv == TypeOK /\ Accounted /\ DelegateesHold /\ Delegations /\ VestedOnly

-----------------------------------------------------------------------------
(* The clock against the start and the duration.                            *)
LEMMA TermsType ==
  ASSUME TypeOK
  PROVE  /\ terms.start \in Nat /\ terms.start # 0 /\ now \in Nat
         /\ Elapsed = IF now - terms.start > Duration THEN Duration
                      ELSE now - terms.start
  <1>1. terms.start \in StartTimes
    BY DEF TypeOK, Contracts
  <1>2. terms.start \in Nat /\ terms.start # 0
    BY <1>1, TimelockAssumption
  <1> QED
    BY <1>2 DEF TypeOK, Elapsed, TimeSinceStart, IsTimeStarted

LEMMA ElapsedType ==
  ASSUME TypeOK
  PROVE  Elapsed \in Int /\ (Started => Elapsed \in Nat)
  BY TermsType, TimelockAssumption DEF Started

(* Both curves are monotone in the balance and in the time.                 *)
LEMMA CurveMonotone ==
  ASSUME NEW b \in Nat, NEW c \in Nat, NEW e \in Nat, NEW f \in Nat,
         b <= c, e <= f
  PROVE  /\ ProportionAvailable(b, e) \in Nat
         /\ ProportionAvailable(c, f) \in Nat
         /\ ProportionAvailable(b, e) <= ProportionAvailable(c, f)
  <1>1. Duration \in Nat /\ Duration # 0
    BY TimelockAssumption
  <1>2. b * e \in Nat /\ c * f \in Nat /\ b * e <= c * f
    BY FactorsMonotone
  <1>3. b * e * e \in Nat /\ c * f * f \in Nat /\ b * e * e <= c * f * f
    BY <1>2, FactorsMonotone
  <1>4. ASSUME NEW m \in Nat, NEW n \in Nat, m <= n
        PROVE  m \div Duration \in Nat /\ n \div Duration \in Nat
               /\ m \div Duration <= n \div Duration
    BY <1>1, <1>4, DivBounds, DivMonotone
  <1>5. /\ (b * e * e) \div Duration \in Nat /\ (c * f * f) \div Duration \in Nat
        /\ (b * e * e) \div Duration <= (c * f * f) \div Duration
    BY <1>3, <1>4
  <1>6. CASE terms.quadratic
    BY <1>4, <1>5, <1>6 DEF ProportionAvailable
  <1>7. CASE ~terms.quadratic
    BY <1>2, <1>4, <1>7 DEF ProportionAvailable
  <1> QED
    BY <1>6, <1>7

(* What balanceCheck computes before the body of a function runs.           *)
LEMMA CheckedFacts ==
  ASSUME IInv
  PROVE  /\ TotalToken \in Nat
         /\ CheckedBalance \in Nat
         /\ initialBalance <= CheckedBalance
         /\ outflow <= AlreadyReleased
         /\ AlreadyReleased \in Nat
         /\ ~clawed /\ ~terms.unlock => AlreadyReleased = outflow
  <1>1. tok[Timelock] \in Nat /\ totalDelegated \in Nat
    BY DEF IInv, TypeOK, Accounts
  <1> QED
    BY <1>1 DEF IInv, TypeOK, Accounted, TotalToken, CheckedBalance, AlreadyReleased

LEMMA MoveType ==
  ASSUME NEW balance \in [Accounts -> Nat], NEW from \in Accounts,
         NEW to \in Accounts, NEW amount \in Nat, amount <= balance[from]
  PROVE  /\ Move(balance, from, to, amount) \in [Accounts -> Nat]
         /\ \A a \in Accounts \ {from} : balance[a] <= Move(balance, from, to, amount)[a]
         /\ Move(balance, from, to, amount)[from]
              = IF to = from THEN balance[from] ELSE balance[from] - amount
         /\ from # to => Move(balance, from, to, amount)[to] = balance[to] + amount
         /\ \A a \in Accounts \ {from, to} : Move(balance, from, to, amount)[a] = balance[a]
  <1>1. ASSUME NEW a \in Accounts
        PROVE  Move(balance, from, to, amount)[a]
                 = IF a = from THEN IF to = from THEN balance[a] ELSE balance[a] - amount
                   ELSE IF a = to THEN balance[a] + amount ELSE balance[a]
    BY DEF Move
  <1>2. ASSUME NEW a \in Accounts
        PROVE  Move(balance, from, to, amount)[a] \in Nat
    BY <1>1
  <1>3. Move(balance, from, to, amount) \in [Accounts -> Nat]
    BY <1>2 DEF Move
  <1> QED
    BY <1>1, <1>3

(* Steps that leave the curve's variables alone keep what has vested.       *)
LEMMA VestedStays ==
  ASSUME IInv, TypeOK', UNCHANGED <<terms, curveVars>>, now <= now'
  PROVE  VestedOnly' /\ (~Started' => initialBalance' = 0)
  <1>1. CASE Started
    <2>1. Started' /\ Elapsed \in Nat /\ Elapsed' \in Nat /\ Elapsed <= Elapsed'
      <3>1. now' \in Nat /\ terms' = terms
        BY DEF TypeOK
      <3>2. Elapsed' = IF now' - terms.start > Duration THEN Duration
                       ELSE now' - terms.start
        BY <3>1, TermsType DEF Elapsed, TimeSinceStart, IsTimeStarted, IInv
      <3> QED
        BY <1>1, <3>1, <3>2, TermsType, TimelockAssumption DEF IInv, Started
    <2>2. ProportionAvailable(initialBalance, Elapsed)
            <= ProportionAvailable(initialBalance, Elapsed')
      BY <2>1, CurveMonotone DEF IInv, TypeOK
    <2>3. /\ ProportionAvailable(initialBalance, Elapsed) \in Nat
          /\ ProportionAvailable(initialBalance, Elapsed') \in Nat
      <3> initialBalance \in Nat
        BY DEF IInv, TypeOK
      <3>1. ASSUME NEW e \in Nat
            PROVE  ProportionAvailable(initialBalance, e) \in Nat
        BY CurveMonotone
      <3> QED
        BY <2>1, <3>1
    <2>4. ProportionAvailable(initialBalance, Elapsed)'
            = ProportionAvailable(initialBalance, Elapsed')
      BY DEF ProportionAvailable, curveVars
    <2>5. outflow' = outflow /\ outflow \in Nat
      BY DEF curveVars, IInv, TypeOK
    <2>6. outflow' <= ProportionAvailable(initialBalance, Elapsed)'
      BY <2>2, <2>3, <2>4, <2>5 DEF IInv, VestedOnly
    <2>7. ~PassedCliff' => ~PassedCliff
      BY <1>1, <2>1, TimelockAssumption DEF PassedCliff
    <2>8. ~PassedCliff' => outflow' = 0
      BY <2>1, <2>5, <2>7, TimelockAssumption DEF IInv, VestedOnly, PassedCliff
    <2> QED
      BY <2>1, <2>6, <2>8, TimelockAssumption DEF VestedOnly, PassedCliff
  <1>2. CASE ~Started
    <2>1. outflow' = 0 /\ initialBalance' = 0
      BY <1>2 DEF IInv, VestedOnly, PassedCliff, Accounted, curveVars
    <2>2. 0 <= ProportionAvailable(0, Elapsed')
      <3>1. Elapsed' \in Int
        <4>1. now' \in Nat /\ terms' = terms
          BY DEF TypeOK
        <4> QED
          BY <4>1, TermsType, TimelockAssumption
             DEF Elapsed, TimeSinceStart, IsTimeStarted, IInv
      <3>2. \A e \in Int : 0 * e = 0
        OBVIOUS
      <3>4. 0 * Elapsed' = 0 /\ 0 * Elapsed' * Elapsed' = 0
        BY <3>1, <3>2
      <3>3. 0 \div Duration = 0
        BY TimelockAssumption
      <3> QED
        BY <3>3, <3>4 DEF ProportionAvailable
    <2>3. ProportionAvailable(initialBalance, Elapsed)'
            = ProportionAvailable(0, Elapsed')
      BY <2>1 DEF ProportionAvailable
    <2> QED
      BY <2>1, <2>2, <2>3 DEF VestedOnly
  <1> QED
    BY <1>1, <1>2

-----------------------------------------------------------------------------
(* Steps that leave the delegations alone, and their tokens.                *)
LEMMA DelegationsStay ==
  ASSUME IInv, UNCHANGED delegateVars, \A d \in Delegatees : tok'[d] = tok[d]
  PROVE  DelegateesHold' /\ Delegations'
  BY DEF IInv, DelegateesHold, Delegations, delegateVars

(* A release, inside balanceCheck, of no more than the check found          *)
(* available, of which a part leaves the timelock.                          *)
LEMMA ReleasedStep ==
  ASSUME IInv, PassedCliff, NEW amount \in Nat, NEW left \in Nat,
         left <= amount, left <= tok[Timelock], amount <= Available,
         tok' \in [Accounts -> Nat], tok'[Timelock] = tok[Timelock] - left,
         \A d \in Delegatees : tok'[d] = tok[d],
         outflow' = outflow + left,
         UNCHANGED <<terms, now, clawed, delegateVars>>,
         beneficiary' \in People, pendingBeneficiary' \in People \cup {NoOne},
         BalanceCheck
  PROVE  IInv'
  <1>2. initialBalance' = CheckedBalance /\ lastBalance' = TotalToken'
    BY DEF BalanceCheck
  <1>3. tok \in [Accounts -> Nat] /\ Timelock \in Accounts
        /\ totalDelegated \in Nat /\ tok[Timelock] \in Nat
    BY DEF IInv, TypeOK, Accounts
  <1>5. TotalToken' = TotalToken - left /\ TotalToken' \in Nat
    <2>1. totalDelegated' = totalDelegated
      BY DEF delegateVars
    <2>3. TotalToken' = tok'[Timelock] + totalDelegated'
          /\ TotalToken = tok[Timelock] + totalDelegated
      BY DEF TotalToken
    <2> QED
      BY <1>3, <2>1, <2>3
  <1>6. TypeOK'
    <2>1. clawed' \in BOOLEAN
      BY Zenon DEF IInv, TypeOK
    <2> QED
      BY <1>2, <1>5, <2>1, CheckedFacts DEF IInv, TypeOK, delegateVars
  <1>7. Started /\ Started' /\ Elapsed' = Elapsed
    BY DEF PassedCliff, Started, Elapsed
  <1>8. Accounted'
    BY <1>2, <1>5, <1>7, CheckedFacts
       DEF Accounted, AlreadyReleased, IInv, TypeOK
  <1>9. DelegateesHold' /\ Delegations'
    BY DelegationsStay
  <1>10. VestedOnly'
    <2>1. ProportionAvailable(CheckedBalance, Elapsed) \in Nat
      BY <1>7, CheckedFacts, ElapsedType, CurveMonotone DEF IInv
    <2>2. outflow + amount <= ProportionAvailable(CheckedBalance, Elapsed)
      BY <2>1, CheckedFacts DEF Available, IInv, TypeOK
    <2>3. outflow' <= ProportionAvailable(CheckedBalance, Elapsed)
      BY <1>2, <2>1, <2>2 DEF IInv, TypeOK
    <2>4. ProportionAvailable(initialBalance, Elapsed)'
            = ProportionAvailable(CheckedBalance, Elapsed)
      BY <1>2, <1>7 DEF ProportionAvailable
    <2>5. PassedCliff'
      BY <1>7 DEF PassedCliff
    <2> QED
      BY <1>7, <2>3, <2>4, <2>5, ElapsedType, TimelockAssumption DEF VestedOnly, PassedCliff, IInv
  <1> QED
    BY <1>6, <1>8, <1>9, <1>10 DEF IInv

LEMMA DoReleaseStep ==
  ASSUME IInv, PassedCliff,
         NEW to \in People \cup {Timelock}, NEW amount \in Nat,
         amount <= Available, DoRelease(to, amount)
  PROVE  IInv'
  <1> DEFINE left == Leaving(to, amount)
  <1>1. left \in Nat /\ left <= amount /\ left = IF to = Timelock THEN 0 ELSE amount
    BY DEF Leaving
  <1> HIDE DEF left
  <1>2. tok' = Move(tok, Timelock, to, amount) /\ amount <= tok[Timelock]
        /\ UNCHANGED <<terms, now, clawed, ownerVars, delegateVars>>
        /\ outflow' = outflow + left /\ BalanceCheck
    BY DEF DoRelease, left
  <1>3. tok \in [Accounts -> Nat] /\ Timelock \in Accounts /\ to \in Accounts
        /\ tok[Timelock] \in Nat /\ \A d \in Delegatees : d \in Accounts \ {Timelock, to}
    BY TimelockAssumption DEF IInv, TypeOK, Accounts
  <1>4. /\ tok' \in [Accounts -> Nat]
        /\ tok'[Timelock] = tok[Timelock] - left
        /\ \A d \in Delegatees : tok'[d] = tok[d]
    BY <1>1, <1>2, <1>3, MoveType
  <1>5. left <= tok[Timelock]
    BY <1>1, <1>2, <1>3
  <1>6. beneficiary' \in People /\ pendingBeneficiary' \in People \cup {NoOne}
    BY <1>2 DEF ownerVars, IInv, TypeOK
  <1> QED
    BY <1>1, <1>2, <1>4, <1>5, <1>6, ReleasedStep

(* A clawback: a release of the vested share to the beneficiary, then the   *)
(* rest to the admin.                                                       *)
LEMMA ClawbackStep ==
  ASSUME IInv, Clawback
  PROVE  /\ IInv'
         /\ ~terms.unlock /\ ~clawed /\ PassedCliff =>
              outflow' = ProportionAvailable(initialBalance, Elapsed)'
  <1> DEFINE s == VestedShare
             r == TotalToken - VestedShare
             paid == Move(tok, Timelock, beneficiary, s)
  <1>1. /\ Started /\ s >= 0 /\ s <= tok[Timelock] /\ TotalToken <= tok[Timelock]
        /\ tok' = Move(paid, Timelock, ClawbackAdmin, r)
        /\ outflow' = outflow + s /\ clawed' = TRUE
        /\ UNCHANGED <<terms, now, ownerVars, delegateVars>>
        /\ initialBalance' = CheckedBalance /\ lastBalance' = TotalToken'
    BY DEF Clawback, BalanceCheck
  <1>2. /\ tok \in [Accounts -> Nat] /\ Timelock \in Accounts
        /\ beneficiary \in Accounts /\ ClawbackAdmin \in Accounts
        /\ beneficiary # Timelock /\ ClawbackAdmin # Timelock
        /\ totalDelegated \in Nat /\ tok[Timelock] \in Nat
    BY TimelockAssumption DEF IInv, TypeOK, Accounts
  <1>3. Elapsed \in Nat /\ CheckedBalance \in Nat
        /\ ProportionAvailable(CheckedBalance, Elapsed) \in Nat
    BY <1>1, CheckedFacts, ElapsedType, CurveMonotone DEF IInv
  <1>4. s \in Nat
    BY <1>1, <1>3, CheckedFacts DEF VestedShare, Available
  <1>5. r \in Nat /\ r = tok[Timelock] - s /\ totalDelegated = 0
    <2> HIDE DEF s
    <2>1. TotalToken = tok[Timelock] + totalDelegated
      BY DEF TotalToken
    <2> QED
      BY <1>1, <1>2, <1>4, <2>1 DEF s
  <1>6. /\ paid \in [Accounts -> Nat]
        /\ paid[Timelock] = tok[Timelock] - s
        /\ \A a \in Accounts \ {Timelock} : tok[a] <= paid[a]
        /\ \A a \in Accounts \ {Timelock, beneficiary} : paid[a] = tok[a]
    <2> HIDE DEF s
    <2> QED
      BY <1>1, <1>2, <1>4, MoveType
  <1>7. /\ tok' \in [Accounts -> Nat]
        /\ tok'[Timelock] = 0
        /\ \A a \in Accounts \ {Timelock} : paid[a] <= tok'[a]
        /\ \A a \in Accounts \ {Timelock, ClawbackAdmin} : tok'[a] = paid[a]
    <2> HIDE DEF r, paid
    <2> QED
      BY <1>1, <1>2, <1>5, <1>6, MoveType
  <1>8. \A a \in Accounts \ {Timelock} : tok[a] <= tok'[a]
    <2> HIDE DEF paid
    <2> QED
      BY <1>2, <1>6, <1>7
  <1>9. TotalToken' = 0
    BY <1>1, <1>5, <1>7 DEF TotalToken, delegateVars
  <1>10. TypeOK'
    <2> HIDE DEF s
    <2>1. clawed' \in BOOLEAN
      BY <1>1, Zenon
    <2> QED
      BY <1>1, <1>3, <1>4, <1>7, <1>9, <2>1
         DEF IInv, TypeOK, ownerVars, delegateVars
  <1>11. Started' /\ Elapsed' = Elapsed /\ PassedCliff' = PassedCliff
    BY <1>1 DEF PassedCliff, Started, Elapsed
  <1>12. ProportionAvailable(initialBalance, Elapsed)'
           = ProportionAvailable(CheckedBalance, Elapsed)
    BY <1>1, <1>11 DEF ProportionAvailable
  <1>13. PassedCliff => /\ outflow' = outflow + (ProportionAvailable(CheckedBalance, Elapsed)
                                                 - AlreadyReleased)
                        /\ outflow' <= ProportionAvailable(CheckedBalance, Elapsed)
    BY <1>1, <1>3, CheckedFacts DEF VestedShare, Available, IInv, TypeOK
  <1>14. ~PassedCliff => outflow' = 0
    BY <1>1, <1>3, TimelockAssumption DEF VestedShare, IInv, VestedOnly, PassedCliff, TypeOK
  <1>15. VestedOnly'
    BY <1>1, <1>3, <1>11, <1>12, <1>13, <1>14, TimelockAssumption DEF VestedOnly, PassedCliff
  <1>16. outflow + s <= CheckedBalance
    <2>1. CASE PassedCliff
      <3>1. s <= TotalToken
        BY <1>1, <1>2, <1>4 DEF TotalToken
      <3> HIDE DEF s
      <3> QED
        BY <1>3, <1>4, <3>1, CheckedFacts DEF AlreadyReleased, IInv, TypeOK
    <2>2. CASE ~PassedCliff
      BY <1>1, <1>3, <2>2, CheckedFacts, TimelockAssumption DEF VestedShare, IInv, VestedOnly, PassedCliff
    <2> QED
      BY <2>1, <2>2
  <1>17. Accounted'
    <2> HIDE DEF s
    <2> QED
      BY <1>1, <1>3, <1>4, <1>9, <1>11, <1>16 DEF Accounted, IInv, TypeOK
  <1>18. DelegateesHold' /\ Delegations'
    <2> HIDE DEF s, r, paid
    <2>1. \A d \in Delegatees : d \in Accounts \ {Timelock, beneficiary, ClawbackAdmin}
      BY TimelockAssumption DEF IInv, TypeOK, Accounts
    <2>2. \A d \in Delegatees : tok'[d] = tok[d]
      BY <1>6, <1>7, <2>1
    <2> QED
      BY <1>1, <2>2, DelegationsStay
  <1>19. ~terms.unlock /\ ~clawed /\ PassedCliff =>
           outflow' = ProportionAvailable(initialBalance, Elapsed)'
    BY <1>3, <1>12, <1>13, CheckedFacts DEF IInv, TypeOK
  <1> QED
    BY <1>10, <1>15, <1>17, <1>18, <1>19 DEF IInv

(* unlockLiquidity leaves lastBalance as it is: what arrives later counts   *)
(* as new only beyond it.                                                   *)
LEMMA UnlockStep ==
  ASSUME IInv, UnlockLiquidity
  PROVE  IInv'
  <1>1. /\ tok \in [Accounts -> Nat] /\ Timelock \in Accounts
        /\ beneficiary \in Accounts /\ TotalToken \in Nat
    BY CheckedFacts DEF IInv, TypeOK, Accounts
  <1>2. /\ tok' \in [Accounts -> Nat]
        /\ \A a \in Accounts \ {Timelock, beneficiary} : tok'[a] = tok[a]
    BY <1>1, MoveType DEF UnlockLiquidity
  <1>3. TypeOK'
    BY <1>2 DEF UnlockLiquidity, IInv, TypeOK, curveVars, ownerVars, delegateVars
  <1>4. VestedOnly' /\ (~Started' => initialBalance' = 0)
    BY <1>3, VestedStays DEF UnlockLiquidity, IInv, TypeOK
  <1>5. Accounted'
    BY <1>4 DEF UnlockLiquidity, IInv, Accounted, curveVars
  <1>6. DelegateesHold' /\ Delegations'
    <2>1. \A d \in Delegatees : d \in Accounts \ {Timelock, beneficiary}
      BY TimelockAssumption DEF IInv, TypeOK, Accounts
    <2>2. \A d \in Delegatees : tok'[d] = tok[d]
      BY <1>2, <2>1
    <2> QED
      BY <2>2, DelegationsStay DEF UnlockLiquidity
  <1> QED
    BY <1>3, <1>4, <1>5, <1>6 DEF IInv

(* A step that does not touch the curve's variables and never lowers what   *)
(* the timelock counts as its own keeps the accounts.                       *)
LEMMA AccountsStay ==
  ASSUME IInv, TypeOK', UNCHANGED <<terms, curveVars>>, now <= now',
         TotalToken <= TotalToken'
  PROVE  Accounted' /\ VestedOnly'
  <1>1. VestedOnly' /\ (~Started' => initialBalance' = 0)
    BY VestedStays
  <1>2. TotalToken \in Nat /\ TotalToken' \in Nat
    BY CheckedFacts DEF TypeOK, TotalToken, Accounts
  <1> QED
    BY <1>1, <1>2 DEF IInv, TypeOK, Accounted, curveVars

(* The sum of the delegations follows the one that changes.                 *)
LEMMA DelegationChanges ==
  ASSUME IInv, NEW d \in Delegatees, NEW n \in Nat,
         delegateAmount' = [delegateAmount EXCEPT ![d] = n],
         totalDelegated' = totalDelegated - delegateAmount[d] + n
  PROVE  Delegations'
  <1> DEFINE after == delegateAmount'
  <1>1. IsFiniteSet(Delegatees) /\ \A x \in Delegatees : delegateAmount[x] \in Int
    BY TimelockAssumption DEF IInv, TypeOK
  <1>2. /\ after[d] = n /\ after[d] \in Int
        /\ \A x \in Delegatees \ {d} : after[x] = delegateAmount[x]
    BY DEF IInv, TypeOK
  <1> HIDE DEF after
  <1>3. /\ SumOf(delegateAmount, Delegatees) \in Int
        /\ SumOf(after, Delegatees)
             = SumOf(delegateAmount, Delegatees) - delegateAmount[d] + after[d]
    BY <1>1, <1>2, SumUpdate
  <1> QED
    BY <1>2, <1>3 DEF IInv, Delegations, after

LEMMA UndelegateStep ==
  ASSUME IInv, NEW by \in People, NEW d \in Delegatees, Undelegate(by, d)
  PROVE  IInv'
  <1>1. /\ tok \in [Accounts -> Nat] /\ Timelock \in Accounts /\ d \in Accounts
        /\ d # Timelock /\ delegateAmount \in [Delegatees -> Nat]
        /\ totalDelegated \in Nat /\ delegateAmount[d] <= tok[d]
        /\ tok[Timelock] \in Nat /\ tok[d] \in Nat
    BY TimelockAssumption DEF IInv, TypeOK, Accounts, DelegateesHold
  <1>2. /\ delegateAmount[d] <= totalDelegated
        /\ tok' = Move(tok, d, Timelock, tok[d])
        /\ totalDelegated' = totalDelegated - delegateAmount[d]
        /\ delegateAmount' = [delegateAmount EXCEPT ![d] = 0]
        /\ delegateContract' = [delegateContract EXCEPT ![d] = FALSE]
        /\ UNCHANGED <<terms, now, curveVars, ownerVars>>
    BY DEF Undelegate
  <1>3. /\ tok' \in [Accounts -> Nat]
        /\ \A a \in Accounts \ {d} : tok[a] <= tok'[a]
        /\ tok'[Timelock] = tok[Timelock] + tok[d] /\ tok'[d] = 0
        /\ \A a \in Accounts \ {d, Timelock} : tok'[a] = tok[a]
    BY <1>1, <1>2, MoveType
  <1>4. delegateContract' \in [Delegatees -> BOOLEAN]
    BY <1>2, Zenon DEF IInv, TypeOK
  <1>5. TypeOK'
    BY <1>1, <1>2, <1>3, <1>4 DEF IInv, TypeOK, curveVars, ownerVars
  <1>6. TotalToken <= TotalToken'
    BY <1>1, <1>2, <1>3 DEF TotalToken
  <1>7. Accounted' /\ VestedOnly'
    BY <1>2, <1>5, <1>6, AccountsStay DEF IInv, TypeOK
  <1>8. DelegateesHold'
    <2> SUFFICES ASSUME NEW x \in Delegatees
                 PROVE  delegateAmount'[x] <= tok'[x]
                        /\ (~delegateContract'[x] => tok'[x] = 0)
      BY DEF DelegateesHold
    <2>1. CASE x = d
      BY <1>1, <1>2, <1>3, <2>1
    <2>2. CASE x # d
      <3>1. delegateContract'[x] = delegateContract[x]
            /\ delegateAmount'[x] = delegateAmount[x]
        BY <1>1, <1>2, <2>2 DEF IInv, TypeOK
      <3>2. tok'[x] = tok[x]
        BY <1>3, <2>2, TimelockAssumption DEF Accounts
      <3>3. delegateAmount[x] <= tok[x]
        BY DEF IInv, DelegateesHold
      <3>4. ~delegateContract[x] => tok[x] = 0
        BY DEF IInv, DelegateesHold
      <3> QED
        BY <3>1, <3>2, <3>3, <3>4, Zenon
    <2> QED
      BY <2>1, <2>2
  <1>9. Delegations'
    <2>1. totalDelegated' = totalDelegated - delegateAmount[d] + 0 /\ 0 \in Nat
      BY <1>1, <1>2
    <2> QED
      BY <1>2, <2>1, DelegationChanges
  <1> QED
    BY <1>5, <1>7, <1>8, <1>9 DEF IInv

(* A delegation: what comes back from an earlier one covers the amount that *)
(* is delegated again with the new one.                                     *)
LEMMA DelegateStep ==
  ASSUME IInv, NEW by \in People, NEW d \in Delegatees, NEW amount \in Nat,
         Delegate(by, d, amount)
  PROVE  IInv'
  <1> DEFINE included == amount + delegateAmount[d]
             returned == IF delegateContract[d] THEN tok[d] ELSE 0
             back == Move(tok, d, Timelock, returned)
  <1>1. /\ tok \in [Accounts -> Nat] /\ Timelock \in Accounts /\ d \in Accounts
        /\ d # Timelock /\ delegateAmount \in [Delegatees -> Nat]
        /\ totalDelegated \in Nat /\ delegateAmount[d] \in Nat
        /\ tok[Timelock] \in Nat /\ tok[d] \in Nat
    BY TimelockAssumption DEF IInv, TypeOK, Accounts
  <1>2. /\ amount <= tok[Timelock]
        /\ tok' = Move(back, Timelock, d, included)
        /\ totalDelegated' = totalDelegated + amount
        /\ delegateAmount' = [delegateAmount EXCEPT ![d] = included]
        /\ delegateContract' = [delegateContract EXCEPT ![d] = TRUE]
        /\ UNCHANGED <<terms, now, curveVars, ownerVars>>
    BY DEF Delegate
  <1>3. /\ returned \in Nat /\ returned <= tok[d]
        /\ included \in Nat /\ included = amount + delegateAmount[d]
        /\ delegateAmount[d] <= returned /\ returned = tok[d]
    BY <1>1 DEF IInv, DelegateesHold
  <1>4. /\ back \in [Accounts -> Nat]
        /\ \A a \in Accounts \ {d} : tok[a] <= back[a]
        /\ back[Timelock] = tok[Timelock] + returned
        /\ back[d] = tok[d] - returned
        /\ \A a \in Accounts \ {d, Timelock} : back[a] = tok[a]
    <2> HIDE DEF returned
    <2> QED
      BY <1>1, <1>3, MoveType
  <1>5. included <= back[Timelock]
    <2> HIDE DEF returned, included, back
    <2> QED
      BY <1>1, <1>2, <1>3, <1>4
  <1>6. /\ tok' \in [Accounts -> Nat]
        /\ \A a \in Accounts \ {Timelock} : back[a] <= tok'[a]
        /\ tok'[Timelock] = back[Timelock] - included
        /\ tok'[d] = back[d] + included
        /\ \A a \in Accounts \ {d, Timelock} : tok'[a] = back[a]
    <2> HIDE DEF returned, included, back
    <2> DEFINE new == Move(back, Timelock, d, included)
    <2>1. included \in Nat /\ included <= back[Timelock] /\ back \in [Accounts -> Nat]
      BY <1>3, <1>4, <1>5
    <2>2. Timelock \in Accounts /\ d \in Accounts /\ d # Timelock
      BY <1>1
    <2>3. /\ new \in [Accounts -> Nat]
          /\ \A a \in Accounts \ {Timelock} : back[a] <= new[a]
          /\ new[Timelock] = back[Timelock] - included
          /\ new[d] = back[d] + included
          /\ \A a \in Accounts \ {d, Timelock} : new[a] = back[a]
      BY <2>1, <2>2, MoveType
    <2> QED
      BY <1>2, <2>3
  <1>7. delegateContract' \in [Delegatees -> BOOLEAN]
    BY <1>2, Zenon DEF IInv, TypeOK
  <1>8. TypeOK'
    <2> HIDE DEF returned, included, back
    <2> QED
      BY <1>1, <1>2, <1>3, <1>6, <1>7 DEF IInv, TypeOK, curveVars, ownerVars
  <1>9. TotalToken <= TotalToken'
    <2> HIDE DEF returned, included, back
    <2> QED
      BY <1>1, <1>2, <1>3, <1>4, <1>6 DEF TotalToken
  <1>10. Accounted' /\ VestedOnly'
    BY <1>2, <1>8, <1>9, AccountsStay DEF IInv, TypeOK
  <1>11. DelegateesHold'
    <2> HIDE DEF returned, included, back
    <2> SUFFICES ASSUME NEW x \in Delegatees
                 PROVE  delegateAmount'[x] <= tok'[x]
                        /\ (~delegateContract'[x] => tok'[x] = 0)
      BY DEF DelegateesHold
    <2>1. CASE x = d
      <3>1. delegateContract'[x]
        BY <1>2, <1>7, <2>1, Zenon DEF IInv, TypeOK
      <3>2. delegateAmount'[x] <= tok'[x]
        BY <1>1, <1>2, <1>3, <1>4, <1>6, <2>1
      <3> QED
        BY <3>1, <3>2, Zenon
    <2>2. CASE x # d
      <3>1. delegateContract'[x] = delegateContract[x]
            /\ delegateAmount'[x] = delegateAmount[x]
        BY <1>1, <1>2, <2>2 DEF IInv, TypeOK
      <3>2. tok'[x] = tok[x]
        BY <1>4, <1>6, <2>2, TimelockAssumption DEF Accounts
      <3>3. delegateAmount[x] <= tok[x]
        BY DEF IInv, DelegateesHold
      <3>4. ~delegateContract[x] => tok[x] = 0
        BY DEF IInv, DelegateesHold
      <3> QED
        BY <3>1, <3>2, <3>3, <3>4, Zenon
    <2> QED
      BY <2>1, <2>2
  <1>12. Delegations'
    <2> HIDE DEF returned, included, back
    <2>1. totalDelegated' = totalDelegated - delegateAmount[d] + included
      BY <1>1, <1>2, <1>3
    <2> QED
      BY <1>2, <1>3, <2>1, DelegationChanges
  <1> QED
    BY <1>8, <1>10, <1>11, <1>12 DEF IInv

(* A funder only adds to what the timelock and the delegatees hold.         *)
LEMMA DepositStep ==
  ASSUME IInv, NEW from \in Funders, NEW to \in {Timelock, Burner} \cup Delegatees,
         NEW amount \in Nat, Deposit(from, to, amount)
  PROVE  IInv'
  <1>1. /\ tok \in [Accounts -> Nat] /\ Timelock \in Accounts
        /\ from \in Accounts /\ to \in Accounts /\ from \notin Delegatees
        /\ from # Timelock /\ totalDelegated \in Nat
        /\ tok[Timelock] \in Nat
    BY TimelockAssumption, BurnerAssumption DEF IInv, TypeOK, Accounts
  <1>2. /\ tok' \in [Accounts -> Nat]
        /\ \A a \in Accounts \ {from} : tok[a] <= tok'[a]
        /\ \A a \in Accounts \ {from, to} : tok'[a] = tok[a]
    BY <1>1, MoveType DEF Deposit
  <1>3. TypeOK'
    BY <1>2 DEF Deposit, IInv, TypeOK, curveVars, ownerVars, delegateVars
  <1>4. TotalToken <= TotalToken'
    <2>1. tok[Timelock] <= tok'[Timelock] /\ tok'[Timelock] \in Nat
      BY <1>1, <1>2
    <2>2. totalDelegated' = totalDelegated
      BY DEF Deposit, delegateVars
    <2> QED
      BY <1>1, <2>1, <2>2 DEF TotalToken
  <1>5. Accounted' /\ VestedOnly'
    BY <1>3, <1>4, AccountsStay DEF Deposit, IInv, TypeOK
  <1>6. ASSUME NEW x \in Delegatees
        PROVE  delegateAmount[x] <= tok'[x] /\ (~delegateContract[x] => tok'[x] = 0)
    <2>1. x \in Accounts /\ x # from /\ tok[x] \in Nat /\ tok'[x] \in Nat
          /\ delegateAmount[x] \in Nat
      BY <1>1, <1>2 DEF IInv, TypeOK, Accounts
    <2>2. /\ delegateAmount[x] <= tok[x]
          /\ ~delegateContract[x] => tok[x] = 0
      BY DEF IInv, DelegateesHold
    <2>3. delegateAmount[x] <= tok'[x]
      BY <1>2, <2>1, <2>2
    <2>4. ~delegateContract[x] => tok'[x] = tok[x]
      BY <1>2, <2>1 DEF Deposit
    <2> QED
      BY <2>2, <2>3, <2>4, Zenon
  <1>7. DelegateesHold' /\ Delegations'
    BY <1>6 DEF Deposit, delegateVars, IInv, DelegateesHold, Delegations
  <1> QED
    BY <1>3, <1>5, <1>7 DEF IInv

(* Steps that move no tokens.                                               *)
LEMMA QuietStep ==
  ASSUME IInv, UNCHANGED <<terms, tok, curveVars, delegateVars>>,
         now' \in Nat, now <= now',
         beneficiary' \in People, pendingBeneficiary' \in People \cup {NoOne}
  PROVE  IInv'
  <1>1. TypeOK'
    BY DEF IInv, TypeOK, curveVars, delegateVars
  <1>2. TotalToken' = TotalToken /\ TotalToken \in Nat
    BY CheckedFacts DEF TotalToken, delegateVars
  <1>3. Accounted' /\ VestedOnly'
    BY <1>1, <1>2, AccountsStay
  <1>4. DelegateesHold' /\ Delegations'
    BY DelegationsStay
  <1> QED
    BY <1>1, <1>3, <1>4 DEF IInv

-----------------------------------------------------------------------------
(* What ClawbackIsFair says of one step.                                    *)
ClawbackShare ==
  ~terms.unlock /\ ~clawed /\ clawed' /\ PassedCliff =>
    outflow' = ProportionAvailable(initialBalance', Elapsed)

LEMMA AmountsAreNat == 1 .. MaxAmount \subseteq Nat /\ 0 .. MaxAmount \subseteq Nat
  OBVIOUS

LEMMA BeneficiaryStep ==
  ASSUME IInv, NEW by \in People, BeneficiaryCall(by)
  PROVE  IInv' /\ clawed' = clawed
  <1>1. ASSUME NEW to \in People \cup {Timelock}, NEW n \in Nat, Release(by, to, n)
        PROVE  IInv' /\ clawed' = clawed
    BY <1>1, DoReleaseStep DEF Release, DoRelease
  <1>2. ASSUME NEW to \in People \cup {Timelock}, ReleaseMax(by, to)
        PROVE  IInv' /\ clawed' = clawed
    <2>1. PassedCliff /\ Available >= 0 /\ DoRelease(to, Available)
      BY <1>2 DEF ReleaseMax
    <2>2. Available \in Nat
      <3>1. ProportionAvailable(CheckedBalance, Elapsed) \in Nat
        BY <2>1, CheckedFacts, ElapsedType, CurveMonotone DEF IInv, PassedCliff
      <3> QED
        BY <2>1, <3>1, CheckedFacts DEF Available
    <2> QED
      BY <2>1, <2>2, DoReleaseStep DEF DoRelease
  <1>3. ASSUME NEW to \in People, SetPendingBeneficiary(by, to)
        PROVE  IInv' /\ clawed' = clawed
    <2>1. clawed' = clawed
      BY <1>3 DEF SetPendingBeneficiary, curveVars
    <2> QED
      BY <1>3, <2>1, QuietStep DEF SetPendingBeneficiary, IInv, TypeOK
  <1>4. ASSUME NEW d \in Delegatees, Undelegate(by, d)
        PROVE  IInv' /\ clawed' = clawed
    <2>1. clawed' = clawed
      BY <1>4 DEF Undelegate, curveVars
    <2> QED
      BY <1>4, <2>1, UndelegateStep
  <1>5. ASSUME NEW d \in Delegatees, NEW n \in Nat, Delegate(by, d, n)
        PROVE  IInv' /\ clawed' = clawed
    <2>1. clawed' = clawed
      BY <1>5 DEF Delegate, curveVars
    <2> QED
      BY <1>5, <2>1, DelegateStep
  <1>6. CASE \E to \in People \cup {Timelock}, n \in 0 .. MaxAmount : Release(by, to, n)
    BY <1>1, <1>6, AmountsAreNat
  <1>7. CASE \E d \in Delegatees, n \in 0 .. MaxAmount : Delegate(by, d, n)
    BY <1>5, <1>7, AmountsAreNat
  <1> QED
    BY <1>2, <1>3, <1>4, <1>6, <1>7 DEF BeneficiaryCall

LEMMA NextStep ==
  ASSUME IInv, [Next]_vars
  PROVE  IInv' /\ ClawbackShare
  <1>1. ASSUME NEW by \in People, BeneficiaryCall(by)
        PROVE  IInv' /\ clawed' = clawed
    BY <1>1, BeneficiaryStep
  <1>2. ASSUME NEW by \in People, AcceptBeneficiary(by)
        PROVE  IInv' /\ clawed' = clawed
    <2>1. clawed' = clawed
      BY <1>2 DEF AcceptBeneficiary, curveVars
    <2> QED
      BY <1>2, <2>1, QuietStep DEF AcceptBeneficiary, IInv, TypeOK
  <1>3. CASE Clawback
    <2>1. IInv'
      BY <1>3, ClawbackStep
    <2>2. ClawbackShare
      <3>1. ProportionAvailable(initialBalance, Elapsed)'
              = ProportionAvailable(initialBalance', Elapsed)
        BY <1>3 DEF Clawback, ProportionAvailable, Elapsed
      <3> QED
        BY <1>3, <3>1, ClawbackStep DEF ClawbackShare
    <2> QED
      BY <2>1, <2>2
  <1>4. ASSUME UnlockLiquidity
        PROVE  IInv' /\ clawed' = clawed
    <2>1. clawed' = clawed
      BY <1>4 DEF UnlockLiquidity, curveVars
    <2> QED
      BY <1>4, <2>1, UnlockStep
  <1>5. ASSUME NEW from \in Funders, NEW to \in {Timelock} \cup Delegatees,
               NEW n \in Nat, Deposit(from, to, n)
        PROVE  IInv' /\ clawed' = clawed
    <2>1. clawed' = clawed
      BY <1>5 DEF Deposit, curveVars
    <2> QED
      BY <1>5, <2>1, DepositStep
  <1>6. ASSUME Tick PROVE IInv' /\ clawed' = clawed
    <2>1. clawed' = clawed
      BY <1>6 DEF Tick, curveVars
    <2> QED
      BY <1>6, <2>1, QuietStep DEF Tick, IInv, TypeOK, ownerVars
  <1>7. ASSUME UNCHANGED vars PROVE IInv' /\ clawed' = clawed
    <2>1. clawed' = clawed
      BY <1>7 DEF vars, curveVars
    <2> QED
      BY <1>7, <2>1, QuietStep DEF vars, IInv, TypeOK, ownerVars
  <1>8. ASSUME clawed' = clawed PROVE ClawbackShare
    BY <1>8, Zenon DEF ClawbackShare
  <1>9. CASE \E from \in Funders, to \in {Timelock} \cup Delegatees,
               n \in 1 .. MaxAmount : Deposit(from, to, n)
    BY <1>5, <1>8, <1>9, AmountsAreNat
  <1>10. CASE \E by \in People : BeneficiaryCall(by) \/ AcceptBeneficiary(by)
    BY <1>1, <1>2, <1>8, <1>10
  <1> QED
    BY <1>3, <1>4, <1>6, <1>7, <1>8, <1>9, <1>10 DEF Next

LEMMA InitIInv == Init => IInv
  <1> SUFFICES ASSUME Init PROVE IInv
    OBVIOUS
  <1>1. \A a \in Accounts : tok[a] \in Nat
    BY TimelockAssumption DEF Init, Accounts
  <1>2. tok \in [Accounts -> Nat]
    BY <1>1 DEF Init
  <1>3. clawed \in BOOLEAN /\ delegateContract \in [Delegatees -> BOOLEAN]
    BY Zenon DEF Init
  <1>4. TypeOK
    BY <1>2, <1>3, TimelockAssumption DEF Init, TypeOK
  <1>5. TotalToken \in Nat
    BY <1>4 DEF TypeOK, TotalToken, Accounts
  <1>6. Accounted
    BY <1>5 DEF Init, Accounted
  <1>7. DelegateesHold
    BY <1>1, TimelockAssumption DEF Init, DelegateesHold, Accounts
  <1>8. VestedOnly
    <2>1. 0 <= ProportionAvailable(0, Elapsed)
      <3>1. \A e \in Int : 0 * e = 0
        OBVIOUS
      <3>2. 0 * Elapsed = 0 /\ 0 * Elapsed * Elapsed = 0
        BY <1>4, <3>1, ElapsedType
      <3>3. 0 \div Duration = 0
        BY TimelockAssumption
      <3> QED
        BY <3>2, <3>3 DEF ProportionAvailable
    <2> QED
      BY <2>1 DEF Init, VestedOnly
  <1>9. Delegations
    <2>1. IsFiniteSet(Delegatees)
      BY TimelockAssumption
    <2>2. totalDelegated = 0 /\ \A d \in Delegatees : delegateAmount[d] = 0
      BY DEF Init
    <2> QED
      BY <2>1, <2>2, SumZero DEF Delegations
  <1> QED
    BY <1>4, <1>6, <1>7, <1>8, <1>9 DEF IInv

-----------------------------------------------------------------------------
(* No release, clawback, unlock or delegation overdraws an account.         *)
THEOREM TypeCorrect == Spec => []TypeOK
  <1>1. IInv /\ [Next]_vars => IInv'
    BY NextStep
  <1> QED
    BY InitIInv, <1>1, PTL DEF Spec, IInv

(* The beneficiary never takes more than has vested, and nothing before the *)
(* cliff.                                                                   *)
THEOREM OnlyVestedIsReleased == Spec => []VestedOnly
  <1>1. IInv /\ [Next]_vars => IInv'
    BY NextStep
  <1> QED
    BY InitIInv, <1>1, PTL DEF Spec, IInv

LEMMA NeverRefused == IInv => NeverLockedOut
  <1> SUFFICES ASSUME IInv, ~clawed, ~terms.unlock
               PROVE  AlreadyReleased >= 0 /\ (Started => Available >= 0)
    BY DEF NeverLockedOut
  <1>1. AlreadyReleased \in Nat /\ AlreadyReleased = outflow
    BY CheckedFacts
  <1>2. ASSUME Started PROVE Available >= 0
    <2>1. /\ ProportionAvailable(initialBalance, Elapsed) \in Nat
          /\ ProportionAvailable(CheckedBalance, Elapsed) \in Nat
          /\ ProportionAvailable(initialBalance, Elapsed)
               <= ProportionAvailable(CheckedBalance, Elapsed)
      <3>1. /\ Elapsed \in Nat /\ CheckedBalance \in Nat
            /\ initialBalance \in Nat /\ initialBalance <= CheckedBalance
        BY <1>2, CheckedFacts, ElapsedType DEF IInv, TypeOK
      <3> QED
        BY <3>1, CurveMonotone
    <2> QED
      BY <1>1, <2>1 DEF Available, IInv, VestedOnly
  <1> QED
    BY <1>1, <1>2

(* Before a clawback or an unlock, availableForRelease never reverts.       *)
THEOREM BeneficiaryNeverLockedOut == Spec => []NeverLockedOut
  <1>1. IInv /\ [Next]_vars => IInv'
    BY NextStep
  <1> QED
    BY InitIInv, <1>1, NeverRefused, PTL DEF Spec

(* A clawback leaves the beneficiary with what the curve gives, however the *)
(* releases before it were split.                                           *)
THEOREM ClawbackPaysTheVested == Spec => ClawbackIsFair
  <1>1. IInv /\ [Next]_vars => IInv'
    BY NextStep
  <1>2. IInv /\ [Next]_vars =>
          [~terms.unlock /\ ~clawed /\ clawed' /\ PassedCliff =>
             outflow' = ProportionAvailable(initialBalance', Elapsed)]_vars
    BY NextStep DEF ClawbackShare
  <1> QED
    BY InitIInv, <1>1, <1>2, PTL DEF Spec, ClawbackIsFair

(* What the timelock counts as delegated is the sum of its delegations, and *)
(* every Delegatee contract holds what was delegated to it.                 *)
THEOREM DelegatedIsBacked == Spec => []DelegationsBacked
  <1>1. IInv /\ [Next]_vars => IInv'
    BY NextStep
  <1>2. IInv => DelegationsBacked
    BY DEF IInv, Delegations, DelegateesHold, DelegationsBacked, SumOf
  <1> QED
    BY InitIInv, <1>1, <1>2, PTL DEF Spec

-----------------------------------------------------------------------------
(***************************************************************************)
(* The timelock with a burner: its calls are calls a beneficiary may make,  *)
(* except that it passes on what it releases in the same transaction.       *)
(***************************************************************************)
LEMMA AvailableType ==
  ASSUME IInv, PassedCliff, Available >= 0
  PROVE  Available \in Nat
  <1>1. ProportionAvailable(CheckedBalance, Elapsed) \in Nat
    BY CheckedFacts, ElapsedType, CurveMonotone DEF IInv, PassedCliff
  <1> QED
    BY <1>1, CheckedFacts DEF Available

LEMMA PassOnMoves ==
  ASSUME IInv, PassOn
  PROVE  /\ tok' \in [Accounts -> Nat]
         /\ tok'[Timelock] = tok[Timelock] - Available
         /\ \A a \in Accounts \ {Timelock, Burner, Sink} : tok'[a] = tok[a]
  <1> DEFINE n == Available
             taken == Move(tok, Timelock, Burner, n)
             held == tok[Burner] + n
  <1>1. /\ tok \in [Accounts -> Nat] /\ Timelock \in Accounts
        /\ Burner \in Accounts /\ Sink \in Accounts /\ Burner # Sink
        /\ Timelock \notin {Burner, Sink} /\ tok[Burner] \in Nat
    BY TimelockAssumption, BurnerAssumption DEF IInv, TypeOK, Accounts
  <1>2. n \in Nat /\ n <= tok[Timelock] /\ tok' = Move(taken, Burner, Sink, held)
    BY AvailableType DEF PassOn
  <1> HIDE DEF n
  <1>3. /\ taken \in [Accounts -> Nat]
        /\ taken[Timelock] = tok[Timelock] - n /\ taken[Burner] = held
        /\ \A a \in Accounts \ {Timelock, Burner} : taken[a] = tok[a]
    BY <1>1, <1>2, MoveType
  <1>4. held \in Nat
    BY <1>1, <1>2
  <1> HIDE DEF taken, held
  <1>5. /\ tok' \in [Accounts -> Nat]
        /\ \A a \in Accounts \ {Burner, Sink} : tok'[a] = taken[a]
    BY <1>1, <1>2, <1>3, <1>4, MoveType
  <1> QED
    BY <1>1, <1>3, <1>5 DEF n

LEMMA PassOnStep ==
  ASSUME IInv, PassOn
  PROVE  IInv'
  <1>1. /\ PassedCliff /\ Available >= 0 /\ Available <= tok[Timelock]
        /\ outflow' = outflow + Available
        /\ UNCHANGED <<terms, now, clawed, ownerVars, delegateVars>>
        /\ BalanceCheck
    BY DEF PassOn
  <1>2. Available \in Nat /\ Available <= Available
    BY <1>1, AvailableType
  <1>3. \A d \in Delegatees : d \in Accounts \ {Timelock, Burner, Sink}
    BY TimelockAssumption, BurnerAssumption DEF Accounts
  <1>4. beneficiary' \in People /\ pendingBeneficiary' \in People \cup {NoOne}
    BY <1>1 DEF ownerVars, IInv, TypeOK
  <1>5. /\ tok' \in [Accounts -> Nat]
        /\ tok'[Timelock] = tok[Timelock] - Available
        /\ \A d \in Delegatees : tok'[d] = tok[d]
    BY <1>3, PassOnMoves
  <1> QED
    BY <1>1, <1>2, <1>4, <1>5, ReleasedStep

LEMMA BurnerNextStep ==
  ASSUME IInv, [BurnerNext]_vars
  PROVE  IInv' /\ ClawbackShare
  <1>1. CASE Next \/ UNCHANGED vars
    BY <1>1, NextStep
  <1>7. ASSUME clawed' = clawed PROVE ClawbackShare
    BY <1>7, Zenon DEF ClawbackShare
  <1>2. CASE PassOn
    BY <1>2, <1>7, PassOnStep DEF PassOn
  <1>3. CASE \E from \in Funders, to \in {Timelock, Burner} \cup Delegatees,
               n \in 1 .. MaxAmount : Deposit(from, to, n)
    BY <1>3, <1>7, DepositStep, AmountsAreNat DEF Deposit, curveVars
  <1>4. CASE \E by \in KeyHolders : BeneficiaryCall(by) \/ AcceptBeneficiary(by)
    BY <1>4, NextStep DEF Next, KeyHolders
  <1>5. CASE BurnerAccepts
    BY <1>5, NextStep, BurnerAssumption DEF Next, BurnerAccepts
  <1>6. CASE \E d \in Delegatees : BurnerUndelegates(d)
    BY <1>6, <1>7, UndelegateStep, BurnerAssumption DEF BurnerUndelegates, Undelegate, curveVars
  <1> QED
    BY <1>1, <1>2, <1>3, <1>4, <1>5, <1>6 DEF BurnerNext, Next

(* A beneficiary that accepted has nobody pending, and a burner appoints    *)
(* nobody.                                                                  *)
NothingPending == beneficiary = Burner => pendingBeneficiary = NoOne

BurnerInv == IInv /\ NothingPending

(* Only the beneficiary appoints a successor, and only that one accepts.    *)
LEMMA OwnersStep ==
  ASSUME BurnerInv, [BurnerNext]_vars
  PROVE  NothingPending' /\ (beneficiary = Burner => beneficiary' = Burner)
  <1>1. NoOne \notin People /\ Burner \in People /\ Burner \notin KeyHolders
    BY TimelockAssumption, BurnerAssumption DEF KeyHolders
  <1>2. ASSUME UNCHANGED ownerVars
        PROVE  NothingPending' /\ (beneficiary = Burner => beneficiary' = Burner)
    BY <1>2 DEF BurnerInv, NothingPending, ownerVars
  <1>3. ASSUME NEW by \in KeyHolders, BeneficiaryCall(by)
        PROVE  NothingPending' /\ (beneficiary = Burner => beneficiary' = Burner)
    <2>1. CASE \E to \in People : SetPendingBeneficiary(by, to)
      BY <1>1, <2>1 DEF SetPendingBeneficiary, BurnerInv, NothingPending
    <2> QED
      BY <1>2, <1>3, <2>1
         DEF BeneficiaryCall, Release, ReleaseMax, DoRelease, Undelegate, Delegate
  <1>4. ASSUME NEW by \in People, AcceptBeneficiary(by)
        PROVE  NothingPending' /\ (beneficiary = Burner => beneficiary' = Burner)
    BY <1>1, <1>4 DEF AcceptBeneficiary, BurnerInv, NothingPending
  <1> QED
    BY <1>1, <1>2, <1>3, <1>4
       DEF BurnerNext, BurnerAccepts, KeyHolders, BurnerUndelegates, Undelegate, PassOn,
           Clawback, UnlockLiquidity, Deposit, Tick, vars

(* What each step does to the tokens of a key holder, once the burner is    *)
(* the beneficiary.                                                         *)
LEMMA KeyHolderStep ==
  ASSUME BurnerInv, [BurnerNext]_vars, beneficiary = Burner,
         NEW a \in KeyHolders \ {ClawbackAdmin}
  PROVE  tok'[a] <= tok[a]
  <1>1. /\ tok \in [Accounts -> Nat] /\ tok[a] \in Nat
        /\ a \in Accounts /\ a \notin {Timelock, Burner, Sink, ClawbackAdmin}
        /\ a \notin Delegatees
    BY TimelockAssumption DEF BurnerInv, IInv, TypeOK, Accounts, KeyHolders
  <1>2. ASSUME tok' = tok PROVE tok'[a] <= tok[a]
    BY <1>1, <1>2
  <1>3. ASSUME NEW by \in KeyHolders, BeneficiaryCall(by) PROVE FALSE
    BY <1>3, BurnerAssumption
       DEF BeneficiaryCall, Release, ReleaseMax, SetPendingBeneficiary, Undelegate,
           Delegate, KeyHolders
  <1>4. ASSUME NEW from \in Funders, NEW to \in {Timelock, Burner} \cup Delegatees,
               NEW n \in 1 .. MaxAmount, Deposit(from, to, n)
        PROVE  tok'[a] <= tok[a]
    <2>1. to # a /\ n \in Nat /\ tok' = Move(tok, from, to, n)
      BY <1>1, <1>4, AmountsAreNat DEF Deposit
    <2>2. tok'[a] = IF a = from THEN tok[a] - n ELSE tok[a]
      BY <1>1, <2>1 DEF Move
    <2> QED
      BY <1>1, <2>1, <2>2
  <1>5. CASE PassOn
    BY <1>1, <1>2, <1>5, PassOnMoves DEF BurnerInv
  <1>6. CASE Clawback
    BY <1>1, <1>6 DEF Clawback, Move
  <1>7. CASE UnlockLiquidity
    BY <1>1, <1>7 DEF UnlockLiquidity, Move
  <1>8. ASSUME NEW d \in Delegatees, Undelegate(Burner, d) PROVE tok'[a] <= tok[a]
    BY <1>1, <1>8 DEF Undelegate, Move
  <1>9. CASE \E by \in People : AcceptBeneficiary(by)
    BY <1>2, <1>9 DEF AcceptBeneficiary
  <1>10. CASE Tick \/ UNCHANGED vars
    BY <1>2, <1>10 DEF Tick, vars
  <1> QED
    BY <1>3, <1>4, <1>5, <1>6, <1>7, <1>8, <1>9, <1>10, BurnerAssumption
       DEF BurnerNext, BurnerAccepts, BurnerUndelegates, KeyHolders

LEMMA InitBurnerInv == Init => BurnerInv
  BY InitIInv DEF Init, BurnerInv, NothingPending

(* What holds of the timelock holds with a burner too: only what has vested *)
(* is released, by a release that never reverts, and delegations are backed.*)
THEOREM BurnerReleasesTheVested ==
  BurnerSpec => [](VestedOnly /\ NeverLockedOut /\ DelegationsBacked)
  <1>1. IInv /\ [BurnerNext]_vars => IInv'
    BY BurnerNextStep
  <1>2. IInv => VestedOnly /\ NeverLockedOut /\ DelegationsBacked
    BY NeverRefused DEF IInv, Delegations, DelegateesHold, DelegationsBacked, SumOf
  <1> QED
    BY InitIInv, <1>1, <1>2, PTL DEF BurnerSpec

(* And a clawback is as fair when a burner is the beneficiary.              *)
THEOREM BurnerClawbackPaysTheVested == BurnerSpec => ClawbackIsFair
  <1>1. IInv /\ [BurnerNext]_vars => IInv'
    BY BurnerNextStep
  <1>2. IInv /\ [BurnerNext]_vars =>
          [~terms.unlock /\ ~clawed /\ clawed' /\ PassedCliff =>
             outflow' = ProportionAvailable(initialBalance', Elapsed)]_vars
    BY BurnerNextStep DEF ClawbackShare
  <1> QED
    BY InitIInv, <1>1, <1>2, PTL DEF BurnerSpec, ClawbackIsFair

(* A burner that has accepted stays the beneficiary, whatever was pending.  *)
THEOREM BurnerIsForEver == BurnerSpec => HandoverIsFinal
  <1>1. BurnerInv /\ [BurnerNext]_vars =>
          BurnerInv' /\ [beneficiary = Burner => beneficiary' = Burner]_vars
    BY BurnerNextStep, OwnersStep DEF BurnerInv
  <1> QED
    BY InitBurnerInv, <1>1, PTL DEF BurnerSpec, HandoverIsFinal

(* From then on no token, delegated or vested, reaches a key holder.        *)
THEOREM BurnerKeepsTokensOff == BurnerSpec => OnlyTheSinkGains
  <1>1. BurnerInv /\ [BurnerNext]_vars => BurnerInv'
    BY BurnerNextStep, OwnersStep DEF BurnerInv
  <1>2. BurnerInv /\ [BurnerNext]_vars =>
          [beneficiary = Burner =>
             \A a \in KeyHolders \ {ClawbackAdmin} : tok'[a] <= tok[a]]_vars
    BY KeyHolderStep
  <1> QED
    BY InitBurnerInv, <1>1, <1>2, PTL DEF BurnerSpec, OnlyTheSinkGains
=============================================================================
