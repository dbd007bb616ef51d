--------------------------- MODULE TokenTimelock ---------------------------
(***************************************************************************)
(* contracts/timelocks: TokenTimelock with the linear and the quadratic     *)
(* curve, the unlock of LinearUnlockTimelock, and the delegation of part of *)
(* the locked TRIBE by TimelockedDelegator and the subdelegator.  A plain   *)
(* timelock is the instance with no delegatees.                             *)
(***************************************************************************)
EXTENDS ERC20, Timed, FiniteSetsExt

CONSTANTS
  People,          \* accounts that call the timelock
  Funders,         \* accounts that send tokens to it
  Timelock,        \* its address
  ClawbackAdmin,   \* clawbackAdmin of all but the delegators
  Delegatees,      \* a Delegatee contract holds what is delegated to each
  FirstBeneficiary,
  NoOne,           \* the zero address, no pending beneficiary
  Duration, CliffSeconds,
  StartTimes,      \* values of startTime, which the constructor may set
  InitialTokens,   \* token balances at the deployment
  DeployTime, MaxTime,
  MaxAmount        \* bound of the amounts calls name

Accounts == People \cup Funders \cup {Timelock, ClawbackAdmin} \cup Delegatees

ASSUME TimelockAssumption ==
  /\ Timelock \notin People \cup Funders \cup Delegatees \cup {ClawbackAdmin}
  /\ Delegatees \cap (People \cup Funders \cup {ClawbackAdmin}) = {}
  /\ IsFiniteSet(Delegatees)
  /\ FirstBeneficiary \in People
  /\ NoOne \notin People
  /\ Duration \in Nat \ {0}
  /\ CliffSeconds \in Nat
  /\ StartTimes \subseteq Nat \ {0}
  /\ InitialTokens \in [Funders \cup {Timelock} -> Nat]
  /\ DeployTime \in Nat \ {0}
  /\ MaxTime \in Nat /\ MaxAmount \in Nat

(* The contracts of the directory: a curve, LinearUnlockTimelock's unlock,  *)
(* the delegation of TimelockedDelegator and the subdelegator.              *)
Contracts ==
  {c \in [quadratic : BOOLEAN, unlock : BOOLEAN, delegates : BOOLEAN,
          start : StartTimes] :
     c.unlock => ~c.quadratic /\ ~c.delegates}

VARIABLES
  terms,                            \* which contract it is, and its startTime
  now,                              \* block.timestamp
  tok,                              \* balances of lockedToken
  initialBalance, lastBalance,      \* as balanceCheck left them
  beneficiary, pendingBeneficiary,
  delegateContract,                 \* whether each delegatee's contract exists
  delegateAmount, totalDelegated,
  outflow,                          \* history: tokens the beneficiary released
  clawed                            \* history: clawback has been called

curveVars    == <<initialBalance, lastBalance, outflow, clawed>>
ownerVars    == <<beneficiary, pendingBeneficiary>>
delegateVars == <<delegateContract, delegateAmount, totalDelegated>>
vars == <<terms, now, tok, curveVars, ownerVars, delegateVars>>

Init ==
  /\ terms \in Contracts
  /\ now = DeployTime
  /\ tok = [a \in Accounts |-> IF a \in DOMAIN InitialTokens THEN InitialTokens[a] ELSE 0]
  /\ initialBalance = 0 /\ lastBalance = 0
  /\ beneficiary = FirstBeneficiary /\ pendingBeneficiary = NoOne
  /\ delegateContract = [d \in Delegatees |-> FALSE]
  /\ delegateAmount = [d \in Delegatees |-> 0]
  /\ totalDelegated = 0
  /\ outflow = 0 /\ clawed = FALSE

-----------------------------------------------------------------------------
Elapsed == TimeSinceStart(terms.start, Duration, now)

(* A start in the future makes timeSinceStart revert.                       *)
Started == terms.start <= now

NoCliff == Started   \* mutant: the cliff is not looked at

PassedCliff == Started /\ Elapsed >= CliffSeconds

(* totalToken, delegated tokens included.                                   *)
TotalToken == tok[Timelock] + totalDelegated

(* _proportionAvailable                                                     *)
ProportionAvailable(balance, elapsed) ==
  IF terms.quadratic THEN ((balance * elapsed * elapsed) \div Duration) \div Duration
  ELSE (balance * elapsed) \div Duration

(* balanceCheck: what arrived since the last call is added to the balance   *)
(* that vests...                                                            *)
CheckedBalance ==
  IF TotalToken > lastBalance THEN initialBalance + (TotalToken - lastBalance)
  ELSE initialBalance

ForgetfulCheck ==   \* mutant: lastBalance is not updated
  /\ initialBalance' = CheckedBalance
  /\ UNCHANGED lastBalance

(* ... and after the body of the function the balance is remembered.        *)
BalanceCheck ==
  /\ initialBalance' = CheckedBalance
  /\ lastBalance' = TotalToken'

AlreadyReleased == CheckedBalance - TotalToken

AvailableOfAll == ProportionAvailable(CheckedBalance, Elapsed)   \* mutant

(* availableForRelease, inside balanceCheck; a negative result is a revert. *)
Available == ProportionAvailable(CheckedBalance, Elapsed) - AlreadyReleased

Leaving(to, amount) == IF to = Timelock THEN 0 ELSE amount

(* _release, which the balance outside of delegations must cover.           *)
DoRelease(to, amount) ==
  /\ amount <= tok[Timelock]
  /\ tok' = Move(tok, Timelock, to, amount)
  /\ outflow' = outflow + Leaving(to, amount)
  /\ UNCHANGED <<terms, now, clawed, ownerVars, delegateVars>>
  /\ BalanceCheck

ReleaseByAnyone(by, to, amount) ==   \* mutant: without onlyBeneficiary
  /\ amount # 0
  /\ PassedCliff
  /\ amount <= Available
  /\ DoRelease(to, amount)

Release(by, to, amount) ==
  /\ by = beneficiary
  /\ amount # 0
  /\ PassedCliff
  /\ amount <= Available
  /\ DoRelease(to, amount)

ReleaseMax(by, to) ==
  /\ by = beneficiary
  /\ PassedCliff
  /\ Available >= 0
  /\ DoRelease(to, Available)

(* clawback pays the beneficiary what has vested, the admin all the rest.   *)
UnfairShare == 0   \* mutant

VestedShare == IF PassedCliff THEN Available ELSE 0

(* The delegators have no admin.                                            *)
Clawback ==
  /\ ~terms.delegates
  /\ Started
  /\ VestedShare >= 0 /\ VestedShare <= tok[Timelock]
  /\ TotalToken <= tok[Timelock]
  /\ tok' = Move(Move(tok, Timelock, beneficiary, VestedShare),
                 Timelock, ClawbackAdmin, TotalToken - VestedShare)
  /\ outflow' = outflow + VestedShare
  /\ clawed' = TRUE
  /\ UNCHANGED <<terms, now, ownerVars, delegateVars>>
  /\ BalanceCheck

(* LinearUnlockTimelock.unlockLiquidity: everything, with no balanceCheck.  *)
UnlockLiquidity ==
  /\ terms.unlock
  /\ TotalToken <= tok[Timelock]
  /\ tok' = Move(tok, Timelock, beneficiary, TotalToken)
  /\ UNCHANGED <<terms, now, curveVars, ownerVars, delegateVars>>

SetPendingBeneficiary(by, to) ==
  /\ by = beneficiary
  /\ pendingBeneficiary' = to
  /\ UNCHANGED <<terms, now, tok, curveVars, beneficiary, delegateVars>>

AcceptByAnyone(by) ==   \* mutant: the caller need not be pending
  /\ beneficiary' = by
  /\ pendingBeneficiary' = NoOne
  /\ UNCHANGED <<terms, now, tok, curveVars, delegateVars>>

AcceptBeneficiary(by) ==
  /\ by = pendingBeneficiary
  /\ beneficiary' = by
  /\ pendingBeneficiary' = NoOne
  /\ UNCHANGED <<terms, now, tok, curveVars, delegateVars>>

-----------------------------------------------------------------------------
(* undelegate: the Delegatee contract returns all it holds, which may be    *)
(* more than was delegated, and destroys itself.                            *)
Undelegate(by, d) ==
  /\ terms.delegates
  /\ by = beneficiary
  /\ delegateContract[d]
  /\ delegateAmount[d] <= totalDelegated
  /\ tok' = Move(tok, d, Timelock, tok[d])
  /\ totalDelegated' = totalDelegated - delegateAmount[d]
  /\ delegateAmount' = [delegateAmount EXCEPT ![d] = 0]
  /\ delegateContract' = [delegateContract EXCEPT ![d] = FALSE]
  /\ UNCHANGED <<terms, now, curveVars, ownerVars>>

(* delegate: an existing delegation comes back first and is included; the   *)
(* amount is checked before that.                                           *)
DelegateOverwrites(by, d, amount) ==   \* mutant: no undelegate before
  /\ terms.delegates
  /\ by = beneficiary
  /\ amount <= tok[Timelock]
  /\ tok' = Move(tok, Timelock, d, amount)
  /\ totalDelegated' = totalDelegated + amount
  /\ delegateAmount' = [delegateAmount EXCEPT ![d] = amount]
  /\ delegateContract' = [delegateContract EXCEPT ![d] = TRUE]
  /\ UNCHANGED <<terms, now, curveVars, ownerVars>>

Delegate(by, d, amount) ==
  /\ terms.delegates
  /\ by = beneficiary
  /\ amount <= tok[Timelock]
  /\ delegateContract[d] => delegateAmount[d] <= totalDelegated
  /\ LET included == amount + delegateAmount[d]
         returned == IF delegateContract[d] THEN tok[d] ELSE 0
     IN /\ tok' = Move(Move(tok, d, Timelock, returned), Timelock, d, included)
        /\ totalDelegated' = totalDelegated + amount
        /\ delegateAmount' = [delegateAmount EXCEPT ![d] = included]
        /\ delegateContract' = [delegateContract EXCEPT ![d] = TRUE]
  /\ UNCHANGED <<terms, now, curveVars, ownerVars>>

(* A funder sends tokens to the timelock or to a Delegatee contract.        *)
Deposit(from, to, amount) ==
  /\ amount <= tok[from]
  /\ to \in Delegatees => delegateContract[to]
  /\ tok' = Move(tok, from, to, amount)
  /\ UNCHANGED <<terms, now, curveVars, ownerVars, delegateVars>>

Tick ==
  /\ now < MaxTime
  /\ now' = now + 1
  /\ UNCHANGED <<terms, tok, curveVars, ownerVars, delegateVars>>

BeneficiaryCall(by) ==
  \/ \E to \in People \cup {Timelock}, n \in 0 .. MaxAmount : Release(by, to, n)
  \/ \E to \in People \cup {Timelock} : ReleaseMax(by, to)
  \/ \E to \in People : SetPendingBeneficiary(by, to)
  \/ \E d \in Delegatees : Undelegate(by, d)
  \/ \E d \in Delegatees, n \in 0 .. MaxAmount : Delegate(by, d, n)

Next ==
  \/ \E by \in People : BeneficiaryCall(by) \/ AcceptBeneficiary(by)
  \/ Clawback
  \/ UnlockLiquidity
  \/ \E from \in Funders, to \in {Timelock} \cup Delegatees, n \in 1 .. MaxAmount :
       Deposit(from, to, n)
  \/ Tick

Spec == Init /\ [][Next]_vars

(* Time passes, and a beneficiary among these who can release does so.      *)
ReleaseFairness(beneficiaries) ==
  /\ WF_vars(Tick)
  /\ WF_vars(\E by \in beneficiaries : ReleaseMax(by, by))

-----------------------------------------------------------------------------
TypeOK ==
  /\ terms \in Contracts
  /\ now \in Nat
  /\ tok \in [Accounts -> Nat]
  /\ initialBalance \in Nat /\ lastBalance \in Nat
  /\ beneficiary \in People /\ pendingBeneficiary \in People \cup {NoOne}
  /\ delegateContract \in [Delegatees -> BOOLEAN]
  /\ delegateAmount \in [Delegatees -> Nat]
  /\ totalDelegated \in Nat
  /\ outflow \in Nat
  /\ clawed \in BOOLEAN

(* What the beneficiary took never exceeds what has vested, whatever        *)
(* arrived, was released, delegated or clawed back in between, and nothing  *)
(* is released before the cliff.                                            *)
VestedOnly ==
  /\ outflow <= ProportionAvailable(initialBalance, Elapsed)
  /\ ~Started \/ Elapsed < CliffSeconds => outflow = 0

(* Until it is clawed back or unlocked, the beneficiary can call releaseMax *)
(* at any time after the cliff: no subtraction of availableForRelease       *)
(* reverts.                                                                 *)
NeverLockedOut ==
  ~clawed /\ ~terms.unlock => AlreadyReleased >= 0 /\ (Started => Available >= 0)

(* clawback leaves the beneficiary with the vested share of all that was    *)
(* ever locked, however it was released before.                             *)
ClawbackIsFair ==
  [][~terms.unlock /\ ~clawed /\ clawed' /\ PassedCliff =>
       outflow' = ProportionAvailable(initialBalance', Elapsed)]_vars

(* Delegated tokens are where the timelock says they are.                   *)
DelegationsBacked ==
  /\ totalDelegated = MapThenSumSet(LAMBDA d : delegateAmount[d], Delegatees)
  /\ \A d \in Delegatees :
       /\ delegateAmount[d] <= tok[d]
       /\ ~delegateContract[d] => tok[d] = 0

(* Everything locked is released in the end, if nothing is delegated and no *)
(* more is sent.                                                            *)
EverythingReleased == []<>(TotalToken = 0 \/ totalDelegated # 0)
=============================================================================
