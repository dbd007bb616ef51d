---------------------------- MODULE ERC20Dripper ----------------------------
(***************************************************************************)
(* contracts/pcv/utils/ERC20Dripper.sol with the Timed, CoreRef (pause) and *)
(* PCVDeposit code it inherits, and MerkleRedeemerDripper.sol, which only   *)
(* drips to a target that runs low.  The dripper releases amountToDrip of   *)
(* its token to the target, at most once per duration.                      *)
(***************************************************************************)
EXTENDS ERC20, Timed, DripSchedule

CONSTANTS
  Dripper,       \* address of the dripper
  Target,        \* target, the address dripped to
  Others,        \* other holders of the token
  InitialBal,    \* balances when the dripper is deployed
  MaxTime,       \* bound of the clock
  MaxAmount      \* bound of the amounts calls name

Accounts == {Dripper, Target} \cup Others

ASSUME DripperAssumption ==
  /\ Dripper # Target
  /\ {Dripper, Target} \cap Others = {}
  /\ Duration \in Nat \ {0}
  /\ AmountToDrip \in Nat \ {0}
  /\ InitialBal \in [Accounts -> Nat]
  /\ DeployTime \in Nat \ {0}
  /\ MaxTime \in Nat
  /\ MaxAmount \in Nat

VARIABLES
  now,        \* block.timestamp
  paused,     \* Pausable
  bal         \* token balance of every account

vars == <<now, startTime, paused, bal, drips>>

Init ==
  /\ now = DeployTime
  /\ startTime = DeployTime   \* the constructor calls _initTimed
  /\ paused = FALSE
  /\ bal = InitialBal
  /\ drips = 0

-----------------------------------------------------------------------------
TimeEndedEarly == RemainingTime(startTime, Duration, now) <= 1   \* mutant

TimeEnded == IsTimeEnded(startTime, Duration, now)

(* _initTimed: the period restarts now, periods missed are lost.            *)
InitTimed == startTime' = now

CanDripKeepsSome ==   \* mutant: strict comparison
  TimeEnded /\ ~paused /\ AmountToDrip < bal[Dripper]

(* drip: afterTime whenNotPaused, and the transfer must go through.         *)
CanDrip == TimeEnded /\ ~paused /\ AmountToDrip <= bal[Dripper]

Drip ==
  /\ CanDrip
  /\ InitTimed
  /\ bal' = Move(bal, Dripper, Target, AmountToDrip)
  /\ drips' = drips + 1
  /\ UNCHANGED <<now, paused>>

MerkleDripUnchecked == Drip   \* mutant: the balance of the target is not read

(* MerkleRedeemerDripper overrides drip with a check of the target first;   *)
(* module MerkleRedemption runs it.                                         *)
MerkleDrip == bal[Target] < AmountToDrip /\ Drip

(* withdraw and withdrawERC20 of the dripped token, for the PCV controller, *)
(* paused or not.                                                           *)
Withdraw(to, amount) ==
  /\ amount <= bal[Dripper]
  /\ bal' = Move(bal, Dripper, to, amount)
  /\ UNCHANGED <<now, startTime, paused, drips>>

(* pause and unpause, for guardian or governor; OpenZeppelin reverts when   *)
(* the contract already is in the state asked for.                          *)
Pause   == ~paused /\ paused' = TRUE  /\ UNCHANGED <<now, startTime, bal, drips>>
Unpause ==  paused /\ paused' = FALSE /\ UNCHANGED <<now, startTime, bal, drips>>

(* The target pays out, and anybody may send tokens to anybody.             *)
Transfer(from, to, amount) ==
  /\ amount <= bal[from]
  /\ bal' = Move(bal, from, to, amount)
  /\ UNCHANGED <<now, startTime, paused, drips>>

Tick == now < MaxTime /\ now' = now + 1 /\ UNCHANGED <<startTime, paused, bal, drips>>

Next ==
  \/ Drip
  \/ Pause
  \/ Unpause
  \/ \E to \in Accounts, n \in 1 .. MaxAmount : Withdraw(to, n)
  \/ \E from \in Accounts \ {Dripper}, to \in Accounts, n \in 1 .. MaxAmount :
       Transfer(from, to, n)
  \/ Tick

Spec == Init /\ [][Next]_vars

-----------------------------------------------------------------------------
(* The timer is a time of the past and no drip overdraws the dripper.       *)
TypeOK ==
  /\ now \in Nat
  /\ startTime \in Nat /\ DeployTime <= startTime /\ startTime <= now
  /\ paused \in BOOLEAN
  /\ bal \in [Accounts -> Nat]
  /\ drips \in Nat

(* Periods missed are lost: a drip starts a whole period from now, so that  *)
(* no second drip can follow it at once.                                    *)
NoCatchUp == [][drips' # drips => ~TimeEnded']_vars
=============================================================================
