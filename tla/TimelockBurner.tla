--------------------------- MODULE TimelockBurner ---------------------------
(***************************************************************************)
(* contracts/shutdown/timelocks: a timelock whose beneficiary hands it over *)
(* to a burner contract (FeiLinearTokenTimelockBurner for FEI,              *)
(* TribeTimelockedDelegatorBurner for TRIBE).  The burner has no owner:     *)
(* anybody makes it accept, undelegate, and pass on what has vested.  The   *)
(* timelock may be any of the directory: a burner takes its address.        *)
(***************************************************************************)
EXTENDS TokenTimelock

CONSTANTS
  Burner,   \* the burner contract
  Sink      \* where its tokens go: the treasury, or nowhere when FEI is burned

ASSUME BurnerAssumption ==
  /\ Burner \in People /\ Sink \in People /\ Burner # Sink
  /\ FirstBeneficiary \notin {Burner, Sink}

(* Accounts that decide what they call.                                     *)
KeyHolders == People \ {Burner, Sink}

BurnerAccepts == AcceptBeneficiary(Burner)

BurnerUndelegates(d) == Undelegate(Burner, d)

(* mutant: what was released to the burner before is not passed on          *)
PassOnReleased ==
  /\ Burner = beneficiary
  /\ PassedCliff
  /\ Available >= 0 /\ Available <= tok[Timelock]
  /\ tok' = Move(Move(tok, Timelock, Burner, Available), Burner, Sink, Available)
  /\ outflow' = outflow + Available
  /\ UNCHANGED <<terms, now, clawed, ownerVars, delegateVars>>
  /\ BalanceCheck

(* burnFeiHeld and sendTribeToTreaury: releaseMax to the burner, and all it *)
(* then holds to the sink.                                                  *)
PassOn ==
  /\ Burner = beneficiary
  /\ PassedCliff
  /\ Available >= 0 /\ Available <= tok[Timelock]
  /\ tok' = Move(Move(tok, Timelock, Burner, Available),
                 Burner, Sink, tok[Burner] + Available)
  /\ outflow' = outflow + Available
  /\ UNCHANGED <<terms, now, clawed, ownerVars, delegateVars>>
  /\ BalanceCheck

BurnerNext ==
  \/ \E by \in KeyHolders : BeneficiaryCall(by) \/ AcceptBeneficiary(by)
  \/ BurnerAccepts
  \/ \E d \in Delegatees : BurnerUndelegates(d)
  \/ PassOn
  \/ Clawback
  \/ UnlockLiquidity
  \/ \E from \in Funders, to \in {Timelock, Burner} \cup Delegatees, n \in 1 .. MaxAmount :
       Deposit(from, to, n)
  \/ Tick

(* The calls of the burner are open to everybody, so somebody makes them; a *)
(* key holder who can release does.                                         *)
BurnerFairness ==
  /\ ReleaseFairness(KeyHolders)
  /\ \A d \in Delegatees : WF_vars(BurnerUndelegates(d))
  /\ WF_vars(PassOn)

BurnerSpec     == Init /\ [][BurnerNext]_vars
FairBurnerSpec == BurnerSpec /\ BurnerFairness

-----------------------------------------------------------------------------
(* Once the burner has accepted, nobody else ever becomes the beneficiary,  *)
(* whatever was pending when it did.                                        *)
HandoverIsFinal == [][beneficiary = Burner => beneficiary' = Burner]_vars

(* From then on no key holder gains a token, delegated or vested: only the  *)
(* sink does, and the admin of a clawback.                                  *)
OnlyTheSinkGains ==
  [][beneficiary = Burner =>
       \A a \in KeyHolders \ {ClawbackAdmin} : tok'[a] <= tok[a]]_vars

(* And everything locked, delegated or sent to the burner reaches the sink. *)
InBurnersHands == tok[Timelock] + tok[Burner]
                  + MapThenSumSet(LAMBDA d : tok[d], Delegatees)

EverythingPassedOn == beneficiary = Burner ~> InBurnersHands = 0
=============================================================================
