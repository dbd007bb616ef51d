--------------------------- MODULE RedemptionPace ---------------------------
(***************************************************************************)
(* The pace TIP-121 promises for the FEI of the redemption, on the funds of *)
(* the redeemer and the schedule of the dripper that refills it: the margin *)
(* of safety against a wrong Merkle root or exchange rate.                  *)
(***************************************************************************)
EXTENDS RedemptionFunds, DripSchedule, FiniteSetsExt

VARIABLES
  brought,   \* history: FEI brought to the users and the redeemer otherwise
             \* than by a drip, less what they passed on
  sent       \* history: FEI sent to the redeemer since the last drip

Paid == MapThenSumSet(LAMBDA u : fei[u], Users)

(* The pace at which FEI can leave, whatever the users do: what was there   *)
(* at first and one amount per period passed, apart from FEI that somebody  *)
(* else or a withdrawal from the dripper gave them.  FEI they pass on still *)
(* counts as theirs.                                                        *)
PacedRelease ==
  Paid - brought <= InitialFei[Redeemer]
                      + AmountToDrip * ((startTime - DeployTime) \div Duration)

(* The drips do not make the redeemer hold two amounts: what it holds       *)
(* beyond them was there at first and no drip followed, or was sent to it   *)
(* after the last drip, by a user who gave FEI back, by somebody else or by *)
(* a withdrawal from the dripper that names it.  What came before a drip is *)
(* in the balance the drip reads, so that it does not add up.               *)
LittleAtRisk ==
  fei[Redeemer] <=
    sent + (IF drips = 0 THEN InitialFei[Redeemer] ELSE 2 * AmountToDrip - 1)
=============================================================================
