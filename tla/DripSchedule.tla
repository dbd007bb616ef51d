---------------------------- MODULE DripSchedule ----------------------------
(***************************************************************************)
(* The schedule a dripper promises: when it was deployed, the period and    *)
(* the amount of its drips, and how many there may have been by now.        *)
(***************************************************************************)
EXTENDS Integers

CONSTANTS
  Duration,      \* duration of the timer, constructor argument _frequency
  AmountToDrip,  \* amountToDrip
  DeployTime     \* timestamp of the deployment

VARIABLES
  startTime,  \* start of the running period, 0 before the first
  drips       \* history: number of drips so far

(* Release schedule: k drips take at least k periods from the deployment,   *)
(* however late, paused, refunded or withdrawn the dripper was in between.  *)
RateLimit == drips * Duration <= startTime - DeployTime
=============================================================================
