------------------------------- MODULE Timed -------------------------------
(***************************************************************************)
(* contracts/utils/Timed.sol: a period of a fixed duration that starts when *)
(* the contract initialises it.  A start of 0 means that no period has      *)
(* started yet.                                                             *)
(***************************************************************************)
EXTENDS Integers

IsTimeStarted(start) == start # 0

(* timeSinceStart: the time that passed, at most the duration.              *)
TimeSinceStart(start, duration, time) ==
  IF ~IsTimeStarted(start) THEN 0
  ELSE IF time - start > duration THEN duration ELSE time - start

RemainingTime(start, duration, time) ==
  duration - TimeSinceStart(start, duration, time)

(* isTimeEnded, the guard of afterTime.                                     *)
IsTimeEnded(start, duration, time) == RemainingTime(start, duration, time) = 0
=============================================================================
