---------------------------- MODULE MCTimerQueue ----------------------------
(***************************************************************************)
(* TimerQueue for TLC: a timer that runs once, one that repeats, and one   *)
(* that repeats with an interval of less than a second.                    *)
(***************************************************************************)
EXTENDS TimerQueue, TLC

CONSTANTS once, every, often

MCTimers == {once, every, often}

MCInterval == once :> 2 @@ every :> 4 @@ often :> 1

MCSteps == {-3, 3}
=============================================================================
