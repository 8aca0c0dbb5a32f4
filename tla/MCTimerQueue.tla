---------------------------- MODULE MCTimerQueue ----------------------------
(* TimerQueue with one-shot timers and one that repeats every one and a    *)
(* half microseconds.                                                      *)
EXTENDS TimerQueue

CONSTANTS t1, t2, t3

OneShotAndRepeating == [t \in Timers |-> IF t = t3 THEN 3 ELSE 0]
=============================================================================
