---------------------------- MODULE MCTimerThread ----------------------------
(***************************************************************************)
(* Instances of TimerThread for TLC.  The first day ends within the clock, *)
(* so that the timer thread runs with the 24-hour entry and without it,    *)
(* and one of the delays is longer than what a LONG can hold.              *)
(***************************************************************************)
EXTENDS TimerThread
=============================================================================
