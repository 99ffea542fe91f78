-------------------------------- MODULE MCTimer --------------------------------
(* lib/timer.c with two timers, three client calls and a clock of two ticks.   *)
EXTENDS CavanTimer
=============================================================================
