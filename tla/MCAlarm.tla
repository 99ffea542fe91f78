------------------------------- MODULE MCAlarm -------------------------------
(* Two daemons of the server, two alarms and a clock of two ticks.              *)
EXTENDS CavanAlarm
=============================================================================
