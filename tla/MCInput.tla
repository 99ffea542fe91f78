------------------------------- MODULE MCInput -------------------------------
(* A chip with one interrupt-driven and one polled device, a user task and the   *)
(* task that removes the driver.                                                 *)
EXTENDS InputChip
=============================================================================
