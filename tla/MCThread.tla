------------------------------- MODULE MCThread -------------------------------
(* lib/thread.c with two controlling threads and a stop loop of two passes.   *)
EXTENDS CavanThread
=============================================================================
