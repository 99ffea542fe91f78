------------------------------ MODULE MCService ------------------------------
(* lib/service.c with a pool of one to two daemons that a burst can outgrow.  *)
EXTENDS DynamicService
=============================================================================
