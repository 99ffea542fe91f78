------------------------------ MODULE MCDataQueue ------------------------------
(* lib/queue.c's data queue: two producers with two items each share a pool of *)
(* one node and one malloc'ed node, one thread starts, stops and destroys it.  *)
EXTENDS CavanDataQueue
=============================================================================
