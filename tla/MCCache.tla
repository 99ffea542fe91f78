-------------------------------- MODULE MCCache --------------------------------
(* lib/cache.c's ring of three bytes with one reader and one writer.           *)
EXTENDS CavanCache
=============================================================================
