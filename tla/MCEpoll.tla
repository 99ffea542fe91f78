------------------------------- MODULE MCEpoll -------------------------------
(* Two clients and a pool that grows from nothing to two daemons, and once to    *)
(* three when a burst comes before the new daemons are counted.                  *)
EXTENDS EpollService, TLC

\* Clients and daemons differ only in name.
Symmetric == Permutations(Clients) \cup Permutations(Daemons)
=============================================================================
