------------------------------ MODULE TimedList ------------------------------
(***************************************************************************)
(* What lib/timer.c and lib/alarm.c have in common: a worker (CavanThread) *)
(* that serves a double_link list of nodes sorted by time, and a clock.    *)
(***************************************************************************)
EXTENDS CavanThread, Sequences, SequencesExt

CONSTANTS
    MaxTime,      \* bound: the clock stops here and no deadline lies beyond
    MaxCalls      \* bound: calls of the service's clients

ASSUME BoundAssumption == MaxTime \in Nat \ {0} /\ MaxCalls \in Nat

VARIABLES
    now,          \* the clock
    link,         \* the service's list, first node first
    time,         \* the time of each node
    hpc,          \* where the worker is in its handler
    running,      \* the node whose handler runs
    calls         \* history: calls made by the clients

First == Head(link)

\* double_link_remove; a node that is not linked is linked to itself.
Unlink(s, n) ==
    LET places == {i \in DOMAIN s : s[i] = n}
    IN  IF places = {} THEN s ELSE RemoveAt(s, Min(places))

\* Fault: double_link_append.
InsertAppend(s, n, t) == Append(s, n)

\* double_link_cond_insert_append with a matcher for later nodes: before the first
\* node whose time is later than t, or at the end.
InsertSorted(s, n, t) ==
    LET later == {i \in DOMAIN s : time[s[i]] > t}
    IN  InsertAt(s, IF later = {} THEN Len(s) + 1 ELSE Min(later), n)
=============================================================================
