---------------------------- MODULE DynamicService ----------------------------
(***************************************************************************)
(* The dynamic service of lib/service.c: a pool of daemon threads that     *)
(* accept and serve connections.  A daemon that finds every other one busy *)
(* starts a new one; a daemon that finds too many idle leaves.  An owner   *)
(* starts the service, joins it and destroys it; other threads stop it by  *)
(* name.  service->lock protects the counters; every action is one         *)
(* critical section of it, except that the last daemon to leave keeps it   *)
(* while it stops the epoll or keepalive worker.                           *)
(*                                                                         *)
(* What happens on a destroyed service is not modelled: all actions end.   *)
(***************************************************************************)
EXTENDS Integers, FiniteSets

CONSTANTS
    Daemons,      \* thread identities for daemons, reused
    Main,         \* the first daemon; the owner's own thread after a sync start
    Owner,        \* the thread that starts, joins and destroys the service
    Stoppers,     \* the threads that call cavan_dynamic_service_stop
    MinIdle,      \* service->min
    MaxCount,     \* service->max
    MaxWaits      \* rounds of stop's timed wait

ASSUME ServiceAssumption == /\ Main \in Daemons
                            /\ Owner \notin Stoppers
                            /\ IsFiniteSet(Daemons)
                            /\ MinIdle \in Nat \ {0}
                            /\ MaxCount \in Nat /\ MaxCount >= MinIdle
                            /\ MaxWaits \in Nat \ {0}

VARIABLES
    state,        \* service->state
    stopping,     \* service->stopping
    count,        \* service->count
    used,         \* service->used
    registered,   \* the service is in cavan_dynamic_services
    waiters,      \* the threads that wait on service->cond
    dpc,          \* where each daemon is; "last" holds service->lock
    kpc,          \* the epoll or keepalive worker, if the service has one
    opc,          \* where the owner is
    spc,          \* where each stopper is
    tries,        \* the round of each stopper's loop
    odd           \* history: the rare events the properties make exceptions of

vars == <<state, stopping, count, used, registered, waiters, dpc, kpc, opc, spc, tries, odd>>

DaemonPC == {"none", "created", "open", "run", "last", "finish"}
OwnerPC == {"idle", "handler", "poll", "waitstart", "started", "joinwait",
            "waitjoin", "joined", "failed", "destroyed"}

ServiceTypeOK ==
    /\ state \in {"RUNNING", "STOPPING", "STOPPED"}
    /\ stopping \in BOOLEAN
    /\ count \in 0..Cardinality(Daemons)
    /\ used \in 0..Cardinality(Daemons)
    /\ registered \in BOOLEAN
    /\ waiters \subseteq Stoppers \cup {Owner}
    /\ dpc \in [Daemons -> DaemonPC]
    /\ kpc \in {"none", "created", "run", "gone"}
    /\ opc \in OwnerPC
    /\ spc \in [Stoppers -> {"idle", "found", "wait", "unregister"}]
    /\ tries \in [Stoppers -> 0..MaxWaits]
    /\ odd \subseteq {"spawn failed", "burst", "late", "raced", "gave up", "cleared", "stolen"}

\* cavan_dynamic_service_create: the memset leaves state 0, which is RUNNING.
ServiceInit ==
    /\ state = "RUNNING"
    /\ stopping = FALSE
    /\ count = 0 /\ used = 0
    /\ registered = FALSE
    /\ waiters = {}
    /\ dpc = [d \in Daemons |-> "none"]
    /\ kpc = "none"
    /\ opc = "idle"
    /\ spc = [s \in Stoppers |-> "idle"]
    /\ tries = [s \in Stoppers |-> 0]
    /\ odd = {}

Created == {d \in Daemons : dpc[d] = "created"}
Alive == opc # "destroyed"
LockFree == \A d \in Daemons : dpc[d] \notin {"last", "finish"}
Locked == Alive /\ LockFree

-----------------------------------------------------------------------------
(* The daemons: cavan_dynamic_service_handler.                              *)

\* The end of the handler, reached with c daemons counted: the last one keeps the
\* lock until the worker is stopped.
Leave(d, c) ==
    /\ count' = c - 1
    /\ dpc' = [dpc EXCEPT ![d] = IF c = 1 THEN "last" ELSE "none"]

\* The while condition, tested under the lock with c daemons counted.
Turn(d, c) ==
    IF state = "RUNNING"
    THEN count' = c /\ dpc' = [dpc EXCEPT ![d] = "open"]
    ELSE Leave(d, c)

DaemonEnter(d) ==
    /\ Locked /\ dpc[d] = "created"
    /\ Turn(d, count + 1)
    /\ UNCHANGED <<state, stopping, used, registered, waiters, kpc, opc, spc, tries, odd>>

OpenFail(d) ==
    /\ Locked /\ dpc[d] = "open"
    /\ Turn(d, count)
    /\ UNCHANGED <<state, stopping, used, registered, waiters, kpc, opc, spc, tries, odd>>

\* pthread_create of another daemon, which counts itself only when it runs.
Free(d) == dpc[d] = "none" /\ ~(d = Main /\ opc = "handler")

SpawnAlways(d) ==
    \E e \in Daemons : /\ Free(e)
                       /\ dpc' = [dpc EXCEPT ![d] = "run", ![e] = "created"]
                       /\ odd' = IF Created # {} THEN odd \cup {"burst"} ELSE odd

Spawn(d) ==
    IF used + 1 < count \/ count >= MaxCount
    THEN dpc' = [dpc EXCEPT ![d] = "run"] /\ UNCHANGED odd
    ELSE \/ \E e \in Daemons :
              /\ Free(e)
              /\ dpc' = [dpc EXCEPT ![d] = "run", ![e] = "created"]
              /\ odd' = IF Created # {} THEN odd \cup {"burst"} ELSE odd
         \/ /\ dpc' = [dpc EXCEPT ![d] = "run"]
            /\ odd' = odd \cup {"spawn failed"}

\* open_connect has returned a connection, perhaps just before a stop closed the
\* listening socket.
OpenOk(d) ==
    /\ Locked /\ dpc[d] = "open"
    /\ used' = used + 1
    /\ Spawn(d)
    /\ UNCHANGED <<state, stopping, count, registered, waiters, kpc, opc, spc, tries>>

\* run and close_connect have returned.
RunEndEager(d) ==
    /\ Locked /\ dpc[d] = "run"
    /\ used' = used - 1
    /\ IF count - (used - 1) >= MinIdle THEN Leave(d, count) ELSE Turn(d, count)
    /\ UNCHANGED <<state, stopping, registered, waiters, kpc, opc, spc, tries, odd>>

RunEnd(d) ==
    /\ Locked /\ dpc[d] = "run"
    /\ used' = used - 1
    /\ IF count - (used - 1) > MinIdle THEN Leave(d, count) ELSE Turn(d, count)
    /\ UNCHANGED <<state, stopping, registered, waiters, kpc, opc, spc, tries, odd>>

\* cavan_thread_stop by the last daemon, under service->lock: the worker needs that
\* lock to leave its handler, so it usually takes the killing signal.  A worker that
\* has not reached its main loop outlives the stop (see CavanThread).
StopWorker(d) ==
    /\ Alive /\ dpc[d] = "last"
    /\ kpc' = IF kpc = "run" THEN "gone" ELSE kpc
    /\ odd' = IF kpc = "created" THEN odd \cup {"raced"} ELSE odd
    /\ dpc' = [dpc EXCEPT ![d] = "finish"]
    /\ UNCHANGED <<state, stopping, count, used, registered, waiters, opc, spc, tries>>

\* pthread_cond_signal wakes one of the threads that wait.
CondSignal ==
    \/ waiters = {} /\ UNCHANGED <<waiters, odd>>
    \/ \E w \in waiters :
          /\ waiters' = waiters \ {w}
          /\ odd' = IF w # Owner /\ Owner \in waiters THEN odd \cup {"stolen"} ELSE odd

LastLeavesSilently(d) ==
    /\ Alive /\ dpc[d] = "finish"
    /\ state' = "STOPPED"
    /\ dpc' = [dpc EXCEPT ![d] = "none"]
    /\ UNCHANGED <<stopping, count, used, registered, waiters, kpc, opc, spc, tries, odd>>

LastLeaves(d) ==
    /\ Alive /\ dpc[d] = "finish"
    /\ state' = "STOPPED"
    /\ CondSignal
    /\ dpc' = [dpc EXCEPT ![d] = "none"]
    /\ UNCHANGED <<stopping, count, used, registered, kpc, opc, spc, tries>>

\* The worker reaches its main loop; its turns change nothing of the service.
WorkerEnter ==
    /\ Alive /\ kpc = "created"
    /\ kpc' = "run"
    /\ UNCHANGED <<state, stopping, count, used, registered, waiters, dpc, opc, spc, tries, odd>>

Daemon(d) == DaemonEnter(d) \/ OpenFail(d) \/ OpenOk(d) \/ RunEnd(d)
             \/ StopWorker(d) \/ LastLeaves(d)

-----------------------------------------------------------------------------
(* The owner: start, join and destroy.                                      *)

\* cavan_dynamic_service_start that goes through: with sync the owner becomes the
\* first daemon; without, it creates it and polls until it has counted itself.
StartWith(sync, worker) ==
    /\ opc = "idle"
    /\ state' = "RUNNING" /\ stopping' = FALSE /\ count' = 0 /\ used' = 0
    /\ kpc' = IF worker THEN "created" ELSE "none"
    /\ dpc' = [dpc EXCEPT ![Main] = "created"]
    /\ opc' = IF sync THEN "handler" ELSE "poll"
    /\ registered' = sync
    /\ UNCHANGED <<waiters, spc, tries, odd>>

\* service->start fails and leaves RUNNING, or a later step fails and is undone.
StartFail ==
    /\ opc = "idle"
    /\ state' \in {"RUNNING", "STOPPED"}
    /\ opc' = "failed"
    /\ UNCHANGED <<stopping, count, used, registered, waiters, dpc, kpc, spc, tries, odd>>

\* Two seconds of polling, or less when a daemon is there.
PollEnd ==
    /\ LockFree /\ opc = "poll"
    /\ opc' = "started" /\ registered' = TRUE
    /\ UNCHANGED <<state, stopping, count, used, waiters, dpc, kpc, spc, tries, odd>>

\* A sync start: the handler has returned on the owner's thread.
HandlerReturned ==
    /\ opc = "handler" /\ dpc[Main] = "none"
    /\ opc' = "waitstart"
    /\ UNCHANGED <<state, stopping, count, used, registered, waiters, dpc, kpc, spc, tries, odd>>

\* cavan_dynamic_service_wait_stop_complete: sets STOPPED as long as a stop is in
\* progress, for at most 20 rounds of 100 ms; then unregister.
WaitStopRound ==
    /\ LockFree /\ opc \in {"waitstart", "waitjoin"} /\ stopping
    /\ state' = "STOPPED"
    /\ UNCHANGED <<stopping, count, used, registered, waiters, dpc, kpc, opc, spc, tries, odd>>

WaitStopSkip ==
    /\ LockFree /\ opc \in {"waitstart", "waitjoin"}
    /\ opc' = IF opc = "waitstart" THEN "started" ELSE "joined"
    /\ registered' = FALSE
    /\ UNCHANGED <<state, stopping, count, used, waiters, dpc, kpc, spc, tries, odd>>

WaitStopEnd ==
    /\ LockFree /\ opc \in {"waitstart", "waitjoin"}
    /\ odd' = IF stopping THEN odd \cup {"gave up"} ELSE odd
    /\ stopping => state = "STOPPED"
    /\ opc' = IF opc = "waitstart" THEN "started" ELSE "joined"
    /\ registered' = FALSE
    /\ UNCHANGED <<state, stopping, count, used, waiters, dpc, kpc, spc, tries>>

\* cavan_dynamic_service_join: wait while a daemon is counted.
JoinWait ==
    /\ LockFree
    /\ opc = "started" \/ (opc = "joinwait" /\ Owner \notin waiters)
    /\ count # 0
    /\ waiters' = waiters \cup {Owner}
    /\ opc' = "joinwait"
    /\ UNCHANGED <<state, stopping, count, used, registered, dpc, kpc, spc, tries, odd>>

JoinSpurious ==
    /\ opc = "joinwait" /\ Owner \in waiters
    /\ waiters' = waiters \ {Owner}
    /\ UNCHANGED <<state, stopping, count, used, registered, dpc, kpc, opc, spc, tries, odd>>

JoinDone ==
    /\ LockFree
    /\ opc = "started" \/ (opc = "joinwait" /\ Owner \notin waiters)
    /\ count = 0
    /\ state' = "STOPPED"
    /\ opc' = "waitjoin"
    /\ odd' = IF Created # {} THEN odd \cup {"late"} ELSE odd
    /\ UNCHANGED <<stopping, count, used, registered, waiters, dpc, kpc, spc, tries>>

cavan_dynamic_service_destroy ==
    /\ opc \in {"joined", "failed"}
    /\ opc' = "destroyed"
    /\ UNCHANGED <<state, stopping, count, used, registered, waiters, dpc, kpc, spc, tries, odd>>

OwnerStep == PollEnd \/ HandlerReturned \/ WaitStopEnd \/ JoinWait \/ JoinDone
             \/ cavan_dynamic_service_destroy

-----------------------------------------------------------------------------
(* cavan_dynamic_service_stop_by_name.                                      *)

Find(s) ==
    /\ Alive /\ registered /\ spc[s] = "idle"
    /\ spc' = [spc EXCEPT ![s] = "found"]
    /\ UNCHANGED <<state, stopping, count, used, registered, waiters, dpc, kpc, opc, tries, odd>>

Inside == {s \in Stoppers : spc[s] = "wait"}

\* The end of cavan_dynamic_service_stop's critical section.
StopEnd(s) ==
    /\ stopping' = FALSE
    /\ waiters' = waiters \ {s}
    /\ spc' = [spc EXCEPT ![s] = "unregister"]
    /\ odd' = IF Inside \ {s} # {} THEN odd \cup {"cleared"} ELSE odd

StopWait(s, n) ==
    /\ tries' = [tries EXCEPT ![s] = n]
    /\ waiters' = waiters \cup {s}
    /\ spc' = [spc EXCEPT ![s] = "wait"]
    /\ UNCHANGED odd

\* A service that is not RUNNING any more is being stopped by somebody else.
cavan_dynamic_service_stop(s) ==
    /\ Locked /\ spc[s] = "found"
    /\ state' = IF state = "RUNNING" THEN "STOPPING" ELSE state
    /\ IF state = "RUNNING" /\ count # 0 THEN StopWait(s, 1) /\ stopping' = TRUE
                                         ELSE StopEnd(s) /\ UNCHANGED tries
    /\ UNCHANGED <<count, used, registered, dpc, kpc, opc>>

\* pthread_cond_timedwait returns: signalled, after 2 s or spuriously.
StopRound(s) ==
    /\ Locked /\ spc[s] = "wait"
    /\ IF state = "STOPPED" \/ tries[s] = MaxWaits \/ count = 0
       THEN StopEnd(s) /\ UNCHANGED tries
       ELSE StopWait(s, tries[s] + 1) /\ UNCHANGED stopping
    /\ UNCHANGED <<state, count, used, registered, dpc, kpc, opc>>

Unregister(s) ==
    /\ Alive /\ spc[s] = "unregister"
    /\ registered' = FALSE
    /\ spc' = [spc EXCEPT ![s] = "idle"]
    /\ UNCHANGED <<state, stopping, count, used, waiters, dpc, kpc, opc, tries, odd>>

Stopper(s) == cavan_dynamic_service_stop(s) \/ StopRound(s) \/ Unregister(s)

-----------------------------------------------------------------------------
ServiceNext ==
    \/ \E d \in Daemons : Daemon(d)
    \/ WorkerEnter
    \/ \E sync, worker \in BOOLEAN : StartWith(sync, worker)
    \/ StartFail
    \/ OwnerStep
    \/ WaitStopRound
    \/ JoinSpurious
    \/ \E s \in Stoppers : Find(s) \/ Stopper(s)

\* Threads run and timed waits end.  A service that is not RUNNING has closed its
\* listening socket, so open_connect returns; connections end.
ServiceFairness ==
    /\ \A d \in Daemons : WF_vars(DaemonEnter(d)) /\ WF_vars(StopWorker(d))
                          /\ WF_vars(LastLeaves(d)) /\ WF_vars(RunEnd(d))
                          /\ WF_vars(state # "RUNNING" /\ OpenFail(d))
    /\ WF_vars(OwnerStep)
    /\ \A s \in Stoppers : WF_vars(Stopper(s))

ServiceSafeSpec == ServiceInit /\ [][ServiceNext]_vars
ServiceSpec == ServiceSafeSpec /\ ServiceFairness

-----------------------------------------------------------------------------
(* Properties.                                                              *)

\* A running service that has started always has a daemon that accepts or is about
\* to, unless max are there or a pthread_create failed: shrinking never takes the
\* last acceptor away and growing never forgets one.
AcceptorAvailable ==
    state = "RUNNING" /\ opc \in {"handler", "poll", "waitstart", "started", "joinwait"} =>
        \/ used < count
        \/ Created # {}
        \/ count >= MaxCount
        \/ "spawn failed" \in odd

\* There are never more than service->max daemons, unless one was started while
\* another had not counted itself yet.
DaemonsBounded == count + Cardinality(Created) <= MaxCount \/ "burst" \in odd

\* When join has returned, and so when the service is destroyed, no daemon is in
\* its handler, the worker is gone and no stop is inside its wait.  The exceptions
\* are a thread that was created and had not run when join looked, a
\* wait_stop_complete that gave up, and a second stop that cleared the first one's
\* service->stopping.
JoinedQuiet ==
    opc \in {"joined", "destroyed"} =>
        /\ "late" \in odd \/ \A d \in Daemons : dpc[d] = "none"
        /\ kpc \in {"none", "gone"} \/ odd \cap {"late", "raced"} # {}
        /\ Inside = {} \/ odd \cap {"gave up", "cleared"} # {}

\* Once a stop has begun the owner gets out of start and join and destroys the
\* service, unless its signal was taken by a stopper.
StoppedIsDestroyed ==
    (state # "RUNNING" /\ opc \in {"handler", "started", "joinwait"})
        ~> (opc = "destroyed" \/ "stolen" \in odd)
=============================================================================
