------------------------------ MODULE CavanTimer ------------------------------
(***************************************************************************)
(* The timer service of lib/timer.c: timers in a list sorted by deadline,  *)
(* run by a worker thread (TimedList). The worker's handler looks at the    *)
(* first timer, runs it when it is due, sleeps until it is, or suspends    *)
(* the worker when there is none.                                          *)
(*                                                                         *)
(* service->lock protects the list.  The handler lets go of it before it   *)
(* sleeps and while it runs a timer; cavan_timer_service_stop holds it for *)
(* the whole of cavan_thread_stop.                                         *)
(***************************************************************************)
EXTENDS TimedList

CONSTANTS
    Timers,
    NoTimer,      \* a NULL timer pointer
    Free,         \* service->lock is not held
    Delays        \* timeouts given to insert or returned by a timer's handler

ASSUME TimerAssumption == /\ NoTimer \notin Timers
                          /\ Free \notin Controllers
                          /\ Delays \subseteq Nat

VARIABLES
    slock,        \* a controller that keeps service->lock across its steps, or Free
    waiting,      \* service->timer_waiting
    delay,        \* that handler's local delay
    until,        \* the deadline of the worker's pthread_cond_timedwait
    relinked      \* history: a timer that was in the list was linked again

timerVars == <<now, link, time, slock, waiting, running, hpc, delay, until, calls, relinked>>
vars == <<threadVars, timerVars>>

TimerTypeOK ==
    /\ TypeOK
    /\ now \in 0..MaxTime
    /\ link \in Seq(Timers)
    /\ time \in [Timers -> 0..MaxTime]
    /\ slock \in Controllers \cup {Free}
    /\ waiting \in Timers \cup {NoTimer}
    /\ running \in Timers \cup {NoTimer}
    /\ hpc \in {"enter", "msleep", "relock", "run", "return"}
    /\ delay \in 0..MaxTime
    /\ until \in 0..(2 * MaxTime)
    /\ calls \in 0..MaxCalls
    /\ relinked \in BOOLEAN

\* cavan_timer_service_start up to its cavan_thread_start.
TimerInit ==
    /\ ThreadInit
    /\ wake_handker = "none"
    /\ now = 0
    /\ link = <<>>
    /\ time = [t \in Timers |-> 0]
    /\ slock = Free
    /\ waiting = NoTimer
    /\ running = NoTimer
    /\ hpc = "enter"
    /\ delay = 0
    /\ until = 0
    /\ calls = 0
    /\ relinked = FALSE

\* The clock advances on its own.
Tick ==
    /\ now < MaxTime
    /\ now' = now + 1
    /\ UNCHANGED <<link, time, slock, waiting, running, hpc, delay, until, calls,
                   relinked, threadVars>>

-----------------------------------------------------------------------------
\* A client's critical section of service->lock; the resume is part of it.
Client ==
    /\ slock = Free /\ ~destroyed /\ state # "NONE"
    /\ calls < MaxCalls
    /\ calls' = calls + 1
    /\ UNCHANGED <<now, slock, waiting, running, hpc, delay, until, relinked,
                   wake_handker, wpc, killed, cpc, tries, destroyed, raced, asked>>

cavan_timer_insert(t, d) ==
    /\ Client
    /\ now + d <= MaxTime
    /\ time' = [time EXCEPT ![t] = now + d]
    /\ link' = InsertSorted(Unlink(link, t), t, now + d)
    /\ Resume

cavan_timer_remove(t) ==
    /\ Client
    /\ link' = Unlink(link, t)
    /\ UNCHANGED time
    /\ Resume

-----------------------------------------------------------------------------
(* The worker's handler, cavan_timer_service_handler.                       *)

\* The list is empty: suspend, still under service->lock.
EnterEmpty ==
    /\ hpc = "enter" /\ slock = Free /\ link = <<>>
    /\ HandlerSuspend
    /\ hpc' = "return"
    /\ UNCHANGED <<now, link, time, slock, waiting, running, delay, until, calls, relinked>>

\* The first timer is in the future: remember it and unlock.
EnterWait ==
    /\ wpc = "handler" /\ hpc = "enter" /\ slock = Free /\ link # <<>>
    /\ time[First] > now
    /\ waiting' = First
    /\ delay' = time[First] - now
    /\ hpc' = "msleep"
    /\ UNCHANGED <<now, link, time, slock, running, until, calls, relinked, threadVars>>

\* The first timer is due: take it off the list, unlock and call its handler.
EnterRun ==
    /\ wpc = "handler" /\ hpc = "enter" /\ slock = Free /\ link # <<>>
    /\ time[First] <= now
    /\ link' = Tail(link)
    /\ running' = First
    /\ hpc' = "run"
    /\ UNCHANGED <<now, time, slock, waiting, delay, until, calls, relinked, threadVars>>

\* cavan_thread_msleep: the deadline is computed from the time it is by now; a
\* pending resume ends the sleep before it begins.
MSleepIgnoresPending ==
    /\ wpc = "handler" /\ hpc = "msleep"
    /\ state' = "SLEEP" /\ wpc' = "timedwait" /\ signalled' = FALSE
    /\ until' = now + delay
    /\ UNCHANGED <<pending, piped, wake_handker, killed, cpc, tries, destroyed, raced, asked,
                   now, link, time, slock, waiting, running, hpc, delay, calls, relinked>>

MSleep ==
    /\ hpc = "msleep"
    /\ SleepUntil
    /\ until' = now + delay
    /\ hpc' = IF pending THEN "relock" ELSE "msleep"
    /\ UNCHANGED <<now, link, time, slock, waiting, running, delay, calls, relinked>>

Wake ==
    /\ hpc = "msleep"
    /\ SleepReturn
    /\ hpc' = "relock"
    /\ UNCHANGED <<now, link, time, slock, waiting, running, delay, until, calls, relinked>>

\* After the sleep: lock, forget the timer, unlock.
Relock ==
    /\ wpc = "handler" /\ hpc = "relock" /\ slock = Free
    /\ waiting' = NoTimer
    /\ hpc' = "return"
    /\ UNCHANGED <<now, link, time, slock, running, delay, until, calls, relinked, threadVars>>

\* The timer's handler has returned 0: it is done.
RanOnce ==
    /\ wpc = "handler" /\ hpc = "run" /\ slock = Free
    /\ running' = NoTimer
    /\ hpc' = "return"
    /\ UNCHANGED <<now, link, time, slock, waiting, delay, until, calls, relinked, threadVars>>

\* The timer's handler has returned a delay: cavan_timer_insert_base, without
\* taking the timer off the list first.  If a client has inserted it meanwhile
\* its node is linked twice; what the list is then is not modelled any further.
RanAgain ==
    /\ wpc = "handler" /\ hpc = "run" /\ slock = Free
    /\ \E d \in Delays \ {0} :
          /\ now + d <= MaxTime
          /\ time' = [time EXCEPT ![running] = now + d]
          /\ IF running \in Range(link)
             THEN relinked' = TRUE /\ UNCHANGED link
             ELSE link' = InsertSorted(link, running, now + d) /\ UNCHANGED relinked
    /\ Resume
    /\ running' = NoTimer
    /\ hpc' = "return"
    /\ UNCHANGED <<now, slock, waiting, delay, until, calls,
                   wake_handker, wpc, killed, cpc, tries, destroyed, raced, asked>>

ReturnToLoop ==
    /\ hpc = "return"
    /\ HandlerReturn
    /\ hpc' = "enter"
    /\ UNCHANGED <<now, link, time, slock, waiting, running, delay, until, calls, relinked>>

Loop == (MainEntry \/ CondWaitReturn \/ SigHandler) /\ UNCHANGED timerVars

Handler == EnterEmpty \/ EnterWait \/ EnterRun \/ MSleep \/ Relock
           \/ RanOnce \/ RanAgain \/ ReturnToLoop

-----------------------------------------------------------------------------
(* Start and stop.                                                          *)

cavan_timer_service_start(c) == cavan_thread_start(c) /\ UNCHANGED timerVars

\* cavan_timer_service_stop takes service->lock, stops the thread under it...
cavan_timer_service_stop(c) ==
    /\ slock = Free /\ state # "NONE"
    /\ cavan_thread_stop(c)
    /\ slock' = c
    /\ UNCHANGED <<now, link, time, waiting, running, hpc, delay, until, calls, relinked>>

\* ... and then unlocks and destroys.
StopEnd(c) ==
    /\ slock = c
    /\ cavan_thread_deinit(c)
    /\ slock' = Free
    /\ UNCHANGED <<now, link, time, waiting, running, hpc, delay, until, calls, relinked>>

Manage(c) ==
    \/ cavan_timer_service_start(c)
    \/ cavan_timer_service_stop(c)
    \/ Stop(c) /\ UNCHANGED timerVars
    \/ StopEnd(c)

TimerNext ==
    \/ Tick
    \/ \E t \in Timers, d \in Delays : cavan_timer_insert(t, d)
    \/ \E t \in Timers : cavan_timer_remove(t)
    \/ Handler \/ Wake \/ Loop
    \/ \E c \in Controllers : Manage(c)

\* Time passes, a runnable worker runs, timers' handlers return, a signalled or
\* overdue wait ends and a service stop that was begun is carried on.
TimerFairness ==
    /\ WF_vars(Tick)
    /\ WF_vars(Handler)
    /\ WF_vars((signalled \/ now >= until \/ now = MaxTime) /\ Wake)
    /\ WF_vars(MainEntry /\ UNCHANGED timerVars)
    /\ WF_vars(signalled /\ CondWaitReturn /\ UNCHANGED timerVars)
    /\ WF_vars(SigHandler /\ UNCHANGED timerVars)
    /\ \A c \in Controllers : WF_vars(Stop(c) /\ UNCHANGED timerVars)
    /\ \A c \in Controllers : WF_vars(StopEnd(c))

TimerSafeSpec == TimerInit /\ [][TimerNext]_vars
TimerSpec == TimerSafeSpec /\ TimerFairness

-----------------------------------------------------------------------------
(* Properties.                                                              *)

Stopping == \E c \in Controllers : cpc[c] # "idle"

\* The list stays sorted by deadline, each timer in it once, through every insert,
\* re-insert, removal and periodic return, until the one way it can be corrupted.
SortedOnce ==
    relinked \/ \A i, j \in DOMAIN link :
                   i < j => link[i] # link[j] /\ time[link[i]] <= time[link[j]]

\* The worker never rests past the first timer.  When it sleeps, or is on its way
\* to, with no resume pending or signal sent, it sleeps for the timer that is first
\* now: an earlier one inserted after the handler let go of service->lock cuts the
\* sleep short.  When it is suspended there is no timer.
RestsForFirst ==
    /\ hpc = "msleep" /\ ~Stopping /\ ~relinked
       /\ ((wpc = "handler" /\ ~pending) \/ (wpc = "timedwait" /\ ~signalled))
           => link # <<>> /\ waiting = First
    /\ (wpc = "cond_wait" /\ state = "SUSPEND") => link = <<>>

\* A timer in the list is taken off it, run or removed, unless the service is
\* stopped: no sequence of inserts, early wake-ups and periodic returns strands it.
TimerFires ==
    \A t \in Timers :
        t \in Range(link) ~> (t \notin Range(link) \/ Stopping \/ relinked)

\* cavan_timer_service_stop ends although the worker may need the service->lock it
\* holds, and leaves no worker behind (the start-up window of StopIsFinal apart).
ServiceStops ==
    \A c \in Controllers :
        slock = c ~> (destroyed /\ (wpc \in Gone \/ raced))
=============================================================================
