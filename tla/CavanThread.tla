----------------------------- MODULE CavanThread -----------------------------
(***************************************************************************)
(* The worker thread of lib/thread.c: one pthread that runs a handler over *)
(* and over, and the calls by which other threads ("controllers") start,   *)
(* suspend, resume and stop it.                                            *)
(*                                                                         *)
(* thread->lock protects state and pending.  A critical section that never *)
(* releases the lock is one action; the places where the code lets go of   *)
(* it (the handler call, pthread_cond_wait, pthread_cond_timedwait, the    *)
(* epoll wait, the msleep inside cavan_thread_stop) separate actions.      *)
(***************************************************************************)
EXTENDS Naturals

CONSTANTS
    Controllers,  \* the threads that call the cavan_thread_* functions
    MaxTries,     \* the value of i that ends the loop of cavan_thread_stop (50)
    PipeCap       \* events the wake-up pipe holds before write() says EAGAIN

ASSUME ThreadAssumption == /\ MaxTries \in Nat \ {0}
                           /\ PipeCap \in Nat \ {0}

VARIABLES
    state,        \* thread->state
    pending,      \* thread->pending: a resume not yet consumed by the worker
    piped,        \* events in thread->pipefd
    wake_handker, \* what thread->wake_handker does, fixed by cavan_thread_init
    wpc,          \* where the worker is
    signalled,    \* the worker's current wait on thread->cond has been signalled
    killed,       \* pthread_kill(thread->id, SIGUSR1) has been called
    cpc,          \* where each controller is in cavan_thread_stop
    tries,        \* each controller's loop counter i in cavan_thread_stop
    destroyed,    \* cavan_thread_deinit has destroyed lock, cond and pipe
    raced,        \* history: a stop ran between pthread_create and the main loop
    asked         \* history: another thread called cavan_thread_should_stop

threadVars == <<state, pending, piped, wake_handker, wpc, signalled, killed,
                cpc, tries, destroyed, raced, asked>>

States == {"NONE", "IDLE", "RUNNING", "SLEEP", "SUSPEND", "WAIT_EVENT",
           "STOPPPING", "STOPPED"}

\* "cond_wait" is the wait of the SUSPEND case, "timedwait" that of
\* cavan_thread_sleep_until, "epoll_wait" that of cavan_thread_wait_event.
Waits     == {"cond_wait", "timedwait"}
Gone      == {"none", "exited", "killed"}
WorkerPCs == Gone \cup Waits \cup {"created", "handler", "epoll_wait"}

TypeOK ==
    /\ state \in States
    /\ pending \in BOOLEAN
    /\ piped \in 0..PipeCap
    /\ wake_handker \in {"none", "send_event"}
    /\ wpc \in WorkerPCs
    /\ signalled \in BOOLEAN
    /\ killed \in BOOLEAN
    /\ cpc \in [Controllers -> {"idle", "stop", "wake", "stopped"}]
    /\ tries \in [Controllers -> 1..MaxTries]
    /\ destroyed \in BOOLEAN
    /\ raced \in BOOLEAN
    /\ asked \in BOOLEAN

\* cavan_thread_init.  pending is not initialised there: main_loop does it.
ThreadInit ==
    /\ state = "NONE"
    /\ pending \in BOOLEAN
    /\ piped = 0
    /\ wake_handker \in {"none", "send_event"}
    /\ wpc = "none"
    /\ signalled = FALSE
    /\ killed = FALSE
    /\ cpc = [c \in Controllers |-> "idle"]
    /\ tries = [c \in Controllers |-> 1]
    /\ destroyed = FALSE
    /\ raced = FALSE
    /\ asked = FALSE

-----------------------------------------------------------------------------
\* cavan_thread_send_event: the pipe is O_NONBLOCK, a write to a full one fails.
SendEvent(n) == IF n < PipeCap THEN n + 1 ELSE n

\* thread->wake_handker: cavan_thread_wake_handler_none or _send_event.
WakeHandler(n) == IF wake_handker = "send_event" THEN SendEvent(n) ELSE n

\* pthread_cond_signal and _broadcast: only the worker ever waits on the cond.
CondSignal(s) == s \/ wpc \in Waits

-----------------------------------------------------------------------------
(* The controllers' calls.                                                  *)

CanCall(c) == /\ cpc[c] \in {"idle", "stopped"}
              /\ ~destroyed

\* A pthread_create that fails, or a start of a started thread, changes nothing.
cavan_thread_start(c) ==
    /\ CanCall(c)
    /\ state = "NONE"
    /\ state' = "IDLE"
    /\ wpc' = "created"
    /\ UNCHANGED <<pending, piped, wake_handker, signalled, killed, cpc, tries,
                   destroyed, raced, asked>>

Suspended(s) == IF s \in {"WAIT_EVENT", "RUNNING", "SLEEP"} THEN "SUSPEND" ELSE s

cavan_thread_suspend(c) ==
    /\ CanCall(c)
    /\ state' = Suspended(state)
    /\ UNCHANGED <<pending, piped, wake_handker, wpc, signalled, killed, cpc,
                   tries, destroyed, raced, asked>>

\* The body of cavan_thread_resume, whoever calls it.
ResumeNoSignal ==
    /\ pending' = TRUE
    /\ IF state \in {"WAIT_EVENT", "SUSPEND", "SLEEP"} THEN state' = "RUNNING"
                                                        ELSE state' = state
    /\ signalled' = signalled
    /\ piped' = IF state \in {"WAIT_EVENT", "SUSPEND", "SLEEP", "RUNNING"}
                THEN WakeHandler(IF state = "WAIT_EVENT" THEN SendEvent(piped)
                                                         ELSE piped)
                ELSE piped

ResumeNoWakeHandler ==
    /\ pending' = TRUE
    /\ IF state \in {"WAIT_EVENT", "SUSPEND", "SLEEP"}
       THEN /\ state' = "RUNNING"
            /\ signalled' = CondSignal(signalled)
       ELSE UNCHANGED <<state, signalled>>
    /\ piped' = IF state = "WAIT_EVENT" THEN SendEvent(piped) ELSE piped

Resume ==
    /\ pending' = TRUE
    /\ IF state \in {"WAIT_EVENT", "SUSPEND", "SLEEP"}
       THEN /\ state' = "RUNNING"
            /\ signalled' = CondSignal(signalled)
       ELSE UNCHANGED <<state, signalled>>
    /\ piped' = IF state \in {"WAIT_EVENT", "SUSPEND", "SLEEP", "RUNNING"}
                THEN WakeHandler(IF state = "WAIT_EVENT" THEN SendEvent(piped)
                                                         ELSE piped)
                ELSE piped

cavan_thread_resume(c) ==
    /\ CanCall(c)
    /\ Resume
    /\ UNCHANGED <<wake_handker, wpc, killed, cpc, tries, destroyed, raced, asked>>

\* cavan_thread_wakeup and cavan_thread_send_event take no lock.
cavan_thread_wakeup(c) ==
    /\ CanCall(c)
    /\ piped' = WakeHandler(piped)
    /\ UNCHANGED <<state, pending, wake_handker, wpc, signalled, killed, cpc,
                   tries, destroyed, raced, asked>>

\* cavan_thread_should_stop by another thread (cavan_event_should_stop): it
\* sets the state and signals nobody.  Its callers have started the thread.
cavan_thread_should_stop(c) ==
    /\ CanCall(c)
    /\ state # "NONE"
    /\ state' = "STOPPPING"
    /\ asked' = TRUE
    /\ UNCHANGED <<pending, piped, wake_handker, wpc, signalled, killed, cpc,
                   tries, destroyed, raced>>

cavan_thread_stop(c) ==
    /\ CanCall(c)
    /\ cpc' = [cpc EXCEPT ![c] = "stop"]
    /\ tries' = [tries EXCEPT ![c] = 1]
    /\ UNCHANGED <<state, pending, piped, wake_handker, wpc, signalled, killed,
                   destroyed, raced, asked>>

\* One pass of stop's loop under the lock: the switch, then the broadcast.
StopAsk(c) ==
    /\ cpc[c] = "stop"
    /\ tries[c] < MaxTries
    /\ state \in {"STOPPPING", "WAIT_EVENT", "SLEEP", "SUSPEND", "RUNNING"}
    /\ state' = "STOPPPING"
    /\ piped' = IF state = "WAIT_EVENT" THEN SendEvent(piped) ELSE piped
    /\ signalled' = CondSignal(signalled)
    /\ cpc' = [cpc EXCEPT ![c] = "wake"]
    /\ UNCHANGED <<pending, wake_handker, wpc, killed, tries, destroyed, raced, asked>>

\* The default case of that switch: NONE, IDLE or STOPPED end the call.
StopDone(c) ==
    /\ cpc[c] = "stop"
    /\ tries[c] < MaxTries
    /\ state \in {"NONE", "IDLE", "STOPPED"}
    /\ state' = "STOPPED"
    /\ raced' = (raced \/ state = "IDLE")
    /\ cpc' = [cpc EXCEPT ![c] = "stopped"]
    /\ UNCHANGED <<pending, piped, wake_handker, wpc, signalled, killed, tries,
                   destroyed, asked>>

\* After the unlock: the wake handler, msleep(i), and the lock again.
StopWakeForever(c) ==
    /\ cpc[c] = "wake"
    /\ piped' = WakeHandler(piped)
    /\ cpc' = [cpc EXCEPT ![c] = "stop"]
    /\ UNCHANGED <<state, pending, wake_handker, wpc, signalled, killed, tries,
                   destroyed, raced, asked>>

StopWake(c) ==
    /\ cpc[c] = "wake"
    /\ piped' = WakeHandler(piped)
    /\ tries' = [tries EXCEPT ![c] = tries[c] + 1]
    /\ cpc' = [cpc EXCEPT ![c] = "stop"]
    /\ UNCHANGED <<state, pending, wake_handker, wpc, signalled, killed,
                   destroyed, raced, asked>>

\* The loop has run out: kill the worker unless it has stopped by itself.
StopNoKill(c) ==
    /\ cpc[c] = "stop"
    /\ tries[c] = MaxTries
    /\ state' = "STOPPED"
    /\ cpc' = [cpc EXCEPT ![c] = "stopped"]
    /\ UNCHANGED <<pending, piped, wake_handker, wpc, signalled, killed, tries,
                   destroyed, raced, asked>>

StopKill(c) ==
    /\ cpc[c] = "stop"
    /\ tries[c] = MaxTries
    /\ killed' = (killed \/ state # "STOPPED")
    /\ state' = "STOPPED"
    /\ cpc' = [cpc EXCEPT ![c] = "stopped"]
    /\ UNCHANGED <<pending, piped, wake_handker, wpc, signalled, tries,
                   destroyed, raced, asked>>

\* cavan_thread_deinit: its callers have stopped the thread, and no other
\* thread is inside a call on it.
cavan_thread_deinit(c) ==
    /\ CanCall(c)
    /\ cpc[c] = "stopped"
    /\ \A d \in Controllers : cpc[d] \in {"idle", "stopped"}
    /\ destroyed' = TRUE
    /\ UNCHANGED <<state, pending, piped, wake_handker, wpc, signalled, killed,
                   cpc, tries, raced, asked>>

-----------------------------------------------------------------------------
(* The worker: cavan_thread_main_loop and what a handler calls on itself.    *)

MainEntry ==
    /\ wpc = "created"
    /\ pending' = FALSE
    /\ state' = "RUNNING"
    /\ wpc' = "handler"
    /\ UNCHANGED <<piped, wake_handker, signalled, killed, cpc, tries, destroyed,
                   raced, asked>>

\* The switch of the main loop, with the lock held, up to the next unlock; p is
\* thread->pending as the switch finds it.
SwitchDropsPending(p) ==
    \/ /\ state \in {"RUNNING", "SLEEP", "WAIT_EVENT"}
       /\ state' = "RUNNING" /\ pending' = p /\ wpc' = "handler"
       /\ UNCHANGED signalled
    \/ /\ state = "SUSPEND"
       /\ pending' = FALSE /\ wpc' = "cond_wait" /\ signalled' = FALSE
       /\ UNCHANGED state
    \/ /\ state \in {"STOPPPING", "STOPPED", "NONE", "IDLE"}
       /\ state' = "STOPPED" /\ pending' = p /\ wpc' = "exited"
       /\ UNCHANGED signalled

Switch(p) ==
    \/ /\ state \in {"RUNNING", "SLEEP", "WAIT_EVENT"}
       /\ state' = "RUNNING" /\ pending' = p /\ wpc' = "handler"
       /\ UNCHANGED signalled
    \/ /\ state = "SUSPEND" /\ p
       /\ state' = "RUNNING" /\ pending' = FALSE /\ wpc' = "handler"
       /\ UNCHANGED signalled
    \/ /\ state = "SUSPEND" /\ ~p
       /\ pending' = p /\ wpc' = "cond_wait" /\ signalled' = FALSE
       /\ UNCHANGED state
    \/ /\ state \in {"STOPPPING", "STOPPED", "NONE", "IDLE"}
       /\ state' = "STOPPED" /\ pending' = p /\ wpc' = "exited"
       /\ UNCHANGED signalled

\* The handler has returned ret >= 0.
HandlerReturn ==
    /\ wpc = "handler"
    /\ Switch(pending)
    /\ UNCHANGED <<piped, wake_handker, killed, cpc, tries, destroyed, raced, asked>>

\* The handler has returned ret < 0: out_thread_exit.
HandlerFail ==
    /\ wpc = "handler"
    /\ state' = "STOPPED"
    /\ wpc' = "exited"
    /\ UNCHANGED <<pending, piped, wake_handker, signalled, killed, cpc, tries,
                   destroyed, raced, asked>>

\* pthread_cond_wait returns, signalled or spuriously: the loop around it waits
\* again while the state is SUSPEND.
CondWaitReturn ==
    /\ wpc = "cond_wait"
    /\ \/ /\ state = "SUSPEND"
          /\ signalled' = FALSE
          /\ UNCHANGED <<state, pending, wpc>>
       \/ /\ state # "SUSPEND"
          /\ Switch(FALSE)
    /\ UNCHANGED <<piped, wake_handker, killed, cpc, tries, destroyed, raced, asked>>

\* The handler suspends its own thread.
HandlerSuspend ==
    /\ wpc = "handler"
    /\ state' = Suspended(state)
    /\ UNCHANGED <<pending, piped, wake_handker, wpc, signalled, killed, cpc,
                   tries, destroyed, raced, asked>>

\* cavan_thread_sleep_until, up to the wait.
SleepUntil ==
    /\ wpc = "handler"
    /\ \/ /\ pending
          /\ pending' = FALSE
          /\ UNCHANGED <<state, wpc, signalled>>
       \/ /\ ~pending
          /\ state' = "SLEEP" /\ wpc' = "timedwait" /\ signalled' = FALSE
          /\ UNCHANGED pending
    /\ UNCHANGED <<piped, wake_handker, killed, cpc, tries, destroyed, raced, asked>>

\* pthread_cond_timedwait returns: signalled, timed out or spuriously.
SleepReturn ==
    /\ wpc = "timedwait"
    /\ state' = IF state = "SLEEP" THEN "RUNNING" ELSE state
    /\ wpc' = "handler"
    /\ UNCHANGED <<pending, piped, wake_handker, signalled, killed, cpc, tries,
                   destroyed, raced, asked>>

\* cavan_thread_wait_event, up to the epoll wait; a pending resume ends it.
WaitEvent ==
    /\ wpc = "handler"
    /\ ~pending
    /\ state' = "WAIT_EVENT"
    /\ wpc' = "epoll_wait"
    /\ UNCHANGED <<pending, piped, wake_handker, signalled, killed, cpc, tries,
                   destroyed, raced, asked>>

\* epoll_wait returns, for an event in the pipe or for the timeout.  A positive
\* count never reaches the caller: cavan_thread_epoll_wait returns 0.
WaitEventReturn ==
    /\ wpc = "epoll_wait"
    /\ state' = IF state = "WAIT_EVENT" THEN "RUNNING" ELSE state
    /\ wpc' = "handler"
    /\ UNCHANGED <<pending, piped, wake_handker, signalled, killed, cpc, tries,
                   destroyed, raced, asked>>

\* cavan_thread_recv_event; on an empty pipe it fails and changes nothing.
RecvEvent ==
    /\ wpc = "handler"
    /\ piped > 0
    /\ piped' = piped - 1
    /\ UNCHANGED <<state, pending, wake_handker, wpc, signalled, killed, cpc,
                   tries, destroyed, raced, asked>>

\* The handler asks its own main loop to end (window.c does).
HandlerShouldStop ==
    /\ wpc = "handler"
    /\ state' = "STOPPPING"
    /\ UNCHANGED <<pending, piped, wake_handker, wpc, signalled, killed, cpc,
                   tries, destroyed, raced, asked>>

\* SIGUSR1 reaches the worker: cavan_thread_sighandler calls pthread_exit.
SigHandler ==
    /\ killed
    /\ wpc \notin Gone
    /\ wpc' = "killed"
    /\ UNCHANGED <<state, pending, piped, wake_handker, signalled, killed, cpc,
                   tries, destroyed, raced, asked>>

-----------------------------------------------------------------------------
Stop(c) == StopAsk(c) \/ StopDone(c) \/ StopWake(c) \/ StopKill(c)

Control(c) ==
    \/ cavan_thread_start(c)
    \/ cavan_thread_suspend(c)
    \/ cavan_thread_resume(c)
    \/ cavan_thread_wakeup(c)
    \/ cavan_thread_should_stop(c)
    \/ cavan_thread_stop(c)
    \/ Stop(c)
    \/ cavan_thread_deinit(c)

Worker ==
    \/ MainEntry
    \/ HandlerReturn
    \/ HandlerFail
    \/ CondWaitReturn
    \/ HandlerSuspend
    \/ SleepUntil
    \/ SleepReturn
    \/ WaitEvent
    \/ WaitEventReturn
    \/ RecvEvent
    \/ HandlerShouldStop
    \/ SigHandler

ThreadNext == Worker \/ \E c \in Controllers : Control(c)

\* The scheduler runs a runnable thread and a deadline passes.  A handler need
\* not return and a controller need not call anything.
ThreadFairness ==
    /\ WF_threadVars(MainEntry)
    /\ WF_threadVars(signalled /\ CondWaitReturn)
    /\ WF_threadVars(SleepReturn)
    /\ WF_threadVars(SigHandler)
    /\ \A c \in Controllers : WF_threadVars(Stop(c))

ThreadSafeSpec == ThreadInit /\ [][ThreadNext]_threadVars
ThreadSpec == ThreadSafeSpec /\ ThreadFairness

-----------------------------------------------------------------------------
(* Properties.                                                              *)

\* A worker that waits on thread->cond and that a resume has set RUNNING, or a
\* stop STOPPPING, has been signalled: no interleaving of suspend, resume, stop
\* and the worker's own sleep leaves it waiting for a signal already sent.  The
\* one exception is a STOPPPING set by another thread's should_stop, which the
\* code does not signal.
NoLostWakeup ==
    wpc \in Waits /\ ~signalled =>
        /\ state # "RUNNING"
        /\ state = "STOPPPING" => asked

\* With CAVAN_THREADF_PIPE_WAKEUP a worker inside cavan_thread_wait_event that
\* has been resumed finds an event in the pipe, even when a suspend came between
\* its WAIT_EVENT and the resume.  (With the default wake handler it may not: the
\* resume then finds SUSPEND, signals the cond nobody waits on and sends nothing.)
EventNotLost ==
    wpc = "epoll_wait" /\ state = "RUNNING" /\ wake_handker = "send_event"
        => piped > 0

\* When cavan_thread_stop has returned (and so when cavan_thread_deinit destroys
\* the lock) the worker has left its main loop for good or has been sent the
\* killing signal, unless the stop ran in the window between pthread_create and
\* the worker's first lock, where the main loop overwrites STOPPED by RUNNING.
StopIsFinal ==
    destroyed \/ (\E c \in Controllers : cpc[c] = "stopped")
        => wpc \in Gone \/ killed \/ raced

\* Every stop returns, and by then or later the worker is gone (the window of
\* StopIsFinal apart), whatever its handler does: sleeping again over STOPPPING,
\* waiting for events, or never returning.
StopEndsWorker ==
    \A c \in Controllers :
        cpc[c] = "stop" ~> (cpc[c] = "stopped" /\ (wpc \in Gone \/ raced))
=============================================================================
