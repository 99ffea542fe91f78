----------------------------- MODULE InputThread -----------------------------
(***************************************************************************)
(* The kernel thread of driver/core/cavan_thread.c, of which every input   *)
(* chip has two.  Its handler holds thread->lock except while it sleeps in *)
(* schedule() and while it waits for an event; a resume takes that lock, a *)
(* suspend only tries to and writes thread->state in any case.             *)
(*                                                                         *)
(* Callers hold the lock for single steps of this model only, so that      *)
(* whether it is taken can be read off the worker's place.                 *)
(***************************************************************************)
EXTENDS Naturals

CONSTANT Kinds    \* the threads of a chip

VARIABLES
    state,        \* thread->state
    task,         \* the threads with thread->task # NULL
    tpc,          \* where the worker is in cavan_input_thread_handler
    signalled,    \* external: threads whose wait for an event has been ended from outside
    lost,         \* history: threads that overwrote a suspend by RUNNING
    errored,      \* history: threads that suspended themselves after 20 errors
    unstopped     \* history: threads whose STOPPING a suspend has overwritten

threadVars == <<state, task, tpc, signalled, lost, errored, unstopped>>

Places == {"none", "top", "asleep", "enter", "wait", "event", "recover", "error"}

ThreadTypeOK ==
    /\ state \in [Kinds -> {"running", "suspend", "stopping", "stopped"}]
    /\ task \subseteq Kinds
    /\ tpc \in [Kinds -> Places]
    /\ {signalled, lost, errored, unstopped} \subseteq SUBSET Kinds

\* cavan_input_thread_init of every thread.
ThreadsInit ==
    /\ state = [k \in Kinds |-> "stopped"]
    /\ task = {}
    /\ tpc = [k \in Kinds |-> "none"]
    /\ signalled = {} /\ lost = {} /\ errored = {} /\ unstopped = {}

Locked(k) == tpc[k] \in {"enter", "event", "recover", "error"}

\* wake_up_process of a task that sleeps in schedule(), or has not run yet.
Woken(k) == IF tpc[k] = "asleep" THEN [tpc EXCEPT ![k] = "top"] ELSE tpc

\* The other branch of cavan_input_thread_set_state: no lock is waited for.
Suspend(ks) ==
    /\ state' = [k \in Kinds |-> IF k \in ks THEN "suspend" ELSE state[k]]
    /\ lost' = lost \ ks
    /\ unstopped' = unstopped \cup {k \in ks : state[k] = "stopping"}
    /\ UNCHANGED <<task, tpc, signalled, errored>>

\* Fault: the state is only set for a task that has just been created.
ResumeOnlyNew(k) ==
    /\ ~Locked(k)
    /\ state' = IF k \in task THEN state ELSE [state EXCEPT ![k] = "running"]
    /\ task' = task \cup {k}
    /\ tpc' = IF k \in task THEN Woken(k) ELSE [tpc EXCEPT ![k] = "top"]
    /\ lost' = lost \ {k} /\ errored' = errored \ {k}
    /\ UNCHANGED <<signalled, unstopped>>

\* cavan_input_thread_set_state(RUNNING): prepare under thread->lock, then the wake-up.
Resume(k) ==
    /\ ~Locked(k)
    /\ state' = [state EXCEPT ![k] = "running"]
    /\ task' = task \cup {k}
    /\ tpc' = IF k \in task THEN Woken(k) ELSE [tpc EXCEPT ![k] = "top"]
    /\ lost' = lost \ {k} /\ errored' = errored \ {k}
    /\ UNCHANGED <<signalled, unstopped>>

-----------------------------------------------------------------------------
(* The worker.                                                                *)

Goto(k, l) == tpc' = [tpc EXCEPT ![k] = l]

\* The inner while: set_current_state, unlock, schedule().
Sleep(k) ==
    /\ tpc[k] = "top" /\ state[k] = "suspend"
    /\ Goto(k, "asleep")
    /\ UNCHANGED <<state, task, signalled, lost, errored, unstopped>>

\* Past both tests of the state, about to write RUNNING.
Proceed(k) ==
    /\ tpc[k] = "top" /\ state[k] \notin {"suspend", "stopping"}
    /\ Goto(k, "enter")
    /\ UNCHANGED <<state, task, signalled, lost, errored, unstopped>>

Leave(k) ==
    /\ tpc[k] = "top" /\ state[k] = "stopping"
    /\ Goto(k, "none")
    /\ state' = [state EXCEPT ![k] = "stopped"]
    /\ task' = task \ {k}
    /\ UNCHANGED <<signalled, lost, errored, unstopped>>

\* state = RUNNING, prepare(true) and the unlock before wait_for_event.
Enter(k) ==
    /\ tpc[k] = "enter"
    /\ Goto(k, "wait")
    /\ state' = [state EXCEPT ![k] = "running"]
    /\ lost' = IF state[k] = "suspend" THEN lost \cup {k} ELSE lost
    /\ UNCHANGED <<task, signalled, errored, unstopped>>

\* wait_for_event returns; a state other than RUNNING ends the inner loop.
WaitReturn(k) ==
    /\ tpc[k] = "wait"
    /\ Goto(k, IF state[k] = "running" THEN "event" ELSE "top")
    /\ signalled' = signalled \ {k}
    /\ UNCHANGED <<state, task, lost, errored, unstopped>>

\* event_handle returns: fewer than 20 errors so far, or the twentieth.
EventDone(k) ==
    /\ tpc[k] = "event"
    /\ Goto(k, "wait")
    /\ UNCHANGED <<state, task, signalled, lost, errored, unstopped>>

EventFails(k) ==
    /\ tpc[k] = "event"
    /\ Goto(k, "error")
    /\ UNCHANGED <<state, task, signalled, lost, errored, unstopped>>

\* After error_handle: SUSPEND, prepare(false) and the outer loop, all under the lock.
ErrorHandled(k) ==
    /\ tpc[k] = "error"
    /\ Goto(k, "top")
    /\ state' = [state EXCEPT ![k] = "suspend"]
    /\ errored' = errored \cup {k}
    /\ UNCHANGED <<task, signalled, lost, unstopped>>

-----------------------------------------------------------------------------
(* cavan_input_thread_stop, by one caller.                                    *)

StopAsk(k) ==
    /\ ~Locked(k)
    /\ state' = [state EXCEPT ![k] = IF k \in task /\ state[k] # "stopped" THEN "stopping"
                                                                        ELSE "stopped"]
    /\ UNCHANGED <<task, tpc, signalled, lost, errored, unstopped>>

\* Fault: the interrupt thread has no stop callback.
StopSignalNone(k) == UNCHANGED threadVars

\* thread->stop of the interrupt thread completes event_completion.
StopSignal(k) ==
    /\ signalled' = signalled \cup {k}
    /\ UNCHANGED <<state, task, tpc, lost, errored, unstopped>>

\* wake_up_process(thread->task), which also ends the poll thread's schedule_timeout.
StopWake(k) ==
    /\ ~Locked(k) /\ k \in task
    /\ tpc' = Woken(k)
    /\ signalled' = IF k = "poll" /\ tpc[k] = "wait" THEN signalled \cup {k} ELSE signalled
    /\ UNCHANGED <<state, task, lost, errored, unstopped>>
=============================================================================
