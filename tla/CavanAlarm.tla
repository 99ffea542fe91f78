------------------------------ MODULE CavanAlarm ------------------------------
(***************************************************************************)
(* The alarm thread of lib/alarm.c as the TCP server of lib/tcp_dd.c uses  *)
(* it: alarms in a list sorted by time, a worker (CavanThread) that arms   *)
(* alarm() for the first of them and suspends itself, and the SIGALRM      *)
(* handler that resumes it.  The server's daemons add alarms, which the    *)
(* worker frees once they have run, and remove them by their index.        *)
(*                                                                         *)
(* alarm_thread->lock is held by the worker for its whole handler, the     *)
(* alarm's own handler included.  The SIGALRM handler runs on whichever    *)
(* thread of the process the kernel picks and takes thread->lock, a mutex  *)
(* that is not recursive: on a thread that is inside a section of that     *)
(* lock it waits for itself, and the lock is never released again.         *)
(*                                                                         *)
(* time(NULL) does not fail, so the handler's exit for a negative time     *)
(* (which releases the wrong mutex) is not an action.                      *)
(***************************************************************************)
EXTENDS TimedList

CONSTANTS
    Clients,      \* the server's daemons
    Nodes,        \* the memory of cavan_alarm_node
    NoNode,
    Dates,        \* alarm times a client may ask for
    Day,          \* TIME_DAY(1)
    Repeat        \* the period of a repeating alarm

ASSUME AlarmAssumption ==
    /\ NoNode \notin Nodes \cup Clients
    /\ Dates \subseteq Nat
    /\ {Day, Repeat} \subseteq Nat \ {0}

VARIABLES
    repeating,    \* the nodes with node->repeat # 0
    alive,        \* the nodes that are allocated
    locked,       \* alarm_thread->lock is held
    trapped,      \* a SIGALRM handler waits for the thread->lock its own thread holds
    armed,        \* when SIGALRM comes; 0 for never
    apc, target,  \* where each client is, and the node it works on
    dangling,     \* history: clients whose target has been freed under them
    stale         \* history: a freed node has been deleted

alarmVars == <<now, link, time, repeating, alive, locked, trapped, armed, hpc, running, apc, target,
               dangling, stale, calls>>
alarmServiceVars == <<threadVars, alarmVars>>
clientVars == <<apc, target, dangling, stale, calls>>

AlarmTypeOK ==
    /\ TypeOK
    /\ now \in 0..MaxTime /\ armed \in 0..MaxTime
    /\ link \in Seq(Nodes)
    /\ time \in [Nodes -> 0..MaxTime]
    /\ repeating \subseteq Nodes /\ alive \subseteq Nodes
    /\ hpc \in {"enter", "suspend", "run", "return"}
    /\ locked \in BOOLEAN /\ trapped \in BOOLEAN
    /\ hpc \in {"suspend", "run"} => locked
    /\ locked => hpc \in {"suspend", "run"} \/ trapped
    /\ running \in Nodes \cup {NoNode} /\ (running # NoNode) = (hpc = "run")
    /\ apc \in [Clients -> {"idle", "insert", "delete"}]
    /\ target \in [Clients -> Nodes \cup {NoNode}]
    /\ dangling \subseteq Clients /\ stale \in BOOLEAN
    /\ calls \in 0..MaxCalls

\* cavan_alarm_thread_init.
AlarmInit ==
    /\ ThreadInit
    /\ wake_handker = "none"
    /\ now = 0 /\ link = <<>> /\ time = [n \in Nodes |-> 0]
    /\ repeating = {} /\ alive = {}
    /\ locked = FALSE /\ trapped = FALSE /\ armed = 0 /\ hpc = "enter" /\ running = NoNode
    /\ apc = [c \in Clients |-> "idle"]
    /\ target = [c \in Clients |-> NoNode]
    /\ dangling = {} /\ stale = FALSE /\ calls = 0

AlarmTick ==
    /\ now < MaxTime
    /\ now' = now + 1
    /\ UNCHANGED <<link, time, repeating, alive, locked, trapped, armed, hpc, running, clientVars,
                   threadVars>>

\* The kernel delivers SIGALRM, and cavan_alarm_sighandler resumes the worker.  A handler
\* behind a trapped one waits with it.
SigalrmDue == armed # 0 /\ armed <= now

SigalrmIgnored ==
    /\ SigalrmDue /\ ~trapped
    /\ armed' = 0
    /\ UNCHANGED <<now, link, time, repeating, alive, locked, trapped, hpc, running, clientVars,
                   threadVars>>

cavan_alarm_sighandler ==
    /\ SigalrmDue /\ ~trapped
    /\ armed' = 0
    /\ IF destroyed THEN UNCHANGED <<pending, state, signalled, piped>> ELSE Resume
    /\ UNCHANGED <<wake_handker, wpc, killed, cpc, tries, destroyed, raced, asked,
                   now, link, time, repeating, alive, locked, trapped, hpc, running, clientVars>>

\* The worker or a controller is at a section of thread->lock: the main loop's, suspend's
\* or stop's.
AtThreadLock ==
    \/ wpc \in {"created", "cond_wait"}
    \/ wpc = "handler" /\ hpc \in {"suspend", "return"}
    \/ \E c \in Controllers : cpc[c] = "stop"

\* The signal hits a thread inside such a section; a client is inside resume's with
\* alarm_thread->lock held.  What the section would have done is not seen by anybody.
SigalrmTraps ==
    /\ SigalrmDue /\ ~trapped /\ ~destroyed
    /\ \/ AtThreadLock /\ UNCHANGED locked
       \/ ~locked /\ (\E c \in Clients : apc[c] = "insert") /\ locked' = TRUE
    /\ trapped' = TRUE
    /\ armed' = 0
    /\ UNCHANGED <<now, link, time, repeating, alive, hpc, running, clientVars, threadVars>>

-----------------------------------------------------------------------------
\* destroy: free(node), whoever else holds a pointer to it.
FreeNode(n, by) ==
    /\ alive' = alive \ {n}
    /\ dangling' = (dangling \ {by}) \cup {c \in Clients \ {by} : target[c] = n}

-----------------------------------------------------------------------------
(* The server's alarm requests.                                              *)

Request(c) ==
    /\ apc[c] = "idle" /\ calls < MaxCalls /\ ~destroyed /\ state # "NONE"
    /\ calls' = calls + 1

\* tcp_dd_handle_alarm_add_request up to the lock: a date in the past means tomorrow,
\* one further back is refused.
AlarmAdd(c) ==
    /\ Request(c)
    /\ \E n \in Nodes \ alive, d \in Dates, r \in BOOLEAN :
        LET t == IF d < now THEN d + Day ELSE d
        IN  /\ t >= now /\ t <= MaxTime
            /\ time' = [time EXCEPT ![n] = t]
            /\ repeating' = IF r THEN repeating \cup {n} ELSE repeating \ {n}
            /\ alive' = alive \cup {n}
            /\ target' = [target EXCEPT ![c] = n]
            /\ apc' = [apc EXCEPT ![c] = "insert"]
    /\ UNCHANGED <<now, link, locked, trapped, armed, hpc, running, dangling, stale, threadVars>>

cavan_alarm_insert_node(c) ==
    /\ apc[c] = "insert" /\ ~locked /\ ~trapped /\ ~destroyed
    /\ link' = InsertSorted(link, target[c], time[target[c]])
    /\ Resume
    /\ apc' = [apc EXCEPT ![c] = "idle"]
    /\ target' = [target EXCEPT ![c] = NoNode]
    /\ UNCHANGED <<wake_handker, wpc, killed, cpc, tries, destroyed, raced, asked,
                   now, time, repeating, alive, locked, trapped, armed, hpc, running, dangling, stale,
                   calls>>

\* tcp_dd_handle_alarm_remove_request finds the node under the list's own lock.
AlarmFind(c) ==
    /\ Request(c)
    /\ \E n \in ToSet(link) : target' = [target EXCEPT ![c] = n]
    /\ apc' = [apc EXCEPT ![c] = "delete"]
    /\ UNCHANGED <<now, link, time, repeating, alive, locked, trapped, armed, hpc, running, dangling,
                   stale, threadVars>>

\* cavan_alarm_delete_node.  A node freed since it was found is unlinked and destroyed
\* all the same; what that does to memory is not modelled any further.
cavan_alarm_delete_node(c) ==
    /\ apc[c] = "delete" /\ ~locked /\ ~destroyed
    /\ IF c \in dangling
       THEN stale' = TRUE /\ dangling' = dangling \ {c} /\ UNCHANGED <<link, alive>>
       ELSE /\ link' = Unlink(link, target[c])
            /\ FreeNode(target[c], c)
            /\ UNCHANGED stale
    /\ apc' = [apc EXCEPT ![c] = "idle"]
    /\ target' = [target EXCEPT ![c] = NoNode]
    /\ UNCHANGED <<now, time, repeating, locked, trapped, armed, hpc, running, calls, threadVars>>

-----------------------------------------------------------------------------
(* The worker's handler, cavan_alarm_thread_handler.                         *)

Enter == wpc = "handler" /\ hpc = "enter" /\ ~locked /\ locked' = TRUE

\* No alarm: alarm(0).  The first one is in the future: alarm() until then.
ArmAlarm ==
    /\ Enter
    /\ link # <<>> => time[First] > now
    /\ armed' = IF link = <<>> THEN 0 ELSE time[First]
    /\ hpc' = "suspend"
    /\ UNCHANGED <<now, link, time, repeating, alive, trapped, running, clientVars, threadVars>>

TakeAlarm ==
    /\ Enter
    /\ link # <<>> /\ time[First] <= now
    /\ link' = Tail(link)
    /\ running' = First
    /\ hpc' = "run"
    /\ UNCHANGED <<now, time, repeating, alive, trapped, armed, clientVars, threadVars>>

SuspendKeepsLock ==
    /\ hpc = "suspend" /\ ~trapped
    /\ HandlerSuspend
    /\ hpc' = "return"
    /\ UNCHANGED <<now, link, time, repeating, alive, locked, trapped, armed, running, clientVars>>

Suspend ==
    /\ hpc = "suspend" /\ ~trapped
    /\ HandlerSuspend
    /\ locked' = FALSE
    /\ hpc' = "return"
    /\ UNCHANGED <<now, link, time, repeating, alive, trapped, armed, running, clientVars>>

\* The alarm's handler has returned: link it again for its next time, or destroy it.  A
\* repetition beyond MaxTime is its last.
RanDestroys ==
    /\ wpc = "handler" /\ hpc = "run"
    /\ IF running \in repeating /\ time[running] + Repeat <= MaxTime
       THEN /\ time' = [time EXCEPT ![running] = @ + Repeat]
            /\ link' = InsertSorted(link, running, time[running] + Repeat)
       ELSE UNCHANGED <<time, link>>
    /\ FreeNode(running, NoNode)
    /\ locked' = FALSE /\ running' = NoNode /\ hpc' = "return"
    /\ UNCHANGED <<now, repeating, trapped, armed, apc, target, stale, calls, threadVars>>

Ran ==
    /\ wpc = "handler" /\ hpc = "run"
    /\ IF running \in repeating /\ time[running] + Repeat <= MaxTime
       THEN /\ time' = [time EXCEPT ![running] = @ + Repeat]
            /\ link' = InsertSorted(link, running, time[running] + Repeat)
            /\ UNCHANGED <<alive, dangling>>
       ELSE /\ UNCHANGED <<time, link>>
            /\ FreeNode(running, NoNode)
    /\ locked' = FALSE /\ running' = NoNode /\ hpc' = "return"
    /\ UNCHANGED <<now, repeating, trapped, armed, apc, target, stale, calls, threadVars>>

AlarmReturn ==
    /\ hpc = "return" /\ ~trapped
    /\ HandlerReturn
    /\ hpc' = "enter"
    /\ UNCHANGED <<now, link, time, repeating, alive, locked, trapped, armed, running, clientVars>>

AlarmHandler == ArmAlarm \/ TakeAlarm \/ Suspend \/ Ran \/ AlarmReturn
AlarmLoop == ~trapped /\ (MainEntry \/ CondWaitReturn) /\ UNCHANGED alarmVars
Killed == SigHandler /\ UNCHANGED alarmVars

AlarmManage(c) ==
    /\ \/ ~trapped /\ (cavan_thread_start(c) \/ StopAsk(c) \/ StopDone(c) \/ StopKill(c))
       \/ cavan_thread_stop(c) \/ StopWake(c) \/ cavan_thread_deinit(c)
    /\ UNCHANGED alarmVars

AlarmNext ==
    \/ AlarmTick \/ cavan_alarm_sighandler \/ SigalrmTraps
    \/ \E c \in Clients : \/ AlarmAdd(c) \/ AlarmFind(c)
                          \/ cavan_alarm_insert_node(c) \/ cavan_alarm_delete_node(c)
    \/ AlarmHandler \/ AlarmLoop \/ Killed
    \/ \E c \in Controllers : AlarmManage(c)

\* Time passes, SIGALRM is delivered, a runnable worker runs, alarms' handlers return
\* and a client that has found the lock free takes it.
AlarmFairness ==
    /\ WF_alarmServiceVars(AlarmTick) /\ WF_alarmServiceVars(cavan_alarm_sighandler)
    /\ WF_alarmServiceVars(AlarmHandler)
    /\ WF_alarmServiceVars(~trapped /\ MainEntry /\ UNCHANGED alarmVars)
    /\ WF_alarmServiceVars(~trapped /\ signalled /\ CondWaitReturn /\ UNCHANGED alarmVars)
    /\ \A c \in Clients : WF_alarmServiceVars(cavan_alarm_insert_node(c) \/ cavan_alarm_delete_node(c))

AlarmSafeSpec == AlarmInit /\ [][AlarmNext]_alarmServiceVars
AlarmSpec == AlarmSafeSpec /\ AlarmFairness

-----------------------------------------------------------------------------
(* Properties.                                                               *)

AlarmStopping == destroyed \/ \E c \in Controllers : cpc[c] # "idle"

\* What the list or the worker refers to has not been freed: the worker and the remove
\* requests that find their node still there never free under each other.
ListedAlive ==
    ToSet(link) \cup ({running} \ {NoNode}) \subseteq alive

\* An alarm in the list runs or is removed unless the service is stopped, or a SIGALRM
\* has hit a thread inside a section of thread->lock.
AlarmFires ==
    \A n \in Nodes : n \in ToSet(link) ~> (n \notin ToSet(link) \/ AlarmStopping \/ trapped)

\* A request that waits for the alarm thread's lock gets it, with the same exceptions:
\* stopping the service may kill the worker inside its handler, and a trapped signal
\* handler's thread may hold that lock; then nobody does.
RequestServed ==
    \A c \in Clients : apc[c] # "idle" ~> (apc[c] = "idle" \/ AlarmStopping \/ trapped)
=============================================================================
