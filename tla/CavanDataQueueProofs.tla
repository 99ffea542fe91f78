------------------------- MODULE CavanDataQueueProofs -------------------------
(***************************************************************************)
(* Safety of the worker of lib/thread.c, for any number of controllers,    *)
(* any length of the stop loop and any pipe, and of the data queue of      *)
(* lib/queue.c that runs on it, for any producers, any pool and any number *)
(* of items.                                                               *)
(***************************************************************************)
EXTENDS CavanDataQueue, FiniteSetTheorems, SequenceTheorems, TLAPS

-----------------------------------------------------------------------------
(* The worker thread.                                                        *)

\* A stop that is between two passes of its loop has a pass left.
TriesLeft == \A c \in Controllers : cpc[c] = "wake" => tries[c] < MaxTries

\* The worker is out of the way: it is gone, about to be killed, or was stopped
\* in the window where a stop is overwritten.
OutOfTheWay == wpc \in Gone \/ killed \/ raced

\* Why StopIsFinal is preserved: an initialised thread has no worker, STOPPED is
\* only reached by a worker that left or is killed, and a stopped thread cannot
\* be started again because nothing sets the state back to NONE.
StopInv ==
    /\ state = "NONE" => wpc = "none"
    /\ state = "STOPPED" => OutOfTheWay
    /\ destroyed \/ (\E c \in Controllers : cpc[c] = "stopped") => state # "NONE" /\ OutOfTheWay

ThreadInv == TypeOK /\ TriesLeft /\ NoLostWakeup /\ EventNotLost /\ StopInv

-----------------------------------------------------------------------------
\* Writing to the non-blocking pipe keeps its contents within its capacity and
\* never leaves it empty; the wake handler never takes an event away.
LEMMA PipeBounds ==
    ASSUME NEW n \in 0..PipeCap
    PROVE  /\ SendEvent(n) \in 1..PipeCap
           /\ WakeHandler(n) \in 0..PipeCap
           /\ WakeHandler(n) >= n
           /\ wake_handker = "send_event" => WakeHandler(n) > 0
  BY ThreadAssumption DEF SendEvent, WakeHandler

\* cavan_thread_init establishes the invariant.
LEMMA ThreadInitInv == ThreadInit => ThreadInv
  <1> SUFFICES ASSUME ThreadInit PROVE ThreadInv
    OBVIOUS
  <1>1. TypeOK
    <2>1. piped \in 0..PipeCap /\ 1 \in 1..MaxTries
      BY ThreadAssumption DEF ThreadInit
    <2> QED
      BY <2>1, Zenon DEF ThreadInit, TypeOK, States, WorkerPCs, Gone
  <1>2. TriesLeft
    BY DEF ThreadInit, TriesLeft
  <1>3. NoLostWakeup /\ EventNotLost /\ StopInv
    BY DEF ThreadInit, NoLostWakeup, EventNotLost, StopInv, OutOfTheWay, Gone, Waits
  <1> QED
    BY <1>1, <1>2, <1>3 DEF ThreadInv

\* What cavan_thread_resume does to the worker's state, pipe and signal.
LEMMA ResumeType ==
    ASSUME TypeOK, Resume
    PROVE  /\ state' \in States
           /\ pending' \in BOOLEAN
           /\ signalled' \in BOOLEAN
           /\ piped' \in 0..PipeCap
  <1>1. state' \in States /\ pending' \in BOOLEAN /\ signalled' \in BOOLEAN
    BY Zenon DEF TypeOK, Resume, CondSignal, States
  <1>2. piped' \in 0..PipeCap
    BY PipeBounds DEF TypeOK, Resume
  <1> QED
    BY <1>1, <1>2

\* What a controller may do to the types, one step per call.
LEMMA ControlType ==
    ASSUME TypeOK, TriesLeft, NEW c \in Controllers, Control(c)
    PROVE  TypeOK' /\ TriesLeft'
  <1>1. CASE cavan_thread_start(c)
    BY <1>1 DEF TypeOK, TriesLeft, cavan_thread_start, States, WorkerPCs
  <1>2. CASE cavan_thread_suspend(c)
    BY <1>2 DEF TypeOK, TriesLeft, cavan_thread_suspend, Suspended, States
  <1>3. CASE cavan_thread_resume(c)
    BY <1>3, ResumeType DEF TypeOK, TriesLeft, cavan_thread_resume
  <1>4. CASE cavan_thread_wakeup(c)
    BY <1>4, PipeBounds DEF TypeOK, TriesLeft, cavan_thread_wakeup
  <1>5. CASE cavan_thread_should_stop(c)
    BY <1>5 DEF TypeOK, TriesLeft, cavan_thread_should_stop, States
  <1>6. CASE cavan_thread_stop(c)
    BY <1>6, ThreadAssumption DEF TypeOK, TriesLeft, cavan_thread_stop
  <1>7. CASE StopAsk(c)
    BY <1>7, PipeBounds DEF TypeOK, TriesLeft, StopAsk, CondSignal, States
  <1>8. CASE StopDone(c)
    BY <1>8 DEF TypeOK, TriesLeft, StopDone, States
  <1>9. CASE StopWake(c)
    BY <1>9, PipeBounds, ThreadAssumption DEF TypeOK, TriesLeft, StopWake
  <1>10. CASE StopKill(c)
    BY <1>10 DEF TypeOK, TriesLeft, StopKill, States
  <1>11. CASE cavan_thread_deinit(c)
    BY <1>11 DEF TypeOK, TriesLeft, cavan_thread_deinit
  <1> QED
    BY <1>1, <1>2, <1>3, <1>4, <1>5, <1>6, <1>7, <1>8, <1>9, <1>10, <1>11
    DEF Control, Stop

\* What the worker's own steps do to the types.
LEMMA WorkerType ==
    ASSUME TypeOK, TriesLeft, Worker
    PROVE  TypeOK' /\ TriesLeft'
  <1>1. CASE MainEntry
    BY <1>1 DEF TypeOK, TriesLeft, MainEntry, States, WorkerPCs
  <1>2. ASSUME NEW p \in BOOLEAN, Switch(p)
        PROVE  /\ state' \in States /\ pending' \in BOOLEAN
               /\ wpc' \in WorkerPCs /\ signalled' \in BOOLEAN
    BY <1>2, Zenon DEF TypeOK, Switch, States, WorkerPCs, Waits, Gone
  <1>3. CASE HandlerReturn
    BY <1>2, <1>3 DEF TypeOK, TriesLeft, HandlerReturn
  <1>4. CASE HandlerFail
    BY <1>4 DEF TypeOK, TriesLeft, HandlerFail, States, WorkerPCs, Gone
  <1>5. CASE CondWaitReturn
    BY <1>2, <1>5 DEF TypeOK, TriesLeft, CondWaitReturn
  <1>6. CASE HandlerSuspend
    BY <1>6 DEF TypeOK, TriesLeft, HandlerSuspend, Suspended, States
  <1>7. CASE SleepUntil
    BY <1>7 DEF TypeOK, TriesLeft, SleepUntil, States, WorkerPCs, Waits
  <1>8. CASE SleepReturn
    BY <1>8 DEF TypeOK, TriesLeft, SleepReturn, States, WorkerPCs
  <1>9. CASE WaitEvent
    BY <1>9 DEF TypeOK, TriesLeft, WaitEvent, States, WorkerPCs
  <1>10. CASE WaitEventReturn
    BY <1>10 DEF TypeOK, TriesLeft, WaitEventReturn, States, WorkerPCs
  <1>11. CASE RecvEvent
    BY <1>11, ThreadAssumption DEF TypeOK, TriesLeft, RecvEvent
  <1>12. CASE HandlerShouldStop
    BY <1>12 DEF TypeOK, TriesLeft, HandlerShouldStop, States
  <1>13. CASE SigHandler
    BY <1>13 DEF TypeOK, TriesLeft, SigHandler, WorkerPCs, Gone
  <1> QED
    BY <1>1, <1>3, <1>4, <1>5, <1>6, <1>7, <1>8, <1>9, <1>10, <1>11, <1>12, <1>13
    DEF Worker

-----------------------------------------------------------------------------
\* A controller's call preserves the absence of lost wake-ups and events: a call
\* that leaves SUSPEND or SLEEP signals, one that leaves WAIT_EVENT writes.
LEMMA ControlWakeup ==
    ASSUME TypeOK, NoLostWakeup, EventNotLost, NEW c \in Controllers, Control(c)
    PROVE  NoLostWakeup' /\ EventNotLost'
  <1> USE DEF NoLostWakeup, EventNotLost
  <1>1. CASE cavan_thread_start(c)
    BY <1>1 DEF cavan_thread_start, Waits
  <1>2. CASE cavan_thread_suspend(c)
    BY <1>2 DEF cavan_thread_suspend, Suspended, TypeOK, States
  <1>3. CASE cavan_thread_resume(c)
    <2>1. NoLostWakeup'
      BY <1>3, Zenon DEF cavan_thread_resume, Resume, CondSignal
    <2>2. EventNotLost'
      BY <1>3, PipeBounds DEF cavan_thread_resume, Resume, TypeOK
    <2> QED
      BY <2>1, <2>2
  <1>4. CASE cavan_thread_wakeup(c)
    BY <1>4, PipeBounds DEF cavan_thread_wakeup, TypeOK
  <1>5. CASE cavan_thread_should_stop(c)
    BY <1>5 DEF cavan_thread_should_stop
  <1>6. CASE cavan_thread_stop(c)
    BY <1>6 DEF cavan_thread_stop
  <1>7. CASE StopAsk(c)
    BY <1>7 DEF StopAsk, CondSignal
  <1>8. CASE StopDone(c)
    BY <1>8 DEF StopDone
  <1>9. CASE StopWake(c)
    BY <1>9, PipeBounds DEF StopWake, TypeOK
  <1>10. CASE StopKill(c)
    BY <1>10 DEF StopKill
  <1>11. CASE cavan_thread_deinit(c)
    BY <1>11 DEF cavan_thread_deinit
  <1> QED
    BY <1>1, <1>2, <1>3, <1>4, <1>5, <1>6, <1>7, <1>8, <1>9, <1>10, <1>11
    DEF Control, Stop

\* The worker starts to wait only in SLEEP, SUSPEND or WAIT_EVENT.
LEMMA WorkerWakeup ==
    ASSUME TypeOK, NoLostWakeup, EventNotLost, Worker
    PROVE  NoLostWakeup' /\ EventNotLost'
  <1> USE DEF NoLostWakeup, EventNotLost, Waits
  <1>1. CASE MainEntry
    BY <1>1 DEF MainEntry
  <1>2. CASE HandlerReturn
    BY <1>2 DEF HandlerReturn, Switch
  <1>3. CASE HandlerFail
    BY <1>3 DEF HandlerFail
  <1>4. CASE CondWaitReturn
    BY <1>4 DEF CondWaitReturn, Switch
  <1>5. CASE HandlerSuspend
    BY <1>5 DEF HandlerSuspend
  <1>6. CASE SleepUntil
    BY <1>6 DEF SleepUntil
  <1>7. CASE SleepReturn
    BY <1>7 DEF SleepReturn
  <1>8. CASE WaitEvent
    BY <1>8 DEF WaitEvent
  <1>9. CASE WaitEventReturn
    BY <1>9 DEF WaitEventReturn
  <1>10. CASE RecvEvent
    BY <1>10 DEF RecvEvent
  <1>11. CASE HandlerShouldStop
    BY <1>11 DEF HandlerShouldStop
  <1>12. CASE SigHandler
    BY <1>12 DEF SigHandler
  <1> QED
    BY <1>1, <1>2, <1>3, <1>4, <1>5, <1>6, <1>7, <1>8, <1>9, <1>10, <1>11, <1>12
    DEF Worker

-----------------------------------------------------------------------------
\* A controller's call keeps a stopped thread out of the way.
LEMMA ControlStop ==
    ASSUME TypeOK, StopInv, NEW c \in Controllers, Control(c)
    PROVE  StopInv'
  <1> USE DEF StopInv, OutOfTheWay
  <1>1. CASE cavan_thread_start(c)
    BY <1>1 DEF cavan_thread_start
  <1>2. CASE cavan_thread_suspend(c)
    BY <1>2 DEF cavan_thread_suspend, Suspended
  <1>3. CASE cavan_thread_resume(c)
    BY <1>3 DEF cavan_thread_resume, Resume
  <1>4. CASE cavan_thread_wakeup(c)
    BY <1>4 DEF cavan_thread_wakeup
  <1>5. CASE cavan_thread_should_stop(c)
    BY <1>5 DEF cavan_thread_should_stop
  <1>6. CASE cavan_thread_stop(c)
    BY <1>6 DEF cavan_thread_stop, TypeOK
  <1>7. CASE StopAsk(c)
    BY <1>7 DEF StopAsk, TypeOK
  <1>8. CASE StopDone(c)
    BY <1>8 DEF StopDone, TypeOK, Gone
  <1>9. CASE StopWake(c)
    BY <1>9 DEF StopWake, TypeOK
  <1>10. CASE StopKill(c)
    BY <1>10 DEF StopKill, TypeOK
  <1>11. CASE cavan_thread_deinit(c)
    BY <1>11 DEF cavan_thread_deinit
  <1> QED
    BY <1>1, <1>2, <1>3, <1>4, <1>5, <1>6, <1>7, <1>8, <1>9, <1>10, <1>11
    DEF Control, Stop

\* The worker sets STOPPED only when it leaves and never comes back from Gone.
LEMMA WorkerStop ==
    ASSUME TypeOK, StopInv, Worker
    PROVE  StopInv'
  <1> USE DEF StopInv, OutOfTheWay, Gone
  <1>1. CASE MainEntry
    BY <1>1 DEF MainEntry
  <1>2. CASE HandlerReturn
    BY <1>2 DEF HandlerReturn, Switch
  <1>3. CASE HandlerFail
    BY <1>3 DEF HandlerFail
  <1>4. CASE CondWaitReturn
    BY <1>4 DEF CondWaitReturn, Switch
  <1>5. CASE HandlerSuspend
    BY <1>5 DEF HandlerSuspend, Suspended
  <1>6. CASE SleepUntil
    BY <1>6 DEF SleepUntil
  <1>7. CASE SleepReturn
    BY <1>7 DEF SleepReturn
  <1>8. CASE WaitEvent
    BY <1>8 DEF WaitEvent
  <1>9. CASE WaitEventReturn
    BY <1>9 DEF WaitEventReturn
  <1>10. CASE RecvEvent
    BY <1>10 DEF RecvEvent
  <1>11. CASE HandlerShouldStop
    BY <1>11 DEF HandlerShouldStop
  <1>12. CASE SigHandler
    BY <1>12 DEF SigHandler
  <1> QED
    BY <1>1, <1>2, <1>3, <1>4, <1>5, <1>6, <1>7, <1>8, <1>9, <1>10, <1>11, <1>12
    DEF Worker

\* Every step of the thread preserves the invariant.
LEMMA ThreadStepInv == ThreadInv /\ [ThreadNext]_threadVars => ThreadInv'
  <1> SUFFICES ASSUME ThreadInv, [ThreadNext]_threadVars PROVE ThreadInv'
    OBVIOUS
  <1>1. CASE Worker
    BY <1>1, WorkerType, WorkerWakeup, WorkerStop DEF ThreadInv
  <1>2. ASSUME NEW c \in Controllers, Control(c) PROVE ThreadInv'
    BY <1>2, ControlType, ControlWakeup, ControlStop DEF ThreadInv
  <1>3. CASE UNCHANGED threadVars
    BY <1>3 DEF threadVars, ThreadInv, TypeOK, TriesLeft, NoLostWakeup, EventNotLost,
       StopInv, OutOfTheWay
  <1> QED
    BY <1>1, <1>2, <1>3 DEF ThreadNext

\* The invariant holds in every reachable state of lib/thread.c's worker.
THEOREM ThreadInvariant == ThreadSpec => []ThreadInv
  <1>1. ThreadInit => ThreadInv
    BY ThreadInitInv
  <1>2. ThreadInv /\ [ThreadNext]_threadVars => ThreadInv'
    BY ThreadStepInv
  <1> QED
    BY <1>1, <1>2, PTL DEF ThreadSpec, ThreadSafeSpec

\* Type correctness; in particular stop's loop counter stays within its bound and
\* the pipe within its capacity.
THEOREM TypeCorrect == ThreadSpec => []TypeOK
  <1>1. ThreadInv => TypeOK
    BY DEF ThreadInv
  <1> QED
    BY <1>1, ThreadInvariant, PTL

\* cavan_thread_resume and cavan_thread_stop never leave the worker waiting on
\* thread->cond for a signal that was already sent.
THEOREM WakeupsNotLost == ThreadSpec => []NoLostWakeup
  <1>1. ThreadInv => NoLostWakeup
    BY DEF ThreadInv
  <1> QED
    BY <1>1, ThreadInvariant, PTL

\* A worker resumed inside cavan_thread_wait_event finds an event in its pipe when
\* its wake handler is cavan_thread_wake_handler_send_event.
THEOREM EventsNotLost == ThreadSpec => []EventNotLost
  <1>1. ThreadInv => EventNotLost
    BY DEF ThreadInv
  <1> QED
    BY <1>1, ThreadInvariant, PTL

\* After cavan_thread_stop, and so at cavan_thread_deinit, the worker is gone or
\* has been sent the killing signal, the start-up window excepted.
THEOREM StopFinal == ThreadSpec => []StopIsFinal
  <1>1. ThreadInv => StopIsFinal
    BY DEF ThreadInv, StopInv, StopIsFinal, OutOfTheWay
  <1> QED
    BY <1>1, ThreadInvariant, PTL

-----------------------------------------------------------------------------
(* The data queue.                                                           *)

\* A producer is in one of its three places.
ProducerOK == ppc \in [Producers -> {"idle", "append", "resume"}]

\* Outside its handler the worker is about to pop.
PopNext == wpc \in {"none", "created", "cond_wait", "exited"} => hpc = "pop"

\* The main loop starts to wait only when nothing is pending, and a resume that
\* makes something pending also ends SUSPEND.
WaitsNotPending == wpc = "cond_wait" /\ state = "SUSPEND" => ~pending

\* A thread that was never started has no worker.
NoWorkerYet == state = "NONE" => wpc = "none"

CoverInv == ProducerOK /\ PopNext /\ WaitsNotPending /\ NoWorkerYet /\ ItemCovered

-----------------------------------------------------------------------------
\* The empty list covers nothing.
LEMMA CoverInit == QueueInit => CoverInv
  BY DEF QueueInit, ThreadInit, CoverInv, ProducerOK, PopNext, WaitsNotPending, NoWorkerYet, ItemCovered

\* A producer that appends is about to resume; one that resumes leaves pending.
LEMMA ProduceCovers ==
    ASSUME CoverInv, NEW p \in Producers, Produce(p)
    PROVE  CoverInv'
  <1> USE DEF CoverInv, ProducerOK, PopNext, WaitsNotPending, NoWorkerYet, ItemCovered, Resuming
  <1>1. CASE GetNode(p)
    BY <1>1 DEF GetNode, Fill, threadVars
  <1>2. CASE AppendNode(p)
    BY <1>2 DEF AppendNode, threadVars
  <1>3. CASE ResumeWorker(p)
    BY <1>3 DEF ResumeWorker, Resume
  <1> QED
    BY <1>1, <1>2, <1>3 DEF Produce

\* The worker consumes pending only on its way to another pop, and sleeps only
\* when nothing is pending.
LEMMA WorkCovers ==
    ASSUME CoverInv, Work
    PROVE  CoverInv'
  <1> USE DEF CoverInv, ProducerOK, PopNext, WaitsNotPending, NoWorkerYet, ItemCovered, Resuming
  <1>1. CASE Pop
    BY <1>1 DEF Pop, threadVars
  <1>2. CASE Handle
    BY <1>2 DEF Handle, threadVars
  <1>3. CASE Free
    BY <1>3 DEF Free, threadVars
  <1>4. CASE SuspendSelf
    BY <1>4 DEF SuspendSelf, HandlerSuspend, Suspended
  <1>5. CASE Return
    BY <1>5 DEF Return, HandlerReturn, Switch
  <1>6. CASE Loop
    <2>1. CASE MainEntry
      BY <1>6, <2>1 DEF Loop, MainEntry, queueVars
    <2>2. CASE CondWaitReturn
      <3>1. CASE state = "SUSPEND"
        BY <1>6, <2>2, <3>1 DEF Loop, CondWaitReturn, queueVars
      <3>2. CASE state # "SUSPEND" /\ Switch(FALSE)
        BY <1>6, <2>2, <3>2 DEF Loop, CondWaitReturn, Switch, queueVars
      <3> QED
        BY <2>2, <3>1, <3>2 DEF CondWaitReturn
    <2>3. CASE SigHandler
      BY <1>6, <2>3 DEF Loop, SigHandler, Gone, queueVars
    <2> QED
      BY <1>6, <2>1, <2>2, <2>3 DEF Loop
  <1> QED
    BY <1>1, <1>2, <1>3, <1>4, <1>5, <1>6 DEF Work

\* Starting, stopping and destroying the queue touch neither list nor pending.
LEMMA ManageCovers ==
    ASSUME CoverInv, NEW c \in Controllers, Manage(c)
    PROVE  CoverInv'
  <1> USE DEF CoverInv, ProducerOK, PopNext, WaitsNotPending, NoWorkerYet, ItemCovered, Resuming, queueVars
  <1>1. CASE cavan_thread_start(c) /\ UNCHANGED queueVars
    BY <1>1 DEF cavan_thread_start
  <1>2. CASE cavan_thread_stop(c) /\ UNCHANGED queueVars
    BY <1>2 DEF cavan_thread_stop
  <1>3. CASE Stop(c) /\ UNCHANGED queueVars
    BY <1>3 DEF Stop, StopAsk, StopDone, StopWake, StopKill
  <1>4. CASE cavan_thread_deinit(c) /\ UNCHANGED queueVars
    BY <1>4 DEF cavan_thread_deinit
  <1> QED
    BY <1>1, <1>2, <1>3, <1>4 DEF Manage

\* The covering invariant holds in every reachable state of the data queue.
THEOREM CoverInvariant == QueueSpec => []CoverInv
  <1>1. QueueInit => CoverInv
    BY CoverInit
  <1>2. CoverInv /\ [QueueNext]_vars => CoverInv'
    <2> SUFFICES ASSUME CoverInv, [QueueNext]_vars PROVE CoverInv'
      OBVIOUS
    <2>1. CASE UNCHANGED vars
      BY <2>1 DEF vars, threadVars, queueVars, CoverInv, ProducerOK, PopNext,
         WaitsNotPending, NoWorkerYet, ItemCovered, Resuming
    <2> QED
      BY <2>1, ProduceCovers, WorkCovers, ManageCovers DEF QueueNext
  <1> QED
    BY <1>1, <1>2, PTL DEF QueueSpec, QueueSafeSpec

\* From the handler's empty pop to the worker's sleep, an appended item is always
\* covered by thread->pending or by a producer that will resume.
THEOREM ItemsCovered == QueueSpec => []ItemCovered
  <1>1. CoverInv => ItemCovered
    BY DEF CoverInv
  <1> QED
    BY <1>1, CoverInvariant, PTL

\* The data queue's worker never sleeps on a non-empty list unless a producer is
\* about to resume it, although list and thread have different locks.
THEOREM NoItemForgotten == QueueSpec => []NoForgottenItem
  <1>1. CoverInv => NoForgottenItem
    BY DEF CoverInv, ItemCovered, WaitsNotPending, NoForgottenItem
  <1> QED
    BY <1>1, CoverInvariant, PTL

-----------------------------------------------------------------------------
\* Appending to a list (double_link_append) adds one node to it.
LEMMA RangeAppend ==
    ASSUME NEW S, NEW s \in Seq(S), NEW x \in S
    PROVE  /\ Append(s, x) \in Seq(S)
           /\ Range(Append(s, x)) = Range(s) \cup {x}
           /\ IsInjective(s) /\ x \notin Range(s) => IsInjective(Append(s, x))
  <1>1. /\ Append(s, x) \in Seq(S)
        /\ DOMAIN Append(s, x) = 1..(Len(s) + 1)
        /\ DOMAIN s = 1..Len(s)
        /\ Len(s) \in Nat
        /\ \A i \in 1..Len(s) : Append(s, x)[i] = s[i]
        /\ Append(s, x)[Len(s) + 1] = x
    OBVIOUS
  <1>2. Range(Append(s, x)) = Range(s) \cup {x}
    BY <1>1 DEF Range
  <1>3. IsInjective(s) /\ x \notin Range(s) => IsInjective(Append(s, x))
    BY <1>1 DEF Range, IsInjective
  <1> QED
    BY <1>1, <1>2, <1>3

\* Popping a list (double_link_pop) takes its first node out of it.
LEMMA RangeTail ==
    ASSUME NEW S, NEW s \in Seq(S), s # <<>>, IsInjective(s)
    PROVE  /\ Head(s) \in Range(s)
           /\ Head(s) \in S
           /\ Tail(s) \in Seq(S)
           /\ Range(Tail(s)) = Range(s) \ {Head(s)}
           /\ IsInjective(Tail(s))
  <1>1. /\ Len(s) \in Nat \ {0}
        /\ DOMAIN s = 1..Len(s)
        /\ Head(s) = s[1]
        /\ Tail(s) \in Seq(S)
        /\ DOMAIN Tail(s) = 1..(Len(s) - 1)
        /\ \A i \in 1..(Len(s) - 1) : Tail(s)[i] = s[i + 1]
    OBVIOUS
  <1>2. Head(s) \in Range(s) /\ Head(s) \in S
    BY <1>1 DEF Range
  <1>3. Range(Tail(s)) = Range(s) \ {Head(s)}
    <2>1. ASSUME NEW y \in Range(s) \ {Head(s)} PROVE y \in Range(Tail(s))
      <3>1. PICK i \in 1..Len(s) : y = s[i]
        BY <1>1 DEF Range
      <3>2. i # 1 /\ i - 1 \in 1..(Len(s) - 1) /\ Tail(s)[i - 1] = s[i]
        BY <1>1, <2>1, <3>1
      <3> QED
        BY <1>1, <3>1, <3>2 DEF Range
    <2>2. ASSUME NEW y \in Range(Tail(s)) PROVE y \in Range(s) \ {Head(s)}
      BY <1>1, <2>2 DEF Range, IsInjective
    <2> QED
      BY <2>1, <2>2
  <1>4. IsInjective(Tail(s))
    BY <1>1 DEF IsInjective
  <1> QED
    BY <1>1, <1>2, <1>3, <1>4

-----------------------------------------------------------------------------
\* The places a node can be in, with their types.
PlacesOK ==
    /\ link \in Seq(Nodes)
    /\ pool \in Seq(PoolNodes)
    /\ heap \subseteq HeapNodes
    /\ got \in [Producers -> Nodes \cup {NoNode}]
    /\ cur \in Nodes \cup {NoNode}

\* The worker has a node from its pop to its free.
WorkerHas == cur # NoNode <=> hpc \in {"handle", "free"}

\* A producer has a node from its alloc to its append.
ProducerHas == \A p \in Producers : got[p] # NoNode <=> ppc[p] = "append"

OwnInv == ProducerOK /\ PlacesOK /\ WorkerHas /\ ProducerHas /\ NodeOwned

\* cavan_data_queue_init puts every node of the block into the pool, once.
LEMMA OwnInit == QueueInit => OwnInv
  <1> SUFFICES ASSUME QueueInit PROVE OwnInv
    OBVIOUS
  <1>1. Cardinality(PoolNodes) \in Nat
    BY QueueAssumption, FS_CardinalityType
  <1>2. pool \in Seq(PoolNodes) /\ IsInjective(pool)
    BY <1>1 DEF QueueInit, SetToSeqs, IsInjective
  <1>3. link = <<>> /\ link \in Seq(Nodes) /\ IsInjective(link) /\ Range(link) = {}
    BY DEF QueueInit, IsInjective, Range
  <1>4. NoNode \notin Range(pool)
    BY <1>2, QueueAssumption DEF Range
  <1>5. ProducerOK /\ WorkerHas /\ ProducerHas
    BY DEF QueueInit, ProducerOK, WorkerHas, ProducerHas
  <1>6. PlacesOK
    BY <1>2, <1>3 DEF QueueInit, PlacesOK
  <1>7. NodeOwned
    BY <1>2, <1>3, <1>4 DEF QueueInit, NodeOwned
  <1> QED
    BY <1>5, <1>6, <1>7 DEF OwnInv

\* A node a producer allocates was free: it leaves the pool's list, or malloc
\* returns one that nobody holds.
LEMMA GetNodeOwns ==
    ASSUME OwnInv, NEW p \in Producers, GetNode(p)
    PROVE  OwnInv'
  <1> USE DEF OwnInv
  <1>1. got[p] = NoNode
    BY DEF ProducerHas, GetNode
  <1>2. PICK n \in Nodes :
          /\ Fill(p, n)
          /\ n \notin Range(link) \cup {cur}
          /\ \A q \in Producers : got[q] # n
          /\ n \notin Range(pool')
          /\ n \in PoolNodes \cup heap'
          /\ pool' \in Seq(PoolNodes) /\ IsInjective(pool') /\ Range(pool') \subseteq Range(pool)
          /\ heap \subseteq heap' /\ heap' \subseteq HeapNodes
    <2>1. CASE pool # <<>>
      <3>1. /\ Head(pool) \in Range(pool) /\ Head(pool) \in PoolNodes
            /\ Tail(pool) \in Seq(PoolNodes) /\ IsInjective(Tail(pool))
            /\ Range(Tail(pool)) = Range(pool) \ {Head(pool)}
        BY <2>1, RangeTail DEF PlacesOK, NodeOwned
      <3>2. Fill(p, Head(pool)) /\ pool' = Tail(pool) /\ heap' = heap
        BY <2>1 DEF GetNode
      <3>3. Head(pool) \notin Range(link) \cup {cur}
        BY <3>1 DEF NodeOwned
      <3>4. \A q \in Producers : got[q] # Head(pool)
        BY <3>1, QueueAssumption DEF NodeOwned, ProducerHas, PlacesOK
      <3> QED
        BY <3>1, <3>2, <3>3, <3>4 DEF Nodes, PlacesOK
    <2>2. CASE pool = <<>>
      <3>1. PICK n \in HeapNodes \ heap : Fill(p, n) /\ heap' = heap \cup {n} /\ pool' = pool
        BY <2>2 DEF GetNode
      <3>2. n \notin PoolNodes \cup heap \cup {NoNode}
        BY <3>1, QueueAssumption
      <3>3. n \notin Range(link) \cup {cur}
        BY <3>2 DEF NodeOwned
      <3>4. \A q \in Producers : got[q] # n
        BY <3>2 DEF NodeOwned, ProducerHas
      <3>5. n \notin Range(pool)
        BY <3>2 DEF PlacesOK, Range
      <3> QED
        BY <3>1, <3>3, <3>4, <3>5 DEF Nodes, PlacesOK, NodeOwned
    <2> QED
      BY <2>1, <2>2
  <1>3. n # NoNode
    BY QueueAssumption DEF Nodes
  <1>4. /\ got' = [got EXCEPT ![p] = n] /\ ppc' = [ppc EXCEPT ![p] = "append"]
        /\ link' = link /\ cur' = cur /\ hpc' = hpc
    BY <1>2 DEF Fill
  <1>5. ProducerOK' /\ PlacesOK' /\ WorkerHas' /\ ProducerHas'
    BY <1>2, <1>3, <1>4 DEF ProducerOK, PlacesOK, WorkerHas, ProducerHas
  <1>6. NodeOwned'
    BY <1>2, <1>4 DEF NodeOwned, PlacesOK, ProducerOK
  <1> QED
    BY <1>5, <1>6

\* An append hands the producer's node over to the queue's list.
LEMMA AppendOwns ==
    ASSUME OwnInv, NEW p \in Producers, AppendNode(p)
    PROVE  OwnInv'
  <1> USE DEF OwnInv
  <1>1. /\ got' = [got EXCEPT ![p] = NoNode] /\ ppc' = [ppc EXCEPT ![p] = "resume"]
        /\ link' = Append(link, got[p])
        /\ pool' = pool /\ heap' = heap /\ cur' = cur /\ hpc' = hpc
    BY DEF AppendNode
  <1>2. got[p] # NoNode /\ got[p] \in Nodes /\ got[p] \in PoolNodes \cup heap
    BY DEF AppendNode, ProducerHas, PlacesOK, NodeOwned
  <1>3. /\ link' \in Seq(Nodes) /\ Range(link') = Range(link) \cup {got[p]}
        /\ IsInjective(link')
    BY <1>1, <1>2, RangeAppend DEF AppendNode, NodeOwned, PlacesOK
  <1>4. ProducerOK' /\ PlacesOK' /\ WorkerHas' /\ ProducerHas'
    BY <1>1, <1>3 DEF ProducerOK, PlacesOK, WorkerHas, ProducerHas
  <1>5. \A q \in Producers \ {p} : got[q] # got[p]
    BY DEF AppendNode, NodeOwned
  <1>6. \A q \in Producers : ppc'[q] = "append" =>
            q # p /\ got'[q] = got[q] /\ ppc[q] = "append" /\ got[q] # NoNode
    BY <1>1 DEF ProducerOK, PlacesOK, ProducerHas
  <1>7. NodeOwned'
    BY <1>1, <1>2, <1>3, <1>5, <1>6 DEF NodeOwned, PlacesOK, AppendNode
  <1> QED
    BY <1>4, <1>7

\* A pop hands the first node of the list over to the worker.
LEMMA PopOwns ==
    ASSUME OwnInv, Pop
    PROVE  OwnInv'
  <1> USE DEF OwnInv
  <1>1. CASE link = <<>>
    BY <1>1 DEF Pop, ProducerOK, PlacesOK, WorkerHas, ProducerHas, NodeOwned
  <1>2. CASE link # <<>>
    <2>1. /\ Head(link) \in Range(link) /\ Head(link) \in Nodes
          /\ Tail(link) \in Seq(Nodes) /\ IsInjective(Tail(link))
          /\ Range(Tail(link)) = Range(link) \ {Head(link)}
      BY <1>2, RangeTail DEF PlacesOK, NodeOwned
    <2>2. /\ cur' = Head(link) /\ link' = Tail(link) /\ hpc' = "handle"
          /\ pool' = pool /\ heap' = heap /\ got' = got /\ ppc' = ppc
      BY <1>2 DEF Pop
    <2>3. Head(link) # NoNode
      BY <2>1, QueueAssumption DEF Nodes
    <2>4. ProducerOK' /\ PlacesOK' /\ WorkerHas' /\ ProducerHas'
      BY <2>1, <2>2, <2>3 DEF ProducerOK, PlacesOK, WorkerHas, ProducerHas
    <2>5. NodeOwned'
      BY <2>1, <2>2 DEF NodeOwned
    <2> QED
      BY <2>4, <2>5
  <1> QED
    BY <1>1, <1>2

\* A free hands the worker's node back to the pool's list or to malloc.
LEMMA FreeOwns ==
    ASSUME OwnInv, Free
    PROVE  OwnInv'
  <1> USE DEF OwnInv
  <1>1. /\ cur' = NoNode /\ hpc' = "return"
        /\ link' = link /\ got' = got /\ ppc' = ppc
    BY DEF Free
  <1>2. cur # NoNode /\ cur \in Nodes /\ cur \notin Range(pool) \cup Range(link)
    BY DEF Free, WorkerHas, PlacesOK, NodeOwned
  <1>3. NoNode \notin Range(link) /\ NoNode \notin Range(pool)
    BY QueueAssumption DEF PlacesOK, Range, Nodes
  <1>4. \A q \in Producers : ppc[q] = "append" => got[q] # cur /\ got[q] # NoNode
    BY DEF NodeOwned, ProducerHas
  <1>5. CASE cur \in PoolNodes /\ pool' = Append(pool, cur) /\ heap' = heap
    <2>1. pool' \in Seq(PoolNodes) /\ Range(pool') = Range(pool) \cup {cur} /\ IsInjective(pool')
      BY <1>2, <1>5, RangeAppend DEF PlacesOK, NodeOwned
    <2>2. ProducerOK' /\ PlacesOK' /\ WorkerHas' /\ ProducerHas'
      BY <1>1, <1>5, <2>1 DEF ProducerOK, PlacesOK, WorkerHas, ProducerHas
    <2>3. NodeOwned'
      BY <1>1, <1>2, <1>3, <1>4, <1>5, <2>1, QueueAssumption DEF NodeOwned, Nodes
    <2> QED
      BY <2>2, <2>3
  <1>6. CASE cur \in HeapNodes /\ heap' = heap \ {cur} /\ pool' = pool
    <2>1. ProducerOK' /\ PlacesOK' /\ WorkerHas' /\ ProducerHas'
      BY <1>1, <1>6 DEF ProducerOK, PlacesOK, WorkerHas, ProducerHas
    <2>2. NodeOwned'
      BY <1>1, <1>2, <1>3, <1>4, <1>6 DEF NodeOwned
    <2> QED
      BY <2>1, <2>2
  <1> QED
    BY <1>5, <1>6 DEF Free

\* Every other step leaves the places of the nodes alone.
LEMMA FrameOwns ==
    ASSUME OwnInv, UNCHANGED <<link, pool, heap, got, cur>>, ProducerOK', WorkerHas', ProducerHas'
    PROVE  OwnInv'
  BY DEF OwnInv, PlacesOK, NodeOwned, ProducerHas, ProducerOK

\* Every step of the data queue preserves the ownership invariant.
LEMMA OwnStep == OwnInv /\ [QueueNext]_vars => OwnInv'
  <1> SUFFICES ASSUME OwnInv, [QueueNext]_vars PROVE OwnInv'
    OBVIOUS
  <1>1. ASSUME NEW p \in Producers, Produce(p) PROVE OwnInv'
    <2>1. CASE ResumeWorker(p)
      BY <2>1, FrameOwns DEF OwnInv, ResumeWorker, ProducerOK, WorkerHas, ProducerHas
    <2> QED
      BY <1>1, <2>1, GetNodeOwns, AppendOwns DEF Produce
  <1>2. CASE UNCHANGED queueVars
    BY <1>2, FrameOwns DEF OwnInv, queueVars, ProducerOK, WorkerHas, ProducerHas
  <1>3. CASE Work
    <2>1. CASE Handle
      BY <2>1, FrameOwns DEF OwnInv, Handle, ProducerOK, WorkerHas, ProducerHas
    <2>2. CASE SuspendSelf
      BY <2>2, FrameOwns DEF OwnInv, SuspendSelf, ProducerOK, WorkerHas, ProducerHas
    <2>3. CASE Return
      BY <2>3, FrameOwns DEF OwnInv, Return, ProducerOK, WorkerHas, ProducerHas
    <2>4. CASE Loop
      BY <2>4, <1>2 DEF Loop
    <2> QED
      BY <1>3, <2>1, <2>2, <2>3, <2>4, PopOwns, FreeOwns DEF Work
  <1>4. ASSUME NEW c \in Controllers, Manage(c) PROVE OwnInv'
    BY <1>2, <1>4 DEF Manage
  <1>5. CASE UNCHANGED vars
    BY <1>2, <1>5 DEF vars
  <1> QED
    BY <1>1, <1>3, <1>4, <1>5 DEF QueueNext

\* A node of the data queue is never in two hands: the pool, one producer, the
\* list or the worker has it, and a malloc'ed node is not freed while it is used.
THEOREM NodesOwned == QueueSpec => []NodeOwned
  <1>1. QueueInit => OwnInv
    BY OwnInit
  <1>2. OwnInv /\ [QueueNext]_vars => OwnInv'
    BY OwnStep
  <1>3. OwnInv => NodeOwned
    BY DEF OwnInv
  <1> QED
    BY <1>1, <1>2, <1>3, PTL DEF QueueSpec, QueueSafeSpec

-----------------------------------------------------------------------------
(* Delivery.                                                                 *)

\* The messages of a list's nodes.
Messages(f, s) == [i \in DOMAIN s |-> f[s[i]]]
InHand == IF hpc = "handle" THEN <<body[cur]>> ELSE <<>>
Values == Items \cup {NoNode}

\* double_link_append adds the node's message at the end.
LEMMA MessagesAppend ==
    ASSUME NEW S, NEW V, NEW f \in [S -> V], NEW s \in Seq(S), NEW n \in S
    PROVE  /\ Messages(f, s) \in Seq(V)
           /\ Messages(f, Append(s, n)) = Append(Messages(f, s), f[n])
  <1>1. /\ Append(s, n) \in Seq(S) /\ Len(s) \in Nat
        /\ DOMAIN Append(s, n) = 1..(Len(s) + 1) /\ DOMAIN s = 1..Len(s)
        /\ \A i \in 1..Len(s) : Append(s, n)[i] = s[i] /\ s[i] \in S
        /\ Append(s, n)[Len(s) + 1] = n
    OBVIOUS
  <1>2. Messages(f, s) \in Seq(V) /\ Len(Messages(f, s)) = Len(s)
    BY <1>1 DEF Messages
  <1>3. Messages(f, Append(s, n)) \in Seq(V) /\ Len(Messages(f, Append(s, n))) = Len(s) + 1
    BY <1>1 DEF Messages
  <1>4. Append(Messages(f, s), f[n]) \in Seq(V) /\ Len(Append(Messages(f, s), f[n])) = Len(s) + 1
    BY <1>1, <1>2
  <1>5. ASSUME NEW i \in 1..(Len(s) + 1)
        PROVE  Messages(f, Append(s, n))[i] = Append(Messages(f, s), f[n])[i]
    <2>1. CASE i = Len(s) + 1
      BY <1>1, <1>2, <2>1, AppendProperties DEF Messages
    <2>2. CASE i \in 1..Len(s)
      <3>1. Append(Messages(f, s), f[n])[i] = Messages(f, s)[i]
        BY <1>2, <2>2, AppendProperties
      <3> QED
        BY <1>1, <2>2, <3>1 DEF Messages
    <2>3. i = Len(s) + 1 \/ i \in 1..Len(s)
      <3>1. Len(s) \in Nat
        BY <1>1
      <3> QED
        BY <3>1, <1>5, SMT
    <2> QED
      BY <2>1, <2>2, <2>3
  <1>6. Messages(f, Append(s, n)) = Append(Messages(f, s), f[n])
    BY <1>3, <1>4, <1>5, SeqEqual
  <1> QED
    BY <1>2, <1>6

\* double_link_pop takes the first message.
LEMMA MessagesTail ==
    ASSUME NEW S, NEW V, NEW f \in [S -> V], NEW s \in Seq(S), s # <<>>
    PROVE  /\ Messages(f, Tail(s)) \in Seq(V) /\ f[Head(s)] \in V
           /\ Messages(f, s) = <<f[Head(s)]>> \o Messages(f, Tail(s))
  <1>1. /\ Len(s) \in Nat \ {0} /\ DOMAIN s = 1..Len(s) /\ Head(s) = s[1]
        /\ Tail(s) \in Seq(S) /\ Len(Tail(s)) = Len(s) - 1 /\ DOMAIN Tail(s) = 1..(Len(s) - 1)
        /\ \A i \in 1..(Len(s) - 1) : Tail(s)[i] = s[i + 1]
        /\ \A i \in 1..Len(s) : s[i] \in S
    OBVIOUS
  <1>2. Messages(f, s) \in Seq(V) /\ Len(Messages(f, s)) = Len(s)
    BY <1>1 DEF Messages
  <1>3. Messages(f, Tail(s)) \in Seq(V) /\ Len(Messages(f, Tail(s))) = Len(s) - 1
    BY <1>1 DEF Messages
  <1>4. f[Head(s)] \in V /\ <<f[Head(s)]>> \in Seq(V) /\ Len(<<f[Head(s)]>>) = 1
    BY <1>1
  <1>5. /\ <<f[Head(s)]>> \o Messages(f, Tail(s)) \in Seq(V)
        /\ Len(<<f[Head(s)]>> \o Messages(f, Tail(s))) = Len(s)
        /\ \A i \in 1..Len(s) : (<<f[Head(s)]>> \o Messages(f, Tail(s)))[i] =
               IF i <= 1 THEN <<f[Head(s)]>>[i] ELSE Messages(f, Tail(s))[i - 1]
    <2> DEFINE a == <<f[Head(s)]>>
               b == Messages(f, Tail(s))
    <2>1. a \in Seq(V) /\ b \in Seq(V) /\ Len(a) = 1 /\ Len(b) = Len(s) - 1
      BY <1>3, <1>4
    <2>2. 1 + (Len(s) - 1) = Len(s)
      BY <1>1
    <2> HIDE DEF a, b
    <2>3. /\ a \o b \in Seq(V) /\ Len(a \o b) = Len(a) + Len(b)
          /\ \A i \in 1..(Len(a) + Len(b)) : (a \o b)[i] = IF i <= Len(a) THEN a[i] ELSE b[i - Len(a)]
      BY <2>1, ConcatProperties
    <2>4. Len(a) + Len(b) = Len(s)
      BY <2>1, <2>2, Zenon
    <2>5. /\ a \o b \in Seq(V) /\ Len(a \o b) = Len(s)
          /\ \A i \in 1..Len(s) : (a \o b)[i] = IF i <= 1 THEN a[i] ELSE b[i - 1]
      BY <2>1, <2>3, <2>4, Zenon
    <2> QED
      BY <2>5 DEF a, b
  <1>6. ASSUME NEW i \in 1..Len(s)
        PROVE  Messages(f, s)[i] = (<<f[Head(s)]>> \o Messages(f, Tail(s)))[i]
    <2>1. CASE i = 1
      BY <1>1, <1>5, <2>1 DEF Messages
    <2>2. CASE i # 1
      <3>1. i - 1 \in 1..(Len(s) - 1) /\ Tail(s)[i - 1] = s[i] /\ ~(i <= 1)
        BY <1>1, <2>2
      <3>2. Messages(f, Tail(s))[i - 1] = f[s[i]]
        BY <1>1, <3>1 DEF Messages
      <3> QED
        BY <1>1, <1>5, <3>1, <3>2 DEF Messages
    <2> QED
      BY <2>1, <2>2
  <1>7. Messages(f, s) = <<f[Head(s)]>> \o Messages(f, Tail(s))
    BY <1>2, <1>5, <1>6, SeqEqual
  <1> QED
    BY <1>3, <1>4, <1>7

\* What the messages and the histories are made of.
HistoryOK ==
    /\ body \in [Nodes -> Values]
    /\ sent \in [Producers -> 0..MaxItems]
    /\ appended \in Seq(Values) /\ handled \in Seq(Values)

DeliverInv == HistoryOK /\ Delivered

\* Delivered in terms of the lists' messages.
LEMMA DeliveredIs ==
    Delivered <=> appended = (handled \o InHand) \o Messages(body, link)
  BY DEF Delivered, InHand, Messages

\* Nothing has been appended at first.
LEMMA DeliverInit == QueueInit => DeliverInv
  <1> SUFFICES ASSUME QueueInit PROVE DeliverInv
    OBVIOUS
  <1>1. HistoryOK
    BY QueueAssumption DEF QueueInit, HistoryOK, Values
  <1>2. appended = <<>> /\ handled = <<>> /\ InHand = <<>> /\ Messages(body, link) = <<>>
    BY DEF QueueInit, InHand, Messages
  <1> QED
    BY <1>1, <1>2, DeliveredIs DEF DeliverInv

\* A producer fills a node that is in nobody's list, and appends it at the end.
LEMMA ProduceDelivers ==
    ASSUME OwnInv, OwnInv', DeliverInv, NEW p \in Producers, Produce(p)
    PROVE  DeliverInv'
  <1> USE DEF DeliverInv
  <1>1. CASE GetNode(p)
    <2>1. PICK n \in Nodes : Fill(p, n)
      <3>1. pool # <<>> => Head(pool) \in PoolNodes
        BY HeadTailProperties DEF OwnInv, PlacesOK
      <3> QED
        BY <1>1, <3>1 DEF GetNode, Nodes
    <2>2. /\ body' = [body EXCEPT ![n] = <<p, sent[p] + 1>>]
          /\ sent' = [sent EXCEPT ![p] = sent[p] + 1]
          /\ UNCHANGED <<link, hpc, cur, appended, handled>>
          /\ got'[p] = n /\ ppc'[p] = "append"
      BY <2>1 DEF Fill, OwnInv, PlacesOK, ProducerOK
    <2>3. n \notin Range(link) /\ n # cur
      BY <2>2 DEF OwnInv, NodeOwned
    <2>4. sent[p] + 1 \in 1..MaxItems /\ sent[p] + 1 \in 0..MaxItems
      BY <1>1, QueueAssumption DEF GetNode, HistoryOK
    <2>5. HistoryOK'
      BY <2>2, <2>4 DEF HistoryOK, Values, Items
    <2>6. Messages(body, link)' = Messages(body, link)
      <3>1. \A i \in DOMAIN link : link[i] \in Range(link)
        BY DEF Range
      <3> QED
        BY <2>2, <2>3, <3>1 DEF Messages, HistoryOK
    <2>7. InHand' = InHand
      <3>1. cur # n => body'[cur] = body[cur] \/ hpc # "handle"
        BY <2>2, SMTT(20) DEF HistoryOK, OwnInv, PlacesOK, WorkerHas
      <3> QED
        BY <2>2, <2>3, <3>1 DEF InHand
    <2> QED
      BY <2>2, <2>5, <2>6, <2>7, DeliveredIs DEF Delivered, InHand, Messages
  <1>2. CASE AppendNode(p)
    <2>1. got[p] \in Nodes /\ body[got[p]] \in Values
      BY <1>2 DEF AppendNode, OwnInv, ProducerHas, PlacesOK, HistoryOK
    <2>2. /\ link' = Append(link, got[p]) /\ appended' = Append(appended, body[got[p]])
          /\ UNCHANGED <<body, sent, hpc, cur, handled>>
      BY <1>2 DEF AppendNode
    <2>3. HistoryOK'
      BY <2>1, <2>2 DEF HistoryOK
    <2>4. /\ Messages(body, link) \in Seq(Values)
          /\ Messages(body, link)' = Append(Messages(body, link), body[got[p]])
      BY <2>1, <2>2, MessagesAppend DEF HistoryOK, OwnInv, PlacesOK
    <2>5. InHand' = InHand
      BY <2>2 DEF InHand
    <2>6. InHand \in Seq(Values)
      BY DEF InHand, OwnInv, WorkerHas, PlacesOK, HistoryOK
    <2>7. handled \o InHand \in Seq(Values)
      BY <2>6, ConcatProperties DEF HistoryOK
    <2>8. (handled \o InHand) \o Append(Messages(body, link), body[got[p]])
              = Append((handled \o InHand) \o Messages(body, link), body[got[p]])
      BY <2>1, <2>4, <2>7
    <2> QED
      BY <2>2, <2>3, <2>4, <2>5, <2>8, DeliveredIs DEF Delivered, InHand, Messages
  <1>3. CASE ResumeWorker(p)
    BY <1>3 DEF ResumeWorker, HistoryOK, Delivered
  <1> QED
    BY <1>1, <1>2, <1>3 DEF Produce

\* The worker takes the first message, hands it over and recycles its node.
LEMMA WorkDelivers ==
    ASSUME OwnInv, DeliverInv, Work
    PROVE  DeliverInv'
  <1> USE DEF DeliverInv
  <1>1. CASE Pop /\ link # <<>>
    <2>1. /\ cur' = Head(link) /\ link' = Tail(link) /\ hpc = "pop" /\ hpc' = "handle"
          /\ UNCHANGED <<body, sent, appended, handled>>
      BY <1>1 DEF Pop
    <2>2. /\ Messages(body, Tail(link)) \in Seq(Values) /\ body[Head(link)] \in Values
          /\ Messages(body, link) = <<body[Head(link)]>> \o Messages(body, Tail(link))
      BY <1>1, MessagesTail DEF OwnInv, PlacesOK, HistoryOK
    <2>3. InHand = <<>> /\ InHand' = <<body[Head(link)]>>
      BY <2>1 DEF InHand
    <2>4. Messages(body, link)' = Messages(body, Tail(link))
      BY <2>1 DEF Messages
    <2>5. handled \in Seq(Values) /\ handled \o <<>> = handled
      BY ConcatEmptySeq DEF HistoryOK
    <2>6. (handled \o <<body[Head(link)]>>) \o Messages(body, Tail(link))
              = handled \o (<<body[Head(link)]>> \o Messages(body, Tail(link)))
      BY <2>2, <2>5, ConcatAssociative
    <2>7. appended' = handled' \o InHand' \o Messages(body, link)'
      BY <2>1, <2>2, <2>3, <2>4, <2>5, <2>6, DeliveredIs
    <2> QED
      BY <2>1, <2>7 DEF HistoryOK, Delivered, InHand, Messages
  <1>2. CASE Handle
    <2>1. /\ hpc = "handle" /\ hpc' = "free" /\ handled' = Append(handled, body[cur])
          /\ UNCHANGED <<link, body, sent, cur, appended>>
      BY <1>2 DEF Handle
    <2>2. body[cur] \in Values
      BY <2>1 DEF OwnInv, WorkerHas, PlacesOK, HistoryOK
    <2>3. handled' \in Seq(Values) /\ handled' = handled \o <<body[cur]>>
      BY <2>1, <2>2, AppendIsConcat DEF HistoryOK
    <2>4. handled' \o <<>> = handled'
      BY <2>3, ConcatEmptySeq
    <2>5. InHand = <<body[cur]>> /\ InHand' = <<>> /\ Messages(body, link)' = Messages(body, link)
      BY <2>1 DEF InHand, Messages
    <2>6. appended' = handled' \o InHand' \o Messages(body, link)'
      BY <2>1, <2>3, <2>4, <2>5, DeliveredIs
    <2> QED
      BY <2>1, <2>3, <2>6 DEF HistoryOK, Delivered, InHand, Messages
  <1>3. CASE /\ UNCHANGED <<link, body, sent, appended, handled>>
             /\ UNCHANGED <<hpc, cur>> \/ (hpc # "handle" /\ hpc' # "handle")
    BY <1>3 DEF HistoryOK, Delivered
  <1>4. CASE Pop /\ link = <<>>
    BY <1>3, <1>4 DEF Pop
  <1>5. CASE Free \/ SuspendSelf \/ Return
    BY <1>3, <1>5 DEF Free, SuspendSelf, Return
  <1>6. CASE Loop
    BY <1>3, <1>6 DEF Loop, queueVars
  <1> QED
    BY <1>1, <1>2, <1>4, <1>5, <1>6 DEF Work

\* No item of the data queue is lost, repeated, reordered or overwritten in a recycled
\* node, for any producers, any pool and any number of items.
THEOREM ItemsDelivered == QueueSpec => []Delivered
  <1>1. QueueInit => OwnInv /\ DeliverInv
    BY OwnInit, DeliverInit
  <1>2. OwnInv /\ DeliverInv /\ [QueueNext]_vars => (OwnInv /\ DeliverInv)'
    <2> SUFFICES ASSUME OwnInv, DeliverInv, [QueueNext]_vars PROVE OwnInv' /\ DeliverInv'
      OBVIOUS
    <2>1. OwnInv'
      BY OwnStep
    <2>2. CASE UNCHANGED queueVars
      BY <2>1, <2>2 DEF queueVars, DeliverInv, HistoryOK, Delivered
    <2>3. ASSUME NEW c \in Controllers, Manage(c) PROVE DeliverInv'
      BY <2>2, <2>3 DEF Manage
    <2>4. CASE UNCHANGED vars
      BY <2>2, <2>4 DEF vars
    <2> QED
      BY <2>1, <2>3, <2>4, ProduceDelivers, WorkDelivers DEF QueueNext
  <1>3. DeliverInv => Delivered
    BY DEF DeliverInv
  <1> QED
    BY <1>1, <1>2, <1>3, PTL DEF QueueSpec, QueueSafeSpec
=============================================================================
