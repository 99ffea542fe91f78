------------------------------ MODULE InputChip ------------------------------
(***************************************************************************)
(* An input chip of driver/core/cavan_input_core.c: devices that are       *)
(* enabled, calibrated and removed, power and activity of the chip, and    *)
(* the interrupt and the poll thread (InputThread), which run while a      *)
(* device of their list is enabled.  Everything a caller does to the chip  *)
(* is under chip->lock, with three exceptions the threads are exposed to:  *)
(* the firmware upgrade suspends them before it takes the lock, a removal  *)
(* stops them without it, and a recovery, which runs in a thread's event   *)
(* handler, only tries to take it and goes on in any case.                 *)
(*                                                                         *)
(* Left out: set_delay and chip->dead, which only decide how often the     *)
(* poll thread looks, and the drivers with an event_handler_isr of their   *)
(* own, which handle events without the list's lock.                       *)
(***************************************************************************)
EXTENDS InputThread, FiniteSets

CONSTANTS
    Devices,
    Irq,          \* the devices with use_irq
    Users,        \* tasks that call into the core
    Remover,      \* the task that unbinds the driver
    Nobody,
    MaxCalls      \* bound: operations the users start

Callers == Users \cup {Remover}

ASSUME InputAssumption ==
    /\ Irq \subseteq Devices
    /\ Kinds = {"isr", "poll"}
    /\ Remover \notin Users /\ Nobody \notin Callers \cup Kinds
    /\ Callers \cap Kinds = {}
    /\ MaxCalls \in Nat

VARIABLES
    chip,         \* [powered, actived]: the chip's two flags
    chipLock,     \* the holder of chip->lock
    devLock,      \* the holder of each dev->lock
    lists,        \* chip->isr_list and chip->poll_list
    registered,   \* the devices that are not unregistered
    call,         \* each caller: where it is, in which operation, on which device
    removed,      \* cavan_input_chip_remove has returned
    astray,       \* history: chip->actived was changed behind the lists' back
    cut,          \* history: power was switched off on an active chip
    calls,        \* bound: operations started so far
    crashed       \* history: a device was used after its unregistration, or a thread
                  \* woken after it had left; the model ends there

chipVars == <<chip, chipLock, devLock, lists, registered, removed, astray, cut, crashed>>
inputVars == <<threadVars, chipVars, call, calls>>

KindOf(d) == IF d \in Irq THEN "isr" ELSE "poll"
enabled == lists["isr"] \cup lists["poll"]
Idle == [pc |-> "idle", op |-> "none", dev |-> Nobody, saved |-> FALSE]

InputTypeOK ==
    /\ ThreadTypeOK
    /\ chip \in [powered : BOOLEAN, actived : BOOLEAN]
    /\ chipLock \in Callers \cup Kinds \cup {Nobody}
    /\ devLock \in [Devices -> Callers \cup {Nobody}]
    /\ lists \in [Kinds -> SUBSET Devices]
    /\ registered \subseteq Devices
    /\ DOMAIN call = Callers
    /\ {removed, astray, cut, crashed} \subseteq BOOLEAN
    /\ calls \in 0..MaxCalls

\* cavan_input_chip_init and cavan_input_device_register of every device.
InputInit ==
    /\ ThreadsInit
    /\ chip = [powered |-> FALSE, actived |-> FALSE]
    /\ chipLock = Nobody
    /\ devLock = [d \in Devices |-> Nobody]
    /\ lists = [k \in Kinds |-> {}]
    /\ registered = Devices
    /\ call = [u \in Callers |-> Idle]
    /\ removed = FALSE /\ astray = FALSE /\ cut = FALSE /\ calls = 0 /\ crashed = FALSE

-----------------------------------------------------------------------------
(* Power and activity: what the calls can make of the flags.                  *)

\* cavan_input_chip_set_power_locked; switching on may fail.
SetPower(c, on) ==
    CASE c.powered = on -> {c}
      [] c.powered # on /\ on -> {c, [c EXCEPT !.powered = TRUE]}
      [] OTHER -> {[c EXCEPT !.powered = FALSE]}

\* cavan_input_chip_set_active_locked; activation may fail, which leaves the power off.
SetActive(c, on) ==
    LET Both(b) == [c EXCEPT !.powered = b, !.actived = b] IN
    CASE c.actived = on -> {c}
      [] c.actived # on /\ on -> {Both(b) : b \in BOOLEAN}
      [] OTHER -> {Both(FALSE)}

Dark(c) == c.actived /\ ~c.powered

-----------------------------------------------------------------------------
(* A caller's way through an operation.                                       *)

At(u, l) == call[u].pc = l
Step(u, l) == call' = [call EXCEPT ![u].pc = l]

\* Both locks are released and the operation is over.
Return(u) ==
    /\ call' = [call EXCEPT ![u] = Idle]
    /\ chipLock' = IF chipLock = u THEN Nobody ELSE chipLock
    /\ devLock' = [d \in Devices |-> IF devLock[d] = u THEN Nobody ELSE devLock[d]]

\* What a caller does once set_enable_locked has returned 0.
SetEnableReturns(u) ==
    CASE call[u].op \in {"enable", "disable"} -> Return(u)
      [] call[u].op = "calibrate" -> Step(u, "calibrate") /\ UNCHANGED <<chipLock, devLock>>
      [] call[u].op = "remove" -> Step(u, "unlink") /\ UNCHANGED <<chipLock, devLock>>

\* What a caller does once update_thread_state has returned.
UpdateReturns(u) ==
    CASE call[u].op = "firmware" -> Step(u, "restore") /\ UNCHANGED <<chipLock, devLock>>
      [] call[u].op = "offset" -> Return(u)
      [] OTHER -> SetEnableReturns(u)

\* cavan_input_device_set_enable and cavan_input_device_calibration.
DeviceCall(u) ==
    \E d \in registered, op \in {"enable", "disable", "calibrate"} :
        /\ At(u, "idle")
        /\ call' = [call EXCEPT ![u] = [Idle EXCEPT !.pc = "dev", !.op = op, !.dev = d]]
        /\ UNCHANGED <<threadVars, chipVars>>

\* mutex_lock(&dev->lock), dev->lock before chip->lock.
LockDev(u) ==
    LET d == call[u].dev IN
    /\ At(u, "dev") /\ devLock[d] = Nobody /\ d \in registered
    /\ devLock' = [devLock EXCEPT ![d] = u]
    /\ Step(u, "chip")
    /\ UNCHANGED <<threadVars, chip, chipLock, lists, registered, removed, astray, cut, crashed>>

\* The device is gone when its lock is free: the call works on freed memory.
LateCall(u) ==
    /\ At(u, "dev") /\ devLock[call[u].dev] = Nobody /\ call[u].dev \notin registered
    /\ crashed' = TRUE
    /\ Return(u)
    /\ UNCHANGED <<threadVars, chip, lists, registered, removed, astray, cut>>

LockChip(u) ==
    /\ At(u, "chip") /\ chipLock = Nobody
    /\ chipLock' = u
    /\ Step(u, CASE call[u].op = "firmware" -> "power" [] OTHER -> "set")
    /\ UNCHANGED <<threadVars, chip, devLock, lists, registered, removed, astray, cut, crashed>>

-----------------------------------------------------------------------------
(* cavan_input_device_set_enable_locked.                                      *)

Wanted(u) == call[u].op \in {"enable", "calibrate"}

SetNothing(u) ==
    /\ At(u, "set") /\ (call[u].dev \in enabled) = Wanted(u)
    /\ SetEnableReturns(u)
    /\ UNCHANGED <<threadVars, chip, lists, registered, removed, astray, cut, crashed>>

\* set_active_locked fails and with it the call.
SetFails(u) ==
    /\ At(u, "set") /\ Wanted(u) /\ call[u].dev \notin enabled
    /\ \E c \in SetActive(chip, TRUE) : ~c.actived /\ chip' = c
    /\ Return(u)
    /\ UNCHANGED <<threadVars, lists, registered, removed, astray, cut, crashed>>

\* The chip is active; dev->set_enable succeeds, or fails and no list changes.
SetOn(u) ==
    /\ At(u, "set") /\ Wanted(u) /\ call[u].dev \notin enabled
    /\ \E c \in SetActive(chip, TRUE) : c.actived /\ chip' = c
    /\ \/ Step(u, "list")
       \/ call' = [call EXCEPT ![u].pc = "isr", ![u].op = "enable"]
    /\ UNCHANGED <<threadVars, chipLock, devLock, lists, registered, removed, astray, cut, crashed>>

SetOff(u) ==
    /\ At(u, "set") /\ ~Wanted(u) /\ call[u].dev \in enabled
    /\ Step(u, "list")
    /\ UNCHANGED <<threadVars, chipVars>>

\* The lock of a list is held by its thread while it reports events.
ListLocked(k) == tpc[k] \in {"event", "recover"}

MoveDevice(u) ==
    LET d == call[u].dev
        k == KindOf(d) IN
    /\ At(u, "list") /\ ~ListLocked(k)
    /\ lists' = [lists EXCEPT ![k] = IF Wanted(u) THEN @ \cup {d} ELSE @ \ {d}]
    /\ Step(u, "isr")
    /\ UNCHANGED <<threadVars, chip, chipLock, devLock, registered, removed, astray, cut, crashed>>

\* One half of cavan_input_chip_update_thread_state.
UpdateThread(u, k) ==
    /\ At(u, k)
    /\ \/ lists[k] = {} /\ ~ListLocked(k) /\ Suspend({k})
       \/ lists[k] # {} /\ Resume(k)
    /\ Step(u, IF k = "isr" THEN "poll" ELSE "active")
    /\ UNCHANGED chipVars

\* Its end: set_active_locked(count > 0).
UpdateActive(u) ==
    /\ At(u, "active")
    /\ chip' \in SetActive(chip, enabled # {})
    /\ astray' = (chip'.actived # (enabled # {}))
    /\ UpdateReturns(u)
    /\ UNCHANGED <<threadVars, lists, registered, removed, cut, crashed>>

\* Both threads are suspended for dev->calibration, and the states updated after it.
Calibrate(u) ==
    /\ At(u, "calibrate")
    /\ Suspend(Kinds)
    /\ call' = [call EXCEPT ![u].pc = "isr", ![u].op = "offset"]
    /\ UNCHANGED chipVars

-----------------------------------------------------------------------------
(* The chip's own operations.                                                 *)

\* cavan_input_chip_attr_enable_store; a removal takes the attribute away first.
PowerStore(u) ==
    /\ At(u, "idle") /\ chipLock = Nobody /\ ~removed /\ At(Remover, "idle")
    /\ \E on \in BOOLEAN : chip' \in SetPower(chip, on)
    /\ cut' = Dark(chip')
    /\ UNCHANGED <<threadVars, chipLock, devLock, lists, registered, call, removed, astray, crashed>>

\* cavan_input_chip_firmware_upgrade_handler, through a descriptor that may outlive the
\* misc device: the threads are suspended without the lock, in two writes nobody can tell
\* from one.
Upgrade(u) ==
    /\ At(u, "idle") /\ ~removed
    /\ Suspend(Kinds)
    /\ call' = [call EXCEPT ![u] = [Idle EXCEPT !.pc = "chip", !.op = "firmware"]]
    /\ UNCHANGED chipVars

\* The flag is saved, the power switched on and the firmware written, or not.
UpgradePower(u) ==
    /\ At(u, "power")
    /\ chip' \in SetPower(chip, TRUE)
    /\ cut' = Dark(chip')
    /\ call' = [call EXCEPT ![u].pc = "isr", ![u].saved = chip.powered]
    /\ UNCHANGED <<threadVars, chipLock, devLock, lists, registered, removed, astray, crashed>>

UpgradeRestore(u) ==
    /\ At(u, "restore")
    /\ chip' \in SetPower(chip, call[u].saved)
    /\ cut' = Dark(chip')
    /\ Return(u)
    /\ UNCHANGED <<threadVars, lists, registered, removed, astray, crashed>>

-----------------------------------------------------------------------------
(* Recovery and errors, in a thread's event handler.                          *)

\* cavan_input_chip_recovery after enough failed reads: trylock and set_active_locked(false).
RecoverOff(k) ==
    /\ tpc[k] = "event" /\ lists[k] # {}
    /\ Goto(k, "recover")
    /\ chipLock' = IF chipLock = Nobody THEN k ELSE chipLock
    /\ chip' \in SetActive(chip, FALSE)
    /\ astray' = (astray \/ chipLock # Nobody)
    /\ UNCHANGED <<state, task, signalled, lost, errored, unstopped>>
    /\ UNCHANGED <<devLock, lists, registered, call, removed, cut, crashed>>

\* cavan_input_chip_recovery_devices of both lists, set_active_locked(true) per device.
RecoverOn(k) ==
    /\ tpc[k] = "recover"
    /\ \E next \in {"wait", "error"} : Goto(k, next)
    /\ chip' \in IF enabled = {} THEN {chip} ELSE SetActive(chip, TRUE)
    /\ astray' = (astray \/ chipLock # k \/ (enabled # {} /\ ~chip'.actived))
    /\ chipLock' = IF chipLock = k THEN Nobody ELSE chipLock
    /\ UNCHANGED <<state, task, signalled, lost, errored, unstopped>>
    /\ UNCHANGED <<devLock, lists, registered, call, removed, cut, crashed>>

\* cavan_input_chip_error_handler needs chip->lock while the thread holds its own.
ErrorHandler(k) ==
    /\ chipLock = Nobody
    /\ ErrorHandled(k)
    /\ UNCHANGED <<chipVars, call>>

Worker(k) ==
    /\ \/ Sleep(k) \/ Proceed(k) \/ Leave(k) \/ Enter(k) \/ EventDone(k)
       \/ lists[k] # {} /\ EventFails(k)
       \/ k \in signalled /\ WaitReturn(k)
    /\ UNCHANGED <<chipVars, call>>

\* An interrupt, or the poll interval; neither needs to come.
Event(k) == WaitReturn(k) /\ UNCHANGED <<chipVars, call>>

-----------------------------------------------------------------------------
(* Removal: chip->remove unregisters the devices, then                        *)
(* cavan_input_chip_remove stops the threads.                                 *)

RemoveStart(u) ==
    /\ u = Remover /\ At(u, "idle") /\ ~removed
    /\ call' = [call EXCEPT ![u] = [Idle EXCEPT !.pc = "next", !.op = "remove"]]
    /\ UNCHANGED <<threadVars, chipVars>>

\* cavan_input_device_unregister: chip->lock before dev->lock.
UnregisterLock(u) ==
    \E d \in registered :
        /\ At(u, "next") /\ chipLock = Nobody
        /\ chipLock' = u
        /\ call' = [call EXCEPT ![u].pc = "unregister", ![u].dev = d]
        /\ UNCHANGED <<threadVars, chip, devLock, lists, registered, removed, astray, cut, crashed>>

UnregisterDev(u) ==
    LET d == call[u].dev IN
    /\ At(u, "unregister") /\ devLock[d] = Nobody
    /\ devLock' = [devLock EXCEPT ![d] = u]
    /\ Step(u, "set")
    /\ UNCHANGED <<threadVars, chip, chipLock, lists, registered, removed, astray, cut, crashed>>

\* list_del, both unlocks and cavan_input_device_remove.
Unlink(u) ==
    LET d == call[u].dev IN
    /\ At(u, "unlink")
    /\ registered' = registered \ {d}
    /\ devLock' = [devLock EXCEPT ![d] = Nobody]
    /\ chipLock' = Nobody
    /\ call' = [call EXCEPT ![u].pc = IF registered' = {} THEN "stop" ELSE "next",
                            ![u].dev = IF registered' = {} THEN "poll" ELSE Nobody]
    /\ UNCHANGED <<threadVars, chip, lists, removed, astray, cut, crashed>>

\* cavan_input_thread_stop of the poll thread, then of the interrupt thread.
StopThread(u) ==
    /\ At(u, "stop")
    /\ StopAsk(call[u].dev)
    /\ Step(u, "look")
    /\ UNCHANGED chipVars

StopLoop(u) ==
    /\ At(u, "look") /\ ~Locked(call[u].dev) /\ state[call[u].dev] # "stopped"
    /\ IF call[u].dev = "isr" THEN StopSignal("isr") ELSE UNCHANGED threadVars
    /\ Step(u, "wake")
    /\ UNCHANGED chipVars

StopWakes(u) ==
    /\ At(u, "wake")
    /\ StopWake(call[u].dev)
    /\ Step(u, "look")
    /\ UNCHANGED chipVars

\* The thread has left between thread->stop and the wake-up.
StopWakesNull(u) ==
    /\ At(u, "wake") /\ call[u].dev \notin task
    /\ crashed' = TRUE
    /\ Step(u, "crashed")
    /\ UNCHANGED <<threadVars, chip, chipLock, devLock, lists, registered, removed, astray, cut>>

StopReturns(u) ==
    /\ At(u, "look") /\ ~Locked(call[u].dev) /\ state[call[u].dev] = "stopped"
    /\ call' = IF call[u].dev = "poll" THEN [call EXCEPT ![u].pc = "stop", ![u].dev = "isr"]
                                       ELSE [call EXCEPT ![u].pc = "off"]
    /\ UNCHANGED <<threadVars, chipVars>>

\* cavan_input_chip_set_active(chip, false).
RemoveEnd(u) ==
    /\ At(u, "off") /\ chipLock = Nobody
    /\ chip' \in SetActive(chip, FALSE)
    /\ astray' = FALSE
    /\ removed' = TRUE
    /\ Return(u)
    /\ UNCHANGED <<threadVars, lists, registered, cut, crashed>>

-----------------------------------------------------------------------------
CallStart(u) ==
    /\ ~crashed
    /\ \/ /\ u \in Users /\ calls < MaxCalls /\ calls' = calls + 1
          /\ DeviceCall(u) \/ PowerStore(u) \/ Upgrade(u)
       \/ RemoveStart(u) /\ UNCHANGED calls

CallStep(u) ==
    /\ ~crashed /\ UNCHANGED calls
    /\ \/ LockDev(u) \/ LateCall(u) \/ LockChip(u)
       \/ SetNothing(u) \/ SetFails(u) \/ SetOn(u) \/ SetOff(u) \/ MoveDevice(u)
       \/ \E k \in Kinds : UpdateThread(u, k)
       \/ UpdateActive(u) \/ Calibrate(u)
       \/ UpgradePower(u) \/ UpgradeRestore(u)
       \/ UnregisterLock(u) \/ UnregisterDev(u) \/ Unlink(u)
       \/ StopThread(u) \/ StopLoop(u) \/ StopWakes(u) \/ StopWakesNull(u) \/ StopReturns(u)
       \/ RemoveEnd(u)

WorkerStep(k) ==
    /\ ~crashed /\ UNCHANGED calls
    /\ Worker(k) \/ RecoverOff(k) \/ RecoverOn(k) \/ ErrorHandler(k)

EventStep(k) == ~crashed /\ Event(k) /\ UNCHANGED calls

InputNext ==
    \/ \E u \in Callers : CallStart(u) \/ CallStep(u)
    \/ \E k \in Kinds : WorkerStep(k) \/ EventStep(k)

\* Kernel mutexes do not starve a waiter, the scheduler runs every task, and an event
\* handler returns; interrupts and new calls need not come.
InputSpec ==
    /\ InputInit /\ [][InputNext]_inputVars
    /\ \A u \in Callers : SF_inputVars(CallStep(u))
    /\ \A k \in Kinds : WF_inputVars(WorkerStep(k))

-----------------------------------------------------------------------------
(* Properties.                                                                *)

Upgrading == \E u \in Users : call[u].op = "firmware"
Removing == removed \/ call[Remover].pc \in {"stop", "look", "wake", "off"}

\* Whenever chip->lock is free, what update_thread_state is for holds: a thread runs, and
\* is not asleep, exactly while its list has a device, and the chip is active and powered
\* exactly while some list has one.  Exceptions of the code: an upgrade suspends before it
\* takes the lock; a thread that saw 20 errors suspended itself; a suspend that fell
\* between the thread's test and its write of RUNNING is lost; a recovery without the lock
\* or a failed activation leaves the chip's flag behind; power cut by attr_enable_store or
\* by the upgrade's restore.
ThreadsFollowLists ==
    chipLock = Nobody /\ ~Removing =>
        /\ \A k \in Kinds :
            /\ lists[k] # {} => \/ state[k] = "running" /\ tpc[k] # "asleep"
                                \/ k \in errored \/ Upgrading
            /\ lists[k] = {} => state[k] # "running" \/ k \in lost
        /\ chip.actived # (enabled # {}) => astray
        /\ Dark(chip) => cut

\* Two lock orders that meet: a thread that holds its lock and reports its errors under
\* chip->lock, against a caller that resumes it under chip->lock; and
\* device_unregister, which takes dev->lock after chip->lock, against every call on the
\* device, which takes them the other way round.
Embraced ==
    \/ \E k \in Kinds, u \in Callers :
        tpc[k] = "error" /\ chipLock = u /\ At(u, k) /\ lists[k] # {}
    \/ \E u \in Users : At(Remover, "unregister") /\ devLock[call[Remover].dev] = u

\* Every call into the core returns, the removal with its two thread stops included,
\* unless two lock orders met, a suspend has overwritten the STOPPING that the stop loop
\* sets once, or the loop woke a thread that had already left.
CallsReturn ==
    \A u \in Callers : ~At(u, "idle") ~> (At(u, "idle") \/ Embraced \/ crashed \/ unstopped # {})
=============================================================================
