# Cavan: a TLA+ verification of its concurrent core

Cavan is a C library (`src/lib`, `src/include/cavan`) with command-line tools,
servers, kernel drivers and Android applications on top. Most of it is
sequential I/O. What is hard to get right, and hard to test, is a small core: a
worker thread that others suspend, resume, stop and kill; the queue, the timers
and the alarms that run on that worker; pools of daemon threads; a ring buffer
shared by a reader and a writer; packet protocols over links that lose, repeat
and reorder; and the kernel threads of the input drivers. This project models
that core.

## 1. Inventory

| Component | Source | State | Operations | Interacts with |
|---|---|---|---|---|
| worker thread | `lib/thread.c`, `include/cavan/thread.h` | `state`, `pending`, pipe, `wake_handker`, under `thread->lock` | init, start, suspend, resume, wakeup, should_stop, stop, deinit; main loop; sleep_until, wait_event, send/recv_event by the handler | queue, timer, alarm run on it |
| data queue | `lib/queue.c`, `lib/pool.c` | list of nodes, pool of nodes, each with its own lock | get_node, append, worker handler, start, stop, deinit | resumes its worker |
| linked lists | `lib/list.c` | doubly linked list under `link->lock` | append, push, pop, remove, sorted insert | queue, pool, timers |
| ring cache | `lib/cache.c` | `head`, `tail`, bytes, `closed`, two conditions under `cache->lock` | write, read, fill, read_line, open, close | reader and writer threads |
| timer service | `lib/timer.c` | sorted list under `service->lock`, waiting and running timer | insert, remove, worker handler, start, stop | its worker |
| alarm | `lib/alarm.c`, `lib/tcp_dd.c` | sorted alarms under the alarm thread's lock, the interval timer | insert, delete, worker handler, SIGALRM; add and remove by the TCP server | its worker, the clock, the server's daemons |
| dynamic service | `lib/service.c` | `count`, `used`, `state`, `stopping` under `service->lock` | start, daemon loop, join, stop by name, destroy | the servers' callbacks |
| epoll service | `lib/service.c` | queue of clients, each client's `events` and write list | post events, poll, read, write, requeue, drop | epoll, clients |
| UDP link | `lib/udp.c` | windows of sent and received packs, sequence numbers; handshake state | connect, send, receive, flush, resend, acknowledge | lossy network |
| JWP protocol | `lib/jwp.c`, `include/cavan/jwp.h` | indices of both directions, the pending package | send, sync, receive, acknowledge, retry, give up | serial line |
| TFTP transfer | `lib/tftp.c`, `app/tftp_dd_server.c`, `sendto_select` of `lib/network.c` | block number, file, retries of each side | send a file, receive a file, the server's loop | lossy network, file |
| kernel input core | `driver/core/cavan_input_core.c`, `driver/core/cavan_thread.c` | thread states, device lists, `powered`, `actived`, under `chip->lock`, `dev->lock`, `thread->lock`, `list->lock` | enable, disable, calibrate, power, firmware upgrade, recovery, error, remove | chip drivers' callbacks |
| bridges, multiplexer | `lib/net_bridge.c`, `lib/mux.c` | ports, link tables | register, forward | sockets |
| other servers, clients | `lib/tcp_dd.c`, `lib/ftp.c`, `lib/http.c`, `lib/role_change.c` | connection | request and reply | sockets, files |
| input, display, text, maths | `lib/input.c`, `lib/window.c`, `lib/text.c`, ... | | | devices, files |
| chip drivers, C++ library, applications | `driver/`, `cpp/`, `android/`, `java/` | | | |

The hard behaviours are interleavings of several locks, values used after the
lock that protected them was released, signals that go to nobody or to the
wrong waiter, a stop that retries and finally kills, lock orders that meet,
packets that are lost, repeated or late, retries of what was already done, and
numbers that wrap. `PROJECT.json` lists each at its line under "hazards", with
the properties that would catch it.

What makes each component correct:

* worker thread: no wake-up is lost, and a stop ends and leaves no worker;
* data queue: each appended item is handled once, in order, from a node nobody
  else holds, and the worker never sleeps on a non-empty list;
* ring cache: it is a bounded byte stream, and nobody sleeps on bytes or room
  that are there, or on a closed cache;
* timer service: the list is sorted, the worker sleeps for the first timer and
  never longer, a timer fires, a stop ends;
* alarm: a listed alarm is live memory, it is run, and requests return;
* dynamic service: a running service has an acceptor, the pool keeps its bound,
  a stop ends in a destroyed service nobody uses;
* epoll service: a client is polled by one daemon, and no event, reply or queued
  client is left behind;
* UDP link: the messages arrive once and in order; both sides agree on who is
  connected;
* JWP: a send that returns true arrived, once and in order, and every send
  returns;
* TFTP: a block lands in its place, success means a whole copy, calls return;
* kernel input core: threads and chip follow the enabled devices, and calls
  return.

## 2. Modules

| Module | What it is |
|---|---|
| `CavanThread` | the worker of `lib/thread.c` and every call on it |
| `CavanDataQueue` | `cavan_data_queue` with its pool; extends `CavanThread`: its handler is the worker's handler |
| `CavanDataQueueProofs` | the worker thread's invariant; the covering, ownership and order invariants of the queue |
| `ByteStream` | the abstract specification of the ring: a bounded stream of bytes |
| `CavanCache` | the ring of `lib/cache.c`; `RefinesStream` states that it implements `ByteStream` |
| `TimedList` | what the timers and the alarms share: a worker that serves a sorted list; extends `CavanThread` |
| `CavanTimer` | the timer service of `lib/timer.c`; extends `TimedList` |
| `CavanAlarm` | the alarm thread with the alarms of the TCP server; extends `TimedList` |
| `TimedListProofs` | the sorted list, what the timer worker rests for, the memory of the alarms |
| `DynamicService` | the daemons, owner and stoppers of a dynamic service |
| `DynamicServiceProofs` | the counters, the acceptor, the bound and the join |
| `EpollService` | the epoll service's queue, clients and daemons |
| `EpollServiceProofs` | queue, daemons, events and replies of the epoll service |
| `UdpNet` | the network both UDP modules use |
| `MessageChannel` | the abstract specification of the UDP link: messages arrive once and in order |
| `UdpLink` | an established link; `InOrder` states that it implements `MessageChannel` |
| `UdpHandshake` | how links are set up |
| `UdpProofs` | agreement of the two sides of a handshake; the windows of an established link, its refinement of `MessageChannel` and what an acknowledgement means |
| `JwpLink` | both ends of a JWP line |
| `JwpLinkProofs` | order and arrival of JWP messages |
| `TftpNet` | what both directions of TFTP share: datagrams, resending, giving up |
| `TftpUpload`, `TftpDownload` | the two directions, each with its client and its server side |
| `TftpTransfer` | composes them: a request of either kind and what the server starts for it |
| `TftpTransferProofs` | the invariants of both directions, and theorems |
| `InputThread` | the kernel thread of `driver/core/cavan_thread.c` |
| `InputChip` | an input chip with two such threads, its devices and its callers; extends `InputThread` |
| `CacheInputProofs` | two independent parts: the ring's refinement and waits; the input chip's invariant |
| `MC*` | the instances TLC checks; constants are in the `.cfg` files |

A definition that differs from its neighbour by a dropped guard or a missing
signal (`ResumeNoSignal`, `InsertAppend`, ...) is a mutant: a plausible bug of
the definition after it, kept to show that the properties notice it. The
specifications do not use mutants. Each module also defines its types
(`...TypeOK`). They are theorems for the worker, the ring, both services, the
handshake, JWP and TFTP; elsewhere the inductive invariant carries the types its
proof uses, and `...TypeOK` is there for the reader.

### CavanThread

One action is one critical section of `thread->lock`. The places where the code
lets go of the lock are between actions: the handler call, `pthread_cond_wait`,
`pthread_cond_timedwait`, the epoll wait and the sleep inside
`cavan_thread_stop`. `state`, `pending` and `piped` are the fields of the
structure; `wpc` says where the worker is, `signalled` whether its current
condition wait has been signalled; `cpc` and `tries` are the position and the
loop counter of each controller inside `cavan_thread_stop`. A condition wait may
return unsignalled (spuriously, or by timeout) at any time. The handler is any
sequence of the calls a handler may make, and it may fail or never return.
`pending` starts with any value because `cavan_thread_init` leaves it unset and
only the main loop clears it. `raced` and `asked` are history variables for the
two exceptions the code has (section 5).

### CavanDataQueue

The producers' `get_node`, `append` and resume are three steps under three
locks. The handler's pop, the user's handler, the free and the self-suspension
are four. A node carries its message (`body`), so a recycled node that is still
in use overwrites what it holds. `appended` and `handled` are history. A `malloc`
that fails drops the message and changes nothing.

### CavanCache and ByteStream

`head` and `tail` are offsets, and the four comparisons by which the code
computes free and used space, contiguous room and the split of a copy at
`mem_end` are kept (`FreeRight`, `FreeSpace`, `UsedRight`, `UsedSpace`,
`CopyIn`, `CopyOut`, `Advance`). `Contents`, used by the refinement mapping, reads
the ring by distance modulo its size instead. `ByteStream` takes the bytes the
writers offer (the caller's buffers, `wbuf`) in at one end and delivers them at
the other, so the refinement fails when a byte is lost, repeated, reordered or
overwritten on its way through the ring. The lock is held from a call to
its return or to its wait, so that stretch is one action; the broadcasts of
`cavan_cache_close` happen after its unlock and are separate. `rcall` is the
reader's call, a plain read or one turn of the loops of `cavan_cache_fill` and
`cavan_cache_read_line`.

### TimedList, CavanTimer and CavanAlarm

`link` is the sorted list, `hpc` the position in the worker's handler. The timer
worker's delay is computed under `service->lock`; `MSleep` adds it to the clock
later, when `cavan_thread_msleep` runs, so a slow worker sleeps longer than
planned, as in the code. `cavan_timer_service_stop` keeps the lock (`slock`)
during the whole of `cavan_thread_stop`. The alarm worker does not sleep: it arms
`alarm()` for the first alarm, suspends itself, and the SIGALRM handler resumes
it. It holds the alarm thread's lock through an alarm's own handler. The server's
`tcp_alarm_remove` finds a node under the list's lock and deletes it later;
`dangling` and `stale` record what happens to it in between. The SIGALRM handler
runs on whichever thread the kernel picks and takes `thread->lock`
(`cavan_alarm_sighandler`); when that thread is inside a section of the same lock it
waits for itself (`SigalrmTraps`), and from then on nobody gets that lock (`trapped`).

### DynamicService and EpollService

Every action is one critical section of `service->lock`. In `DynamicService`
`count` and `used` are the service's counters, `dpc` the daemons, `opc` the owner
in start, join and destroy, `spc` the stoppers; `odd` collects the exceptions
that have happened (a burst, a stolen signal, a late thread, a cleared flag).
In `EpollService` `place` is what the code reads off `client->poll_next`: idle,
queued, being polled, removed. `flagged` and `out` are the bits of
`client->events`; `readable`, `blocked` and `edge` are the socket's two directions and
the edge-triggered event that `epoll_wait` has not returned yet. The daemon's store of
the events it has cleared is a step of its own (`Storing`), so an event posted in
between may be undone (`lost`). `muted` records a pack queued while EPOLLOUT is
cleared. Packs are queued by the daemon that polls the client, from `on_received`:
nothing else in the repository calls `cavan_epoll_client_send_pack`.

### UdpLink and UdpHandshake

Both ends run the same code on `link[e]`. Sequence numbers are modulo `Mod`
instead of 2^16, with the same comparisons around the wrap. A network that keeps
a pack for half a round of numbers is outside the protocol; the model has no
clock, so `UdpAssumption` ends a run before its numbers are half way round,
wherever it starts. The WIND pack that announces a window travels through the
receiver's own send window. `overrun` records a resend of a pack at or past the
receiver's limit, `setback` a limit replaced by an earlier one (section 5). In the
handshake each server link is one identity; a SYNC allocates the next. A connect
whose wait has timed out lets go of the link's lock before it frees the link: the
place between the two is `late`, in which an answer is still taken and confirmed.

### JwpLink

Stop-and-wait per end, with the index modulo `Mod`, `Tries` sends of a package,
and SYNC, which resets the sender's indices at once and the peer's when it
arrives. The line keeps its order and drops any package; a line that is full takes
nothing, and the writer tries again (`Room`).

At each end two threads fill the receiver and process what is in it, the loop
thread and the sender between its polls (`Fillers`). `receiver->lock` is free while
a package is processed, and both use the one `rx_pkg`. It is the first element of the
line as long as a thread reads it. `at` says where each thread is in
`jwp_process_package`: before it compares the index, before it stores `rx_index` (with
`jwp->lock` held), before it acknowledges. Each of the three reads the header again. A
thread that fills meanwhile replaces the package (`Fill`) or its header only
(`FillPart`), and `odd` records "overwritten". The other two values of `odd` are a
package given up whose copy may have arrived and a SYNC that met something in flight.

### TftpNet, TftpUpload, TftpDownload, TftpTransfer

Block k of a file is the number k and block numbers are modulo `Mod`, except
where the code compares an `int`, which does not wrap: that difference is kept.
A datagram that is lost is one that is never received, so the network is a set;
`dup` chooses a network that also delivers datagrams again. Files with at least
`Mod` blocks are only sent over that one, because the property that needs the
other is about shorter files. Every copy of a request that reaches the server
starts a handler of its own. A socket may fail at any time (`ClientFails`,
`HandlerFails`). An upload whose `recvfrom` fails returns 0 (`ClientRecvFails`, the
place "cut"), and one without data returns 0 before it asks the server for anything
("nothing"); neither counts as "done".

### InputThread and InputChip

The worker's place says which locks it holds: its own while it tests its state,
handles an event or reports errors, its list's while it handles an event. Callers
hold a thread's lock for a single step. `call[u]` is a caller's position in one of
the operations; `chip->lock` and `dev->lock` are variables. A suspend writes the
state whether or not it gets the lock. A recovery is two steps of a worker,
with or without `chip->lock`. How often an event must fail before a thread gives
up (20) or recovers (6) is left out: it may happen at any failed event. `lost`,
`errored`, `unstopped`, `astray`, `cut` and `crashed` are history.

## 3. Runs

| Run | Instance | What it shows |
|---|---|---|
| `thread` | 2 controllers, a stop loop of 2 passes, a pipe of 2 events | `NoLostWakeup`, `EventNotLost`, `StopIsFinal`, `StopEndsWorker` |
| `data_queue` | 2 producers of 2 items, 1 pool node, 1 heap node, 1 controller | `NoForgottenItem`, `NodeOwned`, `Delivered`, `ItemHandled` |
| `cache` | ring of 3 (holds 2), 2 byte values, calls of up to 3 bytes, reserved up to 1 | `RefinesStream`, `NobodyForgotten`, `NotAllAsleep` |
| `timer` | 2 timers, 3 client calls, a clock of 2 ticks | `SortedOnce`, `RestsForFirst`, `TimerFires`, `ServiceStops` |
| `service` | 3 threads for a pool of 1 to 2, sync or async owner, 2 stoppers | `AcceptorAvailable`, `DaemonsBounded`, `JoinedQuiet`, `StoppedIsDestroyed` |
| `epoll` | 2 clients, 3 threads for a pool of 1 to 2 | `PolledOnce`, `QueueAttended`, `NoForgottenClient`, `ReplyNotStranded` |
| `udp` | windows of 3, congestion window up to 2, numbers modulo 24 from 23, 4 messages, 2 packs on the network | `InOrder`, `AckedArrived`, `SenderNotForgotten` |
| `handshake` | 2 clients, 2 server links, 2 packs on the network | `PairedOnce`, `FailedIsAlone`, `NotHalfOpen` |
| `jwp` | 3 messages, up to 3 from one end, 1 SYNC, indices modulo 3, 2 tries, lines of 1 besides `rx_pkg`, odd events within the first 2 messages | `AcceptedOnceInOrder`, `CompletedArrived`, `SendReturns` |
| `alarm` | 2 daemons, 2 nodes, 2 requests, a clock of 2 ticks, a manager that stops the thread | `ListedAlive`, `AlarmFires`, `RequestServed` |
| `tftp` | 0 to 4 blocks, numbers modulo 3, 2 sends, 2 handlers | `BlocksInPlace`, `TransferComplete`, `TransferReturns` |
| `input` | 1 interrupt and 1 polled device, 2 users with 2 calls, 1 removal | `ThreadsFollowLists`, `CallsReturn` |

Deadlock checking is off throughout: every one of these systems may stop (a
destroyed thread, a caller that calls nothing more), and the states in which it
must not stop are named by the properties instead. `epoll` uses the symmetry of
clients and of daemons; it checks invariants only.

Why the bounds are enough for the cases to happen:

* two controllers are what a stop racing a stop, a suspend racing a resume, or
  a stop racing a start need. Two passes of the stop loop let the worker
  overwrite `STOPPPING` and be asked again before it is killed. The theorems
  cover every other number;
* one pool node and one heap node with two producers make the pool run dry,
  make both kinds be recycled and make a third allocation fail;
* a call longer than the ring forces a writer to wait in the middle of a call
  and every offset of `head` and `tail` is reached, wrapped and not;
* with two timers and three calls a timer is inserted before the one slept
  for, moved, or removed, at each point of the handler, and with two ticks a
  handler can run late, sleep too long and return a new delay. `MaxTime` also
  bounds the deadlines: a timer that would lie beyond it is not inserted. The
  same holds of the alarms;
* three threads for a pool of two let a burst outgrow it, and two stoppers steal
  each other's signal;
* four messages through windows of three, starting one below the wrap, fill the
  window, wrap the number and reuse slots while old copies are under way. In
  this instance `AckedArrived` would hold without `setback`; with `WinSize` 2, `MaxSend` 0
  and `Starts` {21} it would not. That instance was checked too (2.8 million states);
* two server links for two clients are taken by two SYNCs, of one client or of
  both;
* three messages with an index modulo three wrap it, and two tries give every
  mix of lost package and lost acknowledgement. `MaxOdd` and `Beyond` cut off what
  follows an odd event: the calls under way end (`SendReturns`), no new ones, losses or
  overwritings are added. The safety properties claim nothing there. With `Beyond` TRUE,
  `MaxOdd` 3 and without the exception "overwritten" TLC finds both violated, so the
  exception is needed: an end acknowledges an index it has read again from an
  overwritten `rx_pkg`, and a send completes whose package never arrived;
* files of up to `Mod` + 1 blocks cross the wrap of the block number in both
  directions, and two handlers serve one request;
* two calls and a removal reach every exception `ThreadsFollowLists` and
  `CallsReturn` name: dropping any of them gives a counterexample on this
  instance. `ThreadsFollowLists` was also checked with three calls.

## 4. Fairness

Fairness is assumed only of what the scheduler and the clock do on their own.

* A runnable thread runs: `MainEntry`, a signalled condition wait, the next step
  of a `cavan_thread_stop`, the delivery of a signal, a producer between its append
  and its resume, a thread inside `cavan_cache_read` or `_write`, a daemon, a
  caller or a protocol end that is not blocked.
* A deadline passes: `SleepReturn`, `ReadTimeout`, `Wake` once the time has come,
  the resend timeouts of UDP handshake, JWP and TFTP.
* In the data queue, the timer service, the alarms and the input threads the
  user's handler returns; in `CavanThread` it need not, and stop must cope.
* The kernel's mutexes do not starve a waiter: the steps of a caller in `InputChip`
  are strongly fair.

Nothing is assumed of a network or a line: a datagram may never arrive. An
unsignalled wait without a deadline, an interrupt and a connection have no
fairness, so a lost signal is a liveness violation. Nobody is made to call
anything.

## 5. What the models say about the code

The properties hold. Their statements name the exceptions the code has:

* *Worker.* A `cavan_thread_stop` between `pthread_create` and the worker's first
  lock (`thread.c:374`) finds `IDLE`, sets `STOPPED` and returns; the main loop then
  sets `RUNNING` and the worker lives on (`raced`). `cavan_thread_should_stop` from
  another thread (`thread.h:98`) signals nobody: a suspended worker sleeps on
  (`asked`). Without `CAVAN_THREADF_PIPE_WAKEUP` a suspend and a resume during
  `cavan_thread_wait_event` leave the worker in its epoll wait.
* *Ring.* `NobodyForgotten` is stated for one reader and one writer. One signal per
  chunk wakes one reader, so with two the second may be left waiting although
  bytes are available. With `reserved` of size - 1 or more a reader and a writer
  can wait for each other; `CacheAssumption` excludes it.
* *Timers.* A timer whose handler returns a delay is linked again without being
  removed (`timer.c:258`). If a client inserted it while the handler ran its node is
  linked twice; the model records this (`relinked`) and makes no claim from there
  on. A remove during the handler is undone the same way.
  `cavan_timer_service_stop` waits for a worker that may be waiting for the lock it
  holds: `ServiceStops` shows that it ends, by the kill after the last try.
* *Alarms.* A remove looks a node up and deletes it in two critical sections
  (`tcp_dd.c:877`); in between it may run and be freed, or be deleted by another.
  A handler runs under the alarm thread's lock; a thread killed there keeps it. A
  SIGALRM that interrupts a thread inside a section of `thread->lock`, a mutex that is
  not recursive, waits for that thread for ever (`alarm.c:179`, `trapped`): no alarm
  fires any more, and if the thread is inside a client's resume the next request never
  returns.
* *Dynamic service.* A burst of connections starts daemons before the earlier ones
  have counted themselves, so more than max run. `service->cond` is signalled once
  for join and all stops: a stopper that takes the signal leaves join asleep. Join
  does not see a thread that has not counted itself. A second stop that finds the
  service stopping clears the first one's flag.
* *Epoll service.* The polling daemon clears `client->events` without the lock; an
  event posted just then is lost (`lost`) until the next one; this is so for EPOLLOUT
  (`service.c:1229`) as for EPOLLIN (`service.c:1240`). A poll with EPOLLOUT set and
  nothing to write clears EPOLLOUT before it reads, so the reply that `on_received` then
  queues posts nothing (`service.c:1381`) and waits for the client's next event
  (`muted`). It takes no second thread: a client that waits for the answer to its first
  request may wait for ever.
* *UDP.* A pack is resent because it is at the head of the window, whether or not
  it was ever flushed. After a premature resend and late acknowledgements it may
  lie at or past the receiver's limit (`overrun`). Beyond the receiver's window it
  is dropped and acknowledged, and the message is lost. At the limit it may be
  taken; the next limit can then be more than a window ahead, which across the
  wrap `cavan_udp_link_set_sequence` refuses as old (`udp.c:108`), and the limit that
  stays before the wrap no longer holds the flush back (`udp.c:219`). A late limit
  from before the wrap is taken for a newer one than the current limit beyond it
  (`udp.c:105`, `setback`), with the same end. What is delivered is a prefix of what
  was sent all the same: `InOrder` needs neither exception. A backlog
  whose window opens by an acknowledgement may wait for the next send
  (`udp.c:389`). A connect that is answered before it waits, or between its timeout and
  the free of its link (`udp.c:1002` to `1012`), fails while the server believes in the
  link (`missed`).
* *JWP.* A package given up after its copy arrived leaves its index to the next
  one, which the receiver takes for a duplicate and acknowledges. A SYNC while
  something is in flight renumbers one end before the other. A package processed by
  one thread is overwritten when the other fills the receiver (`jwp.c:963`). A line
  that takes nothing holds its writer for ever (`jwp.c:298`), and two ends that both
  have to acknowledge over full lines wait for each other; `SendReturns` is stated for
  lines that take a package now and then. One sender per end is modelled; with two,
  `send_pendding` is tested and set in two steps.
* *TFTP.* A repeated write request makes a second receiver truncate the file. A
  short write counts as the end of the file. An upload whose `recvfrom` fails returns 0
  (`tftp.c:537`: the `break` leads to `out_success`), with a copy of any length or none;
  an upload without data returns 0 and leaves the server's file as it was
  (`tftp.c:492`). From 65535 blocks on the server's
  `int` matches no u16 any more, and with one block more an upload's number is
  again 1. The last acknowledgements may all be lost: the sender then fails
  although the copy is whole. With repeated datagrams or two handlers, two stale
  numbers can keep each other busy for ever.
* *Input core.* A thread that fails 20 times takes `chip->lock` with its own lock
  held, while a caller resumes it under `chip->lock`: both wait for ever. The same
  between `cavan_input_device_unregister` and a call on that device, which take
  `chip->lock` and `dev->lock` in opposite orders. A suspend written without the
  lock is lost when it falls between the thread's test and its write of RUNNING,
  and ends a stop's chance to finish when it overwrites STOPPING. The stop loop
  wakes `thread->task` after it let go of the lock for the stop callback, when the
  thread may have left and set it to NULL. A recovery that does not get `chip->lock`
  changes the chip under its holder. An upgrade restores the power flag it saved
  even when the update in between has activated the chip.

## 6. Proofs

The theorems hold for every value of the constants that satisfies the module's
assumption. The assumptions say that bounds are natural numbers (positive where
the code has at least one), that pools of threads and nodes are finite, that
names which must differ differ, and:

* `CacheAssumption`: `reserved` is at most size - 2 (section 5);
* `ServiceAssumption`: 0 < min <= max, which `cavan_dynamic_service_start` insists on;
* `JwpAssumption`: more than two indices; `TftpAssumption`: more than one;
* `UdpAssumption`: windows of at least two packs, a modulus that the u8 window field's
  4 * `WinSize` divides, as in the code, and `3 * MaxMessages <= Mod - 4 * WinSize`: a run
  with its WIND packs stays below half a round of the numbers. For 2^16 numbers and
  the code's windows that is more than 21000 messages from any start; a longer life of
  a link is a sequence of such runs only if the network has forgotten the old packs;
* `InputAssumption`: the interrupt devices are among the devices, and users, the remover
  and the threads are different.

Every proof has the same shape: an inductive invariant, a lemma for the initial
states, one lemma per action or group of actions, and theorems that read the
property off. TLC checked the invariants on small instances before they were
proved.

**CavanDataQueueProofs, the worker.** `ThreadInv` is the conjunction of `TypeOK`, `NoLostWakeup`,
`EventNotLost` and two strengthenings: `TriesLeft` (a controller about to sleep
in stop has a try left, so the counter stays in bounds) and `StopInv`, which
`StopIsFinal` needs: a stopped controller means that the worker is out of the
way, `STOPPED` with a live worker means killed or raced, and a thread that was
never started has no worker. `NoLostWakeup` is
inductive only because a wait starts unsignalled in a state that is neither
`RUNNING` nor `STOPPPING`; `EventNotLost` only because the wake handler runs in the
same critical section as the change to `RUNNING`. Theorems: `ThreadInvariant`,
`TypeCorrect`, `WakeupsNotLost`, `EventsNotLost`, `StopFinal`.

**CavanDataQueueProofs, the queue.** `CoverInv` is `ItemCovered` with the facts about the
worker's position it needs: a worker in its condition wait has consumed no
pending resume, so "asleep on a non-empty list" reduces to "a producer is about
to resume". `OwnInv` is `NodeOwned` with the typing of nodes and lists; its proof
uses lemmas on the range and injectivity of `Append` and `Tail`. `Delivered` is then
inductive on top of `OwnInv`: a node's message can only be overwritten by the one
who owns the node. Theorems: `CoverInvariant`, `ItemsCovered`, `NoItemForgotten`,
`NodesOwned`, `ItemsDelivered`.

**CacheInputProofs, the ring.** The refinement rests on lemmas about the offsets: with `head`
and `tail` in the ring, the four comparisons of the code compute the distance
from `tail` to `head`, a copy split at `mem_end` writes the bytes that `Contents`
then reads by distance, and a copy out reads them. Each step of the cache is
then a step of `ByteStream` or a stutter (`StepRefines`). The waits need no history:
`ReaderRemembered` and `WriterRemembered` say of each waiting thread that its reason
still holds or that close has yet to broadcast to it. They are stated, like the
property, for one reader and one writer. Theorems: `CacheTypesInv`, `CacheTypes`,
`CacheRefinesStream`, `WaitersRemembered`, `SomebodyAwake`.

**DynamicServiceProofs.** `count` and `used` equal the cardinality of the daemons
in their loop and of those that serve; `AcceptorAvailable` and `DaemonsBounded` are
then inductive by counting. `JoinInv` follows the owner: a helper worker is there
only as long as a daemon that will stop it, a stop inside its wait is visible in
`stopping`, and after join nothing runs, each unless the exception it names has
happened. Theorems: `ServiceInvariant`, `ServiceTypes`, `AcceptorsAvailable`,
`PoolBounded`, `JoinLeavesQuiet`.

**EpollServiceProofs.** `PlaceInv` ties `place` to the queue (injective) and to the
daemons' jobs (disjoint), `CountInv` the counters to the daemons, `EventInv` says
where unread data is known, more strongly while a daemon is about to clear
`EPOLLIN`, `WriteInv` where a waiting pack is known: in `client->events`, in a daemon
that has yet to look, in the kernel, or in one of the two exceptions. Theorems: `EpollInvariant`,
`EpollTypes`, `PolledByOne`, `QueueNeverStranded`, `ClientsRemembered`, `RepliesWritten`.

**TimedListProofs.** Lemmas give the shape of the list after a sorted insert and a
removal at a place (`InsertAtShape`, `RemoveAtShape`, on top of the library's facts
about `SubSeq` and concatenation) and that the place found is the right one. `TimerInv`
adds to the types, `SortedOnce` and `RestsForFirst` one strengthening, `Resting`: a worker
suspends itself only over an empty list, sleeps only in the middle of its handler,
and its sleep is `SLEEP` until it is signalled or stopped. `AlarmInv` adds that an insert owns
the node it is about to link (`InsertOwned`), that a delete which found its node is
either still right or recorded as dangling (`DeleteFound`), and that a node is linked
once and not while it runs (`LinkedOnce`). Theorems: `TimerInvariant`, `TimersSorted`,
`WorkerRestsForFirst`, `AlarmInvariant`, `AlarmsAlive`.

**UdpProofs, the handshake.** What makes the pairing inductive is the meaning of the
packs under way: an ACK1 comes from the link allocated for its client, an ACK2 goes
to the link its client has chosen for good. A client past its wait that has chosen a
link was signalled too early or too late, so `missed` covers a failure. Theorems: `HandshakeInvariant`,
`HandshakeTypes`, `LinksPaired`, `FailureAgreed`.

**UdpProofs, the link.** Three layers.

* `LinkInv`: the types, the receive window in sequence, the head of the send window
  never empty, and a waiting sender marked in `full` (`WaitsMarked`), from which
  `SenderRemembered` follows.
* `FlowInv` introduces for each direction what the code has no variable for: the
  stream of all packs ever enqueued, as functions on natural numbers, with a count
  of the data among them (`Streams`, `Numbered`). Every pack in a window or on the
  network is a copy of the stream's pack at some place, with that place modulo `Mod` as
  its number (`SendFlow`, `RecvFlow`, `NetFlow`). A WIND is enqueued only after its
  receive window has filled and emptied below half, so one direction has at most half
  as many WINDs as the other has packs taken out (`Paced`); with `UdpAssumption` the streams stay
  below half a round and a number has only one place (`StreamsShort`). Then a receiver
  that takes a pack by its number takes the right one, and `MessagesInOrder` follows:
  the refinement of `MessageChannel`, with no exception.
* `Near`, for `AcknowledgedArrived`, holds while neither exception has happened. The
  next pack to flush is place R of the stream and the limit is place M with R <= M <=
  (places returned) + `WinSize` (`Placed`): this turns the code's u16 comparisons into
  comparisons of places. When a resend has put R behind the head the flush must
  not jump over the wrap: either the window's packs lie close, or R and M are at the
  head, or the comparison refuses to flush (`Lag`, `Stuck`). Every pack the receiver
  holds or the network carries is below M (`RecvBelow`, `NetBelow`), so the receiver's
  window has a place for it. Acknowledgements and WINDs carry a limit that was
  granted, and an acknowledgement stands for a pack that arrived (`AcksTrue`,
  `WindsTrue`). `SendHolds` then says that an emptied slot of the send window is a pack
  that arrived. The lemmas `FlushNear`, `EnqueueNear`, `AckNear`, `WindNear`, `ResendNear`,
  `ReceiveNear` and `DequeueNear` show that each operation keeps it.

Theorems: `LinkInvariant`, `SenderRemembered`, `FlowInvariant`, `MessagesInOrder`,
`AcknowledgedArrived`.

**CacheInputProofs, the input chip.** `ChipInv` says who holds what: a caller at a
place under `chip->lock` is its holder (`ChipHeld`), a call on a device holds
`dev->lock` and the device is registered (`CallsHold`), lists hold registered devices of
their kind and are empty once the threads are being stopped (`ListsRegistered`,
`Emptied`), a stopped thread has left (`WorkersAlive`). On these rest the three facts
behind the property: the flag is behind the lists only on the way to its update or
in a recovery that holds the lock (`FlagFollows`), a thread with devices runs unless
its update is still to come, an upgrade has suspended it or it gave up (`ListRuns`),
and one without devices rests unless its suspend was lost (`ListRests`). Theorems:
`ChipInvariant`, `ThreadsAndChipFollow`.

**JwpLinkProofs.** The argument takes one direction at a time, as a relation
(`Dir`) between values instead of variables: the sender's index T, the receiver's
index R, the message being sent, and the packages and acknowledgements on the two
lines. R is T, or one ahead while a package is pending; packages and
acknowledgements carry T or its successor, those with T in front; with R = T and
a package pending the message has not been accepted, with R ahead it has. The
lemmas on `Dir` say what taking, adding, sending, answering and acknowledging do to
it, and each action is two of them, one per direction. A SYNC under way counts as
applied at both ends at once (`Tx`, `Rx`), which the order of the line justifies
(`SyncInv`). A package is accepted in one step and `rx_index` set in another, under
`jwp->lock`: in between, the package counts as if it were set (`Got`). `StageInv` says
what a thread may rely on until its last look at `rx_pkg`: it is the only reader, the
package at the front of the line is the one it compared, and it is data or a command
from the comparison on (`OneReader`, `StagesKeep`). While `odd` is not empty only the
types are claimed. Theorems: `LinkInvariant`, `LinkTypesHold`, `AcceptedInOrder`,
`CompletedHaveArrived`.

**TftpTransferProofs.** One invariant per direction. Datagrams may be arbitrarily
old, so it says what their numbers mean: a block carries its number modulo `Mod`,
an acknowledgement stands for blocks written before it was sent. The side that
compares an `int` with a 16-bit number stops before the numbers wrap. A side that is
"done" has seen the number of the last block, so the copy is whole whether or not the
other side has failed or been cut. Theorems: `TransferInvariant`, `TransferTypes`, `CopyInPlace`, `SuccessIsWhole`.

Model-checked only: the liveness properties (`StopEndsWorker`, `ItemHandled`,
`TimerFires`, `ServiceStops`, `StoppedIsDestroyed`, `NotHalfOpen`, `SendReturns`, `AlarmFires`,
`RequestServed`, `TransferReturns`, `CallsReturn`), because fairness and ENABLED are
beyond this prover. Every invariant, action property and refinement that a run checks
is also a theorem.

## 7. Not modelled

* `cavan_thread_run_self` (the same loop on the caller's thread), initialisation
  that fails half way, `cavan_thread_set_state` with arbitrary states, epoll
  registration.
* A SIGUSR1 that lands inside a critical section and leaves a lock held, and calls
  on a destroyed thread or service. (The SIGALRM inside a section of `thread->lock` is
  modelled.) The alarm handler's exit for a negative time, which releases the wrong
  mutex (`alarm.c:146`): `time(NULL)` does not fail.
* A failed `pthread_create` of an epoll daemon: `cavan_pthread_create` tries again on
  EAGAIN (`thread.c:41`); any other failure is ignored at `service.c:1345`, and a client
  queued then waits for the next event.
* UDP: the non-blocking enqueue into a full window, which still flushes
  (`udp.c:605`); the only caller of `cavan_udp_sock_send` blocks. The free of a link
  without its lock while the receive loop uses it (`udp.c:1012`): the model frees
  between two handlers.
* JWP: what the RX_DATA queue holds (`jwp_process_data` may run at any time); an
  overwriting between the comparison and the copy is not told apart from one after the
  copy; bodies mixed of two packages that pass the checksum.
* `list_queue` and `cavan_mem_queue`; `mem_cache`, `file_cache`, `cavan_fifo`,
  `cavan_block_cache`; the pointer level of the lists; cursor and flasher; the
  watchdog, which nothing starts.
* The fork-based services, several services in one table; the order of the UDP
  send loop's list and the round-trip estimate; the bytes and the parser of JWP;
  TFTP's directories, devices, links and remote commands.
* Of the input core: detection, the poll delay, `chip->dead`, shutdown, and the
  three drivers that handle interrupts without the list's lock; a failed `kthread_create`
  in `cavan_input_thread_prepare` (`cavan_thread.c:83`). The end of `cavan_input_device_unregister` is
  one step (`cavan_input_core.c:1932` to `1936`); `sysfs_remove_files` under `chip->lock` can
  also wait for a store that waits for that lock. `StopWakesNull` is possible for the poll
  thread too, although there the code keeps `thread->lock` between the test and the wake:
  the model allows more than the code.
* Bridges, multiplexer, the other servers, display, input devices, text and file
  helpers, chip drivers, the C++ library and the applications: I/O, formatting,
  user interfaces and device registers, with no protocol of their own beyond the
  ones above. They are by far the larger part of the repository's lines, so the
  share of the source that the models cover stays small; the models cover its
  concurrent and networked part.

## 8. Plan

1. Done: `CavanThread`, `CavanDataQueue`, `CavanCache` with `ByteStream`,
   `CavanTimer`, the first theorems; `DynamicService`, `EpollService`, `UdpLink` with
   `MessageChannel`, `UdpHandshake`, `JwpLink`, `CavanAlarm`, TFTP, `InputThread` and
   `InputChip`.
2. Done: the proofs of every safety property and of both refinements.
3. Left: the C++ thread and UDP classes (`cpp/Thread.cpp`, `cpp/Udp.cpp`), and the
   sequential rings against a reference definition; several senders on one UDP link.
