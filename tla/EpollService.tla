----------------------------- MODULE EpollService -----------------------------
(***************************************************************************)
(* The epoll service of lib/service.c: one thread turns edge-triggered     *)
(* epoll events into a queue of clients, a pool of daemons takes clients   *)
(* off the queue, reads from them without the lock and puts them back as   *)
(* long as they have events left.  client->poll_next == client marks a     *)
(* client that neither is queued nor being polled.                         *)
(*                                                                         *)
(* client->events is set under service->lock and cleared by the polling    *)
(* daemon without it.  Packs are queued by on_received, that is by the     *)
(* daemon that polls the client: nothing else in the repository calls      *)
(* cavan_epoll_client_send_pack.                                           *)
(***************************************************************************)
EXTENDS Naturals, Sequences, FiniteSets, SequencesExt

CONSTANTS
    Clients,
    Daemons,      \* thread identities, reused
    Nobody,
    MinIdle,      \* service->min
    MaxCount      \* service->max

\* Without a thread to run a daemon on nothing would ever be polled.
ASSUME EpollAssumption == /\ MinIdle \in Nat /\ MaxCount \in Nat \ {0}
                          /\ Nobody \notin Clients
                          /\ IsFiniteSet(Daemons) /\ Daemons # {}

VARIABLES
    queue,        \* the clients from service->poll_head to poll_tail
    place,        \* each client: idle, queued, polling or removed
    flagged,      \* the clients with EPOLLIN in client->events
    out,          \* the clients with EPOLLOUT in client->events
    pendingOut,   \* the clients with EPOLLOUT in client->pending
    wr,           \* the clients with packs to write (wr_head)
    readable,     \* external: clients whose socket holds unread data
    edge,         \* external: clients with an event epoll_wait has not returned yet
    blocked,      \* external: clients whose socket was found to take no more output
    count, used,  \* service->count, service->used
    dpc,          \* where each daemon is
    job,          \* the client a daemon polls
    signalled,    \* waiting daemons that have been signalled
    lost,         \* history: clients whose last event came while a daemon was about to
                  \* store the events it had cleared
    muted         \* history: clients with a pack queued while EPOLLOUT was cleared, and no
                  \* event since

sides == <<out, pendingOut, wr, blocked, muted>>
vars == <<queue, place, flagged, readable, edge, count, used, dpc, job, signalled, lost, sides>>

EpollTypeOK ==
    /\ queue \in Seq(Clients)
    /\ place \in [Clients -> {"idle", "queued", "polling", "removed"}]
    /\ flagged \subseteq Clients /\ readable \subseteq Clients /\ edge \subseteq Clients
    /\ count \in 0..Cardinality(Daemons) /\ used \in 0..count
    /\ dpc \in [Daemons -> {"none", "created", "look", "wait", "poll", "nowrite", "read", "clear",
                           "return", "error"}]
    /\ job \in [Daemons -> Clients \cup {Nobody}]
    /\ signalled \subseteq Daemons /\ lost \subseteq Clients
    /\ out \subseteq Clients /\ pendingOut \subseteq Clients /\ wr \subseteq Clients
    /\ blocked \subseteq Clients /\ muted \subseteq Clients

\* cavan_epoll_service_init, and cavan_epoll_service_add of every client.
EpollInit ==
    /\ queue = <<>>
    /\ place = [c \in Clients |-> "idle"]
    /\ flagged = Clients
    /\ readable = {} /\ edge = {}
    /\ count = 0 /\ used = 0
    /\ dpc = [d \in Daemons |-> "none"]
    /\ job = [d \in Daemons |-> Nobody]
    /\ signalled = {} /\ lost = {}
    /\ out = Clients /\ pendingOut = {} /\ wr = {}
    /\ blocked = {} /\ muted = {}

\* Data reaches a client's socket; the kernel reports the edge once.
Arrive(c) ==
    /\ place[c] # "removed"
    /\ readable' \in {readable, readable \cup {c}}
    /\ edge' = edge \cup {c}
    /\ UNCHANGED <<queue, place, flagged, count, used, dpc, job, signalled, lost, sides>>

\* The output of a socket that took no more drains, which is an edge as well.
Drain(c) ==
    /\ place[c] # "removed" /\ c \in blocked
    /\ blocked' = blocked \ {c}
    /\ edge' = edge \cup {c}
    /\ UNCHANGED <<queue, place, flagged, readable, count, used, dpc, job, signalled, lost,
                   out, pendingOut, wr, muted>>

-----------------------------------------------------------------------------
(* cavan_epoll_service_run and cavan_epoll_client_post_events.              *)

Waiting == {d \in Daemons : dpc[d] = "wait" /\ d \notin signalled}
Clearing(c) == \E d \in Daemons : dpc[d] = "clear" /\ job[d] = c

\* A daemon is between the read or write that would block and its unlocked store of
\* client->events.
Storing(c) == \E d \in Daemons : dpc[d] \in {"nowrite", "clear"} /\ job[d] = c

\* A daemon for a client just queued: one that waits is signalled, or a new one is
\* started. cavan_pthread_create tries again on EAGAIN; that it fails otherwise, which
\* the code ignores, is left out.
WakeNever == UNCHANGED <<dpc, signalled>>

WakeDaemon ==
    IF used < count
    THEN /\ UNCHANGED dpc
         /\ \/ Waiting = {} /\ UNCHANGED signalled
            \/ \E d \in Waiting : signalled' = signalled \cup {d}
    ELSE /\ UNCHANGED signalled
         /\ IF count < MaxCount /\ \E d \in Daemons : dpc[d] = "none"
            THEN \E d \in Daemons : dpc[d] = "none" /\ dpc' = [dpc EXCEPT ![d] = "created"]
            ELSE UNCHANGED dpc

\* client->events |= events: what the socket is ready for by then, or was at the edge.  A
\* daemon that stores its cleared events at the same time may undo any of it.
SetEvents(c) ==
    /\ c \in edge /\ place[c] # "removed"
    /\ edge' = edge \ {c}
    /\ flagged' \in {flagged, flagged \cup {c}}
    /\ out' \in {out, out \cup {c}}
    /\ blocked' \in {blocked, blocked \cup {c}}
    /\ IF Storing(c)
       THEN lost' = lost \cup {c} /\ UNCHANGED muted
       ELSE /\ c \in readable => c \in flagged'
            /\ c \notin blocked' => c \in out'
            /\ lost' = lost \ {c}
            /\ muted' = muted \ {c}

PostAlways(c) ==
    /\ SetEvents(c)
    /\ queue' = Append(queue, c)
    /\ place' = [place EXCEPT ![c] = "queued"]
    /\ WakeDaemon
    /\ UNCHANGED <<readable, count, used, job, pendingOut, wr>>

cavan_epoll_client_post_events(c) ==
    /\ SetEvents(c)
    /\ IF place[c] = "idle"
       THEN /\ queue' = Append(queue, c)
            /\ place' = [place EXCEPT ![c] = "queued"]
            /\ WakeDaemon
       ELSE UNCHANGED <<queue, place, dpc, signalled>>
    /\ UNCHANGED <<readable, count, used, job, pendingOut, wr>>

-----------------------------------------------------------------------------
(* cavan_epoll_service_daemon.                                              *)

DaemonEnter(d) ==
    /\ dpc[d] = "created"
    /\ count' = count + 1
    /\ dpc' = [dpc EXCEPT ![d] = "look"]
    /\ UNCHANGED <<queue, place, flagged, readable, edge, used, job, signalled, lost, sides>>

\* The queue is empty: leave when enough others are idle, or wait.
DaemonLeave(d) ==
    /\ dpc[d] = "look" /\ queue = <<>> /\ count - used > MinIdle
    /\ count' = count - 1
    /\ dpc' = [dpc EXCEPT ![d] = "none"]
    /\ UNCHANGED <<queue, place, flagged, readable, edge, used, job, signalled, lost, sides>>

DaemonWait(d) ==
    /\ dpc[d] = "look" /\ queue = <<>> /\ count - used <= MinIdle
    /\ dpc' = [dpc EXCEPT ![d] = "wait"]
    /\ UNCHANGED <<queue, place, flagged, readable, edge, count, used, job, signalled, lost, sides>>

\* Signalled or spuriously.
DaemonWake(d) ==
    /\ dpc[d] = "wait"
    /\ dpc' = [dpc EXCEPT ![d] = "look"]
    /\ signalled' = signalled \ {d}
    /\ UNCHANGED <<queue, place, flagged, readable, edge, count, used, job, lost, sides>>

DaemonTake(d) ==
    /\ dpc[d] = "look" /\ queue # <<>>
    /\ job' = [job EXCEPT ![d] = Head(queue)]
    /\ place' = [place EXCEPT ![Head(queue)] = "polling"]
    /\ queue' = Tail(queue)
    /\ used' = used + 1
    /\ dpc' = [dpc EXCEPT ![d] = "poll"]
    /\ UNCHANGED <<flagged, readable, edge, count, signalled, lost, sides>>

\* cavan_epoll_client_do_poll, without the lock.  First the writing: a pack is written,
\* wholly or in part, the socket would block, or there is nothing to write.
PollWrite(d) ==
    /\ dpc[d] = "poll"
    /\ \/ /\ job[d] \in out \cap wr
          /\ wr' \in {wr, wr \ {job[d]}}
          /\ dpc' = [dpc EXCEPT ![d] = "read"]
          /\ UNCHANGED <<pendingOut, blocked>>
       \/ /\ job[d] \in out \cap wr
          /\ blocked' = blocked \cup {job[d]}
          /\ dpc' = [dpc EXCEPT ![d] = "nowrite"]
          /\ UNCHANGED <<pendingOut, wr>>
       \/ /\ job[d] \in out \ wr
          /\ pendingOut' = pendingOut \ {job[d]}
          /\ dpc' = [dpc EXCEPT ![d] = "nowrite"]
          /\ UNCHANGED <<wr, blocked>>
       \/ /\ job[d] \notin out
          /\ dpc' = [dpc EXCEPT ![d] = "read"]
          /\ UNCHANGED <<pendingOut, wr, blocked>>
    /\ UNCHANGED <<queue, place, flagged, readable, edge, count, used, job, signalled, lost, out,
                   muted>>

PollNoWrite(d) ==
    /\ dpc[d] = "nowrite"
    /\ out' = out \ {job[d]}
    /\ dpc' = [dpc EXCEPT ![d] = "read"]
    /\ UNCHANGED <<queue, place, flagged, readable, edge, count, used, job, signalled, lost,
                   pendingOut, wr, blocked, muted>>

\* cavan_epoll_client_send_pack from on_received: its post_events(client, 0) finds the
\* client off the idle mark, so it is the requeue that must see the pack.  Without
\* EPOLLOUT in client->events there is no post, and the requeue does not see it either.
Muted(c) == muted \cup ({c} \ (out \cup blocked))

SendPackNotPending(c) ==
    /\ wr' = wr \cup {c}
    /\ muted' = Muted(c)
    /\ UNCHANGED pendingOut

SendPack(c) ==
    /\ wr' = wr \cup {c}
    /\ pendingOut' = pendingOut \cup {c}
    /\ muted' = Muted(c)

\* Then the reading: data, perhaps not all of it and perhaps ending a pack that
\* on_received answers, or a read that would block.
PollData(d) ==
    /\ dpc[d] = "read" /\ job[d] \in flagged /\ job[d] \in readable
    /\ readable' \in {readable, readable \ {job[d]}}
    /\ dpc' = [dpc EXCEPT ![d] = "return"]
    /\ \/ SendPack(job[d])
       \/ UNCHANGED <<pendingOut, wr, muted>>
    /\ UNCHANGED <<queue, place, flagged, edge, count, used, job, signalled, lost, out, blocked>>

PollBlocks(d) ==
    /\ dpc[d] = "read" /\ job[d] \in flagged /\ job[d] \notin readable
    /\ dpc' = [dpc EXCEPT ![d] = "clear"]
    /\ UNCHANGED <<queue, place, flagged, readable, edge, count, used, job, signalled, lost, sides>>

PollClear(d) ==
    /\ dpc[d] = "clear"
    /\ flagged' = flagged \ {job[d]}
    /\ dpc' = [dpc EXCEPT ![d] = "return"]
    /\ UNCHANGED <<queue, place, readable, edge, count, used, job, signalled, lost, sides>>

PollNothing(d) ==
    /\ dpc[d] = "read" /\ job[d] \notin flagged
    /\ dpc' = [dpc EXCEPT ![d] = "return"]
    /\ UNCHANGED <<queue, place, flagged, readable, edge, count, used, job, signalled, lost, sides>>

\* EPOLLERR, EPOLLHUP, end of file or an error of read or write.
PollError(d) ==
    /\ dpc[d] \in {"poll", "read"}
    /\ dpc' = [dpc EXCEPT ![d] = "error"]
    /\ UNCHANGED <<queue, place, flagged, readable, edge, count, used, job, signalled, lost, sides>>

HasEvents(c) == c \in flagged \/ c \in out \cap pendingOut

\* Back under the lock: queued again while it has pending events, idle otherwise.
RequeueNever(d) ==
    /\ dpc[d] = "return"
    /\ place' = [place EXCEPT ![job[d]] = "idle"]
    /\ used' = used - 1
    /\ dpc' = [dpc EXCEPT ![d] = "look"]
    /\ job' = [job EXCEPT ![d] = Nobody]
    /\ UNCHANGED <<queue, flagged, readable, edge, count, signalled, lost, sides>>

Requeue(d) ==
    /\ dpc[d] = "return"
    /\ IF HasEvents(job[d])
       THEN /\ queue' = Append(queue, job[d])
            /\ place' = [place EXCEPT ![job[d]] = "queued"]
       ELSE /\ UNCHANGED queue
            /\ place' = [place EXCEPT ![job[d]] = "idle"]
    /\ used' = used - 1
    /\ dpc' = [dpc EXCEPT ![d] = "look"]
    /\ job' = [job EXCEPT ![d] = Nobody]
    /\ UNCHANGED <<flagged, readable, edge, count, signalled, lost, sides>>

\* cavan_epoll_client_on_error: out of the epoll set, never idle again.  The kernel has
\* nothing more to report of it.
DropClient(d) ==
    /\ dpc[d] = "error"
    /\ place' = [place EXCEPT ![job[d]] = "removed"]
    /\ edge' = edge \ {job[d]} /\ readable' = readable \ {job[d]}
    /\ blocked' = blocked \ {job[d]}
    /\ lost' = lost \ {job[d]} /\ muted' = muted \ {job[d]}
    /\ used' = used - 1
    /\ dpc' = [dpc EXCEPT ![d] = "look"]
    /\ job' = [job EXCEPT ![d] = Nobody]
    /\ UNCHANGED <<queue, flagged, count, signalled, out, pendingOut, wr>>

Poll(d) == PollWrite(d) \/ PollNoWrite(d) \/ PollData(d) \/ PollBlocks(d) \/ PollClear(d) \/ PollNothing(d)
Daemon(d) == DaemonEnter(d) \/ DaemonLeave(d) \/ DaemonWait(d) \/ DaemonTake(d)
             \/ Poll(d) \/ Requeue(d) \/ DropClient(d)

EpollNext ==
    \/ \E c \in Clients : Arrive(c) \/ Drain(c) \/ cavan_epoll_client_post_events(c)
    \/ \E d \in Daemons : Daemon(d) \/ DaemonWake(d) \/ PollError(d)

EpollSpec == EpollInit /\ [][EpollNext]_vars

-----------------------------------------------------------------------------
(* Properties.                                                              *)

\* A client is in the queue or with a daemon, never both and never twice: no two
\* daemons read from one socket, whatever events arrive while one does.
PolledOnce ==
    \A c \in Clients :
        LET queued == Cardinality({i \in DOMAIN queue : queue[i] = c})
            polled == Cardinality({d \in Daemons : job[d] = c})
        IN  queued + polled = IF place[c] \in {"queued", "polling"} THEN 1 ELSE 0

\* While clients are queued some daemon is on its way to the queue: the signal that
\* goes to nobody and the daemon that leaves or waits never strand them.
QueueAttended ==
    queue # <<>> => \E d \in Daemons : dpc[d] \notin {"none", "wait"} \/ d \in signalled

\* An idle client has no unread data whose event is not still to come, unless its last
\* event came while the daemon was between an empty read (or write) and the store of the
\* events it had cleared.
NoForgottenClient ==
    \A c \in Clients : c \in readable /\ place[c] = "idle" => c \in edge \cup lost

\* An idle client with packs to write has an event to come: its socket takes no output
\* now, or the event is on its way.  The exceptions are the event lost in the unlocked
\* store, and the reply that on_received queues after the same poll has found nothing to
\* write and cleared EPOLLOUT: nobody polls the client for it until its next event.
ReplyNotStranded ==
    \A c \in Clients :
        c \in wr /\ place[c] = "idle" => c \in blocked \cup edge \cup lost \cup muted
=============================================================================
