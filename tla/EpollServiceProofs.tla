-------------------------- MODULE EpollServiceProofs --------------------------
(***************************************************************************)
(* Safety of the epoll service of lib/service.c for any clients, any pool  *)
(* of daemons and any limits of it.                                        *)
(***************************************************************************)
EXTENDS EpollService, FiniteSetTheorems, TLAPS

Working == {"poll", "nowrite", "read", "clear", "return", "error"}

\* The types that need no counting.
PlainTypes ==
    /\ queue \in Seq(Clients)
    /\ place \in [Clients -> {"idle", "queued", "polling", "removed"}]
    /\ flagged \subseteq Clients /\ readable \subseteq Clients /\ edge \subseteq Clients
    /\ dpc \in [Daemons -> {"none", "created", "look", "wait"} \cup Working]
    /\ job \in [Daemons -> Clients \cup {Nobody}]
    /\ signalled \subseteq Daemons /\ lost \subseteq Clients
    /\ out \subseteq Clients /\ pendingOut \subseteq Clients /\ wr \subseteq Clients
    /\ blocked \subseteq Clients /\ muted \subseteq Clients

\* A daemon has a client exactly while it works on it.
JobWhileWorking == \A d \in Daemons : job[d] # Nobody <=> dpc[d] \in Working

\* The queue holds each queued client once.
QueueOnce ==
    /\ IsInjective(queue)
    /\ \A c \in Clients : place[c] = "queued" <=> c \in Range(queue)

\* The clients being polled are shared out among the daemons.
JobOnce ==
    /\ \A d, e \in Daemons : job[d] # Nobody /\ job[d] = job[e] => d = e
    /\ \A c \in Clients : place[c] = "polling" <=> \E d \in Daemons : job[d] = c

PlaceInv == PlainTypes /\ JobWhileWorking /\ QueueOnce /\ JobOnce

\* service->count counts the daemons in their loop, service->used those with a client.
Entered == {d \in Daemons : dpc[d] \notin {"none", "created"}}
Busy == {d \in Daemons : dpc[d] \in Working}
CountInv == count = Cardinality(Entered) /\ used = Cardinality(Busy)

AttendInv == CountInv /\ QueueAttended

\* Unread data is known to the client's events, to the kernel's edge, or was lost in
\* the clearing; while a daemon is about to clear, only to the latter two.
EventInv ==
    \A c \in Clients : c \in readable =>
        /\ place[c] # "removed" /\ c \notin flagged => c \in edge \cup lost
        /\ place[c] = "idle" => c \in edge \cup lost
        /\ Clearing(c) => c \in edge \cup lost

\* The clients whose packs have an event to come, or fall under the two exceptions.
Excused == blocked \cup edge \cup lost \cup muted

\* A pack that waits to be written is announced in client->pending, and in client->events
\* unless it is excused; it is excused already while a daemon is about to clear EPOLLOUT.
WriteInv ==
    /\ wr \subseteq pendingOut
    /\ \A c \in wr :
        /\ place[c] # "removed" /\ c \notin out => c \in Excused
        /\ (\E d \in Daemons : dpc[d] = "nowrite" /\ job[d] = c) => c \in Excused
    /\ ReplyNotStranded

EpollInv == PlaceInv /\ AttendInv /\ EventInv /\ WriteInv

-----------------------------------------------------------------------------
\* Putting a client at the tail of the service's queue adds it.
LEMMA RangeAppend ==
    ASSUME NEW S, NEW s \in Seq(S), NEW x \in S
    PROVE  /\ Append(s, x) \in Seq(S)
           /\ Append(s, x) # <<>>
           /\ Range(Append(s, x)) = Range(s) \cup {x}
           /\ IsInjective(s) /\ x \notin Range(s) => IsInjective(Append(s, x))
  <1>1. /\ Append(s, x) \in Seq(S) /\ Append(s, x) # <<>>
        /\ DOMAIN Append(s, x) = 1..(Len(s) + 1)
        /\ DOMAIN s = 1..Len(s)
        /\ Len(s) \in Nat
        /\ \A i \in 1..Len(s) : Append(s, x)[i] = s[i]
        /\ Append(s, x)[Len(s) + 1] = x
    OBVIOUS
  <1>2. Range(Append(s, x)) = Range(s) \cup {x}
    BY <1>1 DEF Range
  <1>3. IsInjective(s) /\ x \notin Range(s) => IsInjective(Append(s, x))
    BY <1>1 DEF Range, IsInjective
  <1> QED
    BY <1>1, <1>2, <1>3

\* Taking the client at the head of the queue removes it.
LEMMA RangeTail ==
    ASSUME NEW S, NEW s \in Seq(S), s # <<>>, IsInjective(s)
    PROVE  /\ Head(s) \in S /\ Head(s) \in Range(s)
           /\ Tail(s) \in Seq(S)
           /\ Range(Tail(s)) = Range(s) \ {Head(s)}
           /\ IsInjective(Tail(s))
  <1>1. /\ Len(s) \in Nat \ {0}
        /\ DOMAIN s = 1..Len(s)
        /\ Head(s) = s[1]
        /\ Tail(s) \in Seq(S)
        /\ DOMAIN Tail(s) = 1..(Len(s) - 1)
        /\ \A i \in 1..(Len(s) - 1) : Tail(s)[i] = s[i + 1]
    OBVIOUS
  <1>2. Head(s) \in Range(s) /\ Head(s) \in S
    BY <1>1 DEF Range
  <1>3. ASSUME NEW y \in Range(s) \ {Head(s)} PROVE y \in Range(Tail(s))
    <2>1. PICK i \in 1..Len(s) : y = s[i]
      BY <1>1 DEF Range
    <2>2. i - 1 \in 1..(Len(s) - 1) /\ Tail(s)[i - 1] = s[i]
      BY <1>1, <1>3, <2>1
    <2> QED
      BY <1>1, <2>1, <2>2 DEF Range
  <1>4. ASSUME NEW y \in Range(Tail(s)) PROVE y \in Range(s) \ {Head(s)}
    BY <1>1, <1>4 DEF Range, IsInjective
  <1>5. IsInjective(Tail(s))
    BY <1>1 DEF IsInjective
  <1> QED
    BY <1>1, <1>2, <1>3, <1>4, <1>5

-----------------------------------------------------------------------------
\* cavan_epoll_service_init establishes the invariant.
LEMMA InitInv == EpollInit => EpollInv
  <1> SUFFICES ASSUME EpollInit PROVE EpollInv
    OBVIOUS
  <1>1. Range(queue) = {} /\ IsInjective(queue)
    BY DEF EpollInit, Range, IsInjective
  <1>2. PlaceInv
    BY <1>1, EpollAssumption DEF EpollInit, PlaceInv, PlainTypes, JobWhileWorking, QueueOnce,
       JobOnce, Working
  <1>3. Entered = {} /\ Busy = {}
    BY DEF EpollInit, Entered, Busy, Working
  <1>4. AttendInv
    BY <1>3, FS_EmptySet DEF EpollInit, AttendInv, CountInv, QueueAttended
  <1>5. EventInv /\ WriteInv
    BY DEF EpollInit, EventInv, WriteInv, ReplyNotStranded, Clearing
  <1> QED
    BY <1>2, <1>4, <1>5 DEF EpollInv

\* A step of a daemon that only moves it among the places where it works.
LEMMA MoveKeepsPlace ==
    ASSUME PlaceInv, NEW d \in Daemons, dpc[d] \in Working,
           NEW w \in Working, dpc' = [dpc EXCEPT ![d] = w],
           UNCHANGED <<queue, place, job, signalled, lost>>,
           flagged' \subseteq Clients, readable' \subseteq Clients, edge' \subseteq Clients,
           out' \subseteq Clients, pendingOut' \subseteq Clients, wr' \subseteq Clients,
           blocked' \subseteq Clients, muted' \subseteq Clients
    PROVE  PlaceInv'
  <1>1. PlainTypes'
    BY DEF PlaceInv, PlainTypes
  <1>2. JobWhileWorking'
    BY DEF PlaceInv, PlainTypes, JobWhileWorking
  <1>3. QueueOnce' /\ JobOnce'
    BY DEF PlaceInv, QueueOnce, JobOnce
  <1> QED
    BY <1>1, <1>2, <1>3 DEF PlaceInv

\* A daemon that is not working changes its place to another such one.
LEMMA RestKeepsPlace ==
    ASSUME PlaceInv, UNCHANGED <<queue, place, job, flagged, readable, edge, lost, sides>>,
           signalled' \subseteq Daemons,
           dpc' \in [Daemons -> {"none", "created", "look", "wait"} \cup Working],
           \A d \in Daemons : dpc'[d] \in Working <=> dpc[d] \in Working
    PROVE  PlaceInv'
  <1>1. PlainTypes'
    BY DEF PlaceInv, PlainTypes, sides
  <1>2. JobWhileWorking'
    BY DEF PlaceInv, JobWhileWorking
  <1>3. QueueOnce' /\ JobOnce'
    BY DEF PlaceInv, QueueOnce, JobOnce
  <1> QED
    BY <1>1, <1>2, <1>3 DEF PlaceInv

\* How WakeDaemon changes the daemons: one that waits is signalled or one is created.
LEMMA WakeEffect ==
    ASSUME PlaceInv, WakeDaemon
    PROVE  /\ signalled \subseteq signalled' /\ signalled' \subseteq Daemons
           /\ \/ dpc' = dpc
              \/ \E d \in Daemons : dpc[d] = "none" /\ dpc' = [dpc EXCEPT ![d] = "created"]
  BY DEF WakeDaemon, Waiting, PlaceInv, PlainTypes

\* cavan_epoll_client_post_events queues only an idle client.
LEMMA PostPlace ==
    ASSUME PlaceInv, NEW c \in Clients, cavan_epoll_client_post_events(c)
    PROVE  PlaceInv'
  <1>1. /\ flagged' \subseteq Clients /\ edge' \subseteq Clients /\ out' \subseteq Clients
        /\ lost' \subseteq Clients /\ blocked' \subseteq Clients /\ muted' \subseteq Clients
        /\ UNCHANGED <<readable, count, used, job, pendingOut, wr>>
    BY DEF cavan_epoll_client_post_events, SetEvents, PlaceInv, PlainTypes
  <1>2. CASE place[c] = "idle"
    <2>1. /\ queue' = Append(queue, c) /\ place' = [place EXCEPT ![c] = "queued"]
          /\ WakeDaemon
      BY <1>2 DEF cavan_epoll_client_post_events
    <2>2. c \notin Range(queue)
      BY <1>2 DEF PlaceInv, QueueOnce
    <2>3. /\ queue' \in Seq(Clients) /\ IsInjective(queue')
          /\ Range(queue') = Range(queue) \cup {c}
      BY <2>1, <2>2, RangeAppend DEF PlaceInv, PlainTypes, QueueOnce
    <2>4. QueueOnce'
      BY <2>1, <2>3 DEF PlaceInv, PlainTypes, QueueOnce
    <2>5. JobOnce'
      BY <1>1, <1>2, <2>1 DEF PlaceInv, PlainTypes, JobOnce
    <2>6. /\ signalled' \subseteq Daemons
          /\ \/ dpc' = dpc
             \/ \E d \in Daemons : dpc[d] = "none" /\ dpc' = [dpc EXCEPT ![d] = "created"]
      BY <2>1, WakeEffect
    <2>7. PlainTypes'
      BY <1>1, <2>1, <2>3, <2>6 DEF PlaceInv, PlainTypes
    <2>8. JobWhileWorking'
      BY <1>1, <2>6 DEF PlaceInv, PlainTypes, JobWhileWorking, Working
    <2> QED
      BY <2>4, <2>5, <2>7, <2>8 DEF PlaceInv
  <1>3. CASE place[c] # "idle"
    <2>1. UNCHANGED <<queue, place, dpc, signalled>>
      BY <1>3 DEF cavan_epoll_client_post_events
    <2> QED
      BY <1>1, <2>1 DEF PlaceInv, PlainTypes, JobWhileWorking, QueueOnce, JobOnce
  <1> QED
    BY <1>2, <1>3

\* A daemon takes the client at the head of the queue, out of the queue.
LEMMA TakePlace ==
    ASSUME PlaceInv, NEW d \in Daemons, DaemonTake(d)
    PROVE  PlaceInv'
  <1> DEFINE c == Head(queue)
  <1>1. /\ dpc[d] = "look" /\ queue # <<>>
        /\ job' = [job EXCEPT ![d] = c] /\ place' = [place EXCEPT ![c] = "polling"]
        /\ queue' = Tail(queue) /\ dpc' = [dpc EXCEPT ![d] = "poll"]
        /\ UNCHANGED <<flagged, readable, edge, signalled, lost, out, pendingOut, wr, blocked, muted>>
    BY DEF DaemonTake, sides
  <1>2. /\ c \in Clients /\ c \in Range(queue)
        /\ queue' \in Seq(Clients) /\ IsInjective(queue')
        /\ Range(queue') = Range(queue) \ {c}
    BY <1>1, RangeTail DEF PlaceInv, PlainTypes, QueueOnce
  <1>3. place[c] = "queued" /\ c # Nobody
    BY <1>2, EpollAssumption DEF PlaceInv, QueueOnce
  <1>4. job[d] = Nobody /\ \A e \in Daemons : job[e] # c
    BY <1>1, <1>2, <1>3 DEF PlaceInv, JobWhileWorking, JobOnce, Working
  <1> HIDE DEF c
  <1>5. PlainTypes'
    BY <1>1, <1>2 DEF PlaceInv, PlainTypes, Working
  <1>6. JobWhileWorking'
    BY <1>1, <1>3 DEF PlaceInv, PlainTypes, JobWhileWorking, Working
  <1>7. QueueOnce'
    BY <1>1, <1>2 DEF PlaceInv, PlainTypes, QueueOnce
  <1>8. JobOnce'
    <2>1. job'[d] = c /\ \A e \in Daemons \ {d} : job'[e] = job[e] /\ job'[e] # c
      BY <1>1, <1>4 DEF PlaceInv, PlainTypes
    <2>2. ASSUME NEW x \in Clients \ {c}
          PROVE  place'[x] = "polling" <=> \E e \in Daemons : job'[e] = x
      <3>1. place'[x] = "polling" <=> \E e \in Daemons : job[e] = x
        BY <1>1 DEF PlaceInv, PlainTypes, JobOnce
      <3>2. x # Nobody
        BY EpollAssumption
      <3> QED
        BY <1>4, <2>1, <3>1, <3>2
    <2>3. place'[c] = "polling"
      BY <1>1, <1>2 DEF PlaceInv, PlainTypes
    <2> QED
      BY <2>1, <2>2, <2>3 DEF PlaceInv, JobOnce
  <1> QED
    BY <1>5, <1>6, <1>7, <1>8 DEF PlaceInv
\* A daemon that is done with its client lets go of it, and the client is queued again,
\* idle or removed.
LEMMA ReleasePlace ==
    ASSUME PlaceInv, NEW d \in Daemons, Requeue(d) \/ DropClient(d)
    PROVE  /\ PlaceInv'
           /\ job[d] \in Clients /\ place[job[d]] = "polling"
           /\ \A e \in Daemons \ {d} : job'[e] = job[e] /\ job[e] # job[d]
  <1> DEFINE c == job[d]
  <1>1. /\ dpc[d] \in {"return", "error"} /\ dpc' = [dpc EXCEPT ![d] = "look"]
        /\ job' = [job EXCEPT ![d] = Nobody]
        /\ edge' \subseteq edge /\ readable' \subseteq readable /\ lost' \subseteq lost
        /\ blocked' \subseteq blocked /\ muted' \subseteq muted
        /\ UNCHANGED <<flagged, signalled, out, pendingOut, wr>>
    BY DEF Requeue, DropClient, sides
  <1>2. c \in Clients /\ c # Nobody /\ place[c] = "polling" /\ c \notin Range(queue)
    BY <1>1 DEF PlaceInv, PlainTypes, JobWhileWorking, JobOnce, QueueOnce, Working
  <1>3. \/ queue' = Append(queue, c) /\ place' = [place EXCEPT ![c] = "queued"]
        \/ queue' = queue /\ place' = [place EXCEPT ![c] = "idle"]
        \/ queue' = queue /\ place' = [place EXCEPT ![c] = "removed"]
    BY DEF Requeue, DropClient
  <1>4. /\ job'[d] = Nobody
        /\ \A e \in Daemons \ {d} : job'[e] = job[e] /\ job[e] # c
    BY <1>1, <1>2 DEF PlaceInv, PlainTypes, JobOnce
  <1> HIDE DEF c
  <1>5. queue' \in Seq(Clients) /\ QueueOnce'
    <2>1. CASE queue' = Append(queue, c) /\ place' = [place EXCEPT ![c] = "queued"]
      <3>1. queue' \in Seq(Clients) /\ IsInjective(queue') /\ Range(queue') = Range(queue) \cup {c}
        BY <1>2, <2>1, RangeAppend DEF PlaceInv, PlainTypes, QueueOnce
      <3> QED
        BY <2>1, <3>1 DEF PlaceInv, PlainTypes, QueueOnce
    <2>2. CASE queue' = queue /\ place' = [place EXCEPT ![c] = "idle"]
      BY <1>2, <2>2 DEF PlaceInv, PlainTypes, QueueOnce
    <2>3. CASE queue' = queue /\ place' = [place EXCEPT ![c] = "removed"]
      BY <1>2, <2>3 DEF PlaceInv, PlainTypes, QueueOnce
    <2> QED
      BY <1>3, <2>1, <2>2, <2>3
  <1>6. place' \in [Clients -> {"idle", "queued", "polling", "removed"}] /\ place'[c] # "polling"
        /\ \A x \in Clients \ {c} : place'[x] = place[x]
    BY <1>2, <1>3 DEF PlaceInv, PlainTypes
  <1>7. PlainTypes'
    BY <1>1, <1>5, <1>6 DEF PlaceInv, PlainTypes
  <1>8. JobWhileWorking'
    BY <1>1 DEF PlaceInv, PlainTypes, JobWhileWorking, Working
  <1>9. JobOnce'
    <2>1. ASSUME NEW x \in Clients \ {c}
          PROVE  place'[x] = "polling" <=> \E e \in Daemons : job'[e] = x
      <3>1. place'[x] = "polling" <=> \E e \in Daemons : job[e] = x
        BY <1>6 DEF PlaceInv, JobOnce
      <3>2. x # Nobody /\ job[d] # x
        BY EpollAssumption DEF c
      <3> QED
        BY <1>4, <3>1, <3>2
    <2>2. \A e \in Daemons : job'[e] # c
      BY <1>2, <1>4
    <2> QED
      BY <1>2, <1>4, <1>6, <2>1, <2>2 DEF PlaceInv, JobOnce
  <1> QED
    BY <1>2, <1>4, <1>5, <1>7, <1>8, <1>9 DEF PlaceInv, c

\* The daemon's poll changes no place: it works without the lock.
LEMMA PollPlace ==
    ASSUME PlaceInv, NEW d \in Daemons, Poll(d) \/ PollError(d)
    PROVE  PlaceInv' /\ job[d] \in Clients /\ place[job[d]] = "polling"
  <1> USE DEF sides, Working
  <1>1. dpc[d] \in Working
    BY DEF Poll, PollWrite, PollNoWrite, PollData, PollBlocks, PollClear, PollNothing, PollError
  <1>2. job[d] \in Clients /\ place[job[d]] = "polling"
    BY <1>1 DEF PlaceInv, PlainTypes, JobWhileWorking, JobOnce
  <1>3. CASE PollWrite(d)
    <2>1. \E w \in Working : dpc' = [dpc EXCEPT ![d] = w]
      BY <1>3 DEF PollWrite
    <2>2. wr' \subseteq Clients /\ pendingOut' \subseteq Clients /\ blocked' \subseteq Clients
      BY <1>2, <1>3 DEF PollWrite, PlaceInv, PlainTypes
    <2> QED
      BY <1>1, <1>2, <1>3, <2>1, <2>2, MoveKeepsPlace DEF PollWrite, PlaceInv, PlainTypes
  <1>4. CASE PollNoWrite(d)
    BY <1>1, <1>2, <1>4, MoveKeepsPlace DEF PollNoWrite, PlaceInv, PlainTypes
  <1>5. CASE PollData(d)
    <2>1. /\ wr' \subseteq Clients /\ pendingOut' \subseteq Clients /\ readable' \subseteq Clients
          /\ muted' \subseteq Clients
      BY <1>2, <1>5 DEF PollData, SendPack, Muted, PlaceInv, PlainTypes
    <2> QED
      BY <1>1, <1>2, <1>5, <2>1, MoveKeepsPlace DEF PollData, PlaceInv, PlainTypes
  <1>6. CASE PollBlocks(d)
    BY <1>1, <1>2, <1>6, MoveKeepsPlace DEF PollBlocks, PlaceInv, PlainTypes
  <1>7. CASE PollClear(d)
    BY <1>1, <1>2, <1>7, MoveKeepsPlace DEF PollClear, PlaceInv, PlainTypes
  <1>8. CASE PollNothing(d)
    BY <1>1, <1>2, <1>8, MoveKeepsPlace DEF PollNothing, PlaceInv, PlainTypes
  <1>9. CASE PollError(d)
    BY <1>1, <1>2, <1>9, MoveKeepsPlace DEF PollError, PlaceInv, PlainTypes
  <1> QED
    BY <1>3, <1>4, <1>5, <1>6, <1>7, <1>8, <1>9 DEF Poll

\* Entering, leaving, waiting and waking concern no client.
LEMMA IdlePlace ==
    ASSUME PlaceInv, NEW d \in Daemons,
           DaemonEnter(d) \/ DaemonLeave(d) \/ DaemonWait(d) \/ DaemonWake(d)
    PROVE  PlaceInv'
  <1>1. /\ dpc[d] \notin Working
        /\ \E w \in {"none", "look", "wait"} : dpc' = [dpc EXCEPT ![d] = w]
        /\ signalled' \subseteq signalled
        /\ UNCHANGED <<queue, place, job, flagged, readable, edge, lost, sides>>
    BY DEF DaemonEnter, DaemonLeave, DaemonWait, DaemonWake, Working
  <1>2. dpc' \in [Daemons -> {"none", "created", "look", "wait"} \cup Working]
    BY <1>1 DEF PlaceInv, PlainTypes
  <1>3. \A e \in Daemons : dpc'[e] \in Working <=> dpc[e] \in Working
    BY <1>1 DEF PlaceInv, PlainTypes, Working
  <1> QED
    BY <1>1, <1>2, <1>3, RestKeepsPlace DEF PlaceInv, PlainTypes

\* Every step of the epoll service keeps a client in one place.
LEMMA PlaceStep ==
    ASSUME PlaceInv, [EpollNext]_vars
    PROVE  PlaceInv'
  <1>1. CASE UNCHANGED vars
    BY <1>1 DEF vars, sides, PlaceInv, PlainTypes, JobWhileWorking, QueueOnce, JobOnce
  <1>2. ASSUME NEW c \in Clients, Arrive(c) PROVE PlaceInv'
    BY <1>2 DEF Arrive, sides, PlaceInv, PlainTypes, JobWhileWorking, QueueOnce, JobOnce
  <1>3. ASSUME NEW c \in Clients, Drain(c) PROVE PlaceInv'
    BY <1>3 DEF Drain, PlaceInv, PlainTypes, JobWhileWorking, QueueOnce, JobOnce
  <1> QED
    BY <1>1, <1>2, <1>3, PostPlace, TakePlace, ReleasePlace, PollPlace, IdlePlace
    DEF EpollNext, Daemon
-----------------------------------------------------------------------------
\* The two sets behind service->count and service->used are finite, and a daemon with
\* a client is in its loop.
LEMMA CountFacts ==
    /\ IsFiniteSet(Entered) /\ IsFiniteSet(Busy) /\ Busy \subseteq Entered
    /\ Cardinality(Entered) \in Nat /\ Cardinality(Busy) \in Nat
    /\ Cardinality(Busy) <= Cardinality(Entered)
    /\ Cardinality(Entered) <= Cardinality(Daemons)
  <1>1. Entered \in SUBSET Daemons /\ Busy \in SUBSET Entered
    BY DEF Entered, Busy, Working
  <1>2. IsFiniteSet(Entered) /\ Cardinality(Entered) <= Cardinality(Daemons)
    BY <1>1, EpollAssumption, FS_Subset
  <1>3. IsFiniteSet(Busy) /\ Cardinality(Busy) <= Cardinality(Entered)
    BY <1>1, <1>2, FS_Subset
  <1> QED
    BY <1>1, <1>2, <1>3, FS_CardinalityType

\* The counters follow the daemons through every step.
LEMMA CountStep ==
    ASSUME PlaceInv, CountInv, [EpollNext]_vars
    PROVE  CountInv'
  <1> USE DEF CountInv
  <1>1. ASSUME Entered' = Entered, Busy' = Busy, count' = count, used' = used
        PROVE  CountInv'
    BY <1>1
  <1>2. ASSUME \A d \in Daemons : (dpc'[d] \in {"none", "created"}) = (dpc[d] \in {"none", "created"}),
               \A d \in Daemons : (dpc'[d] \in Working) = (dpc[d] \in Working),
               count' = count, used' = used
        PROVE  CountInv'
    <2>1. Entered' = Entered
      BY <1>2 DEF Entered
    <2>2. Busy' = Busy
      BY <1>2 DEF Busy
    <2> QED
      BY <1>2, <2>1, <2>2
  <1>3. CASE UNCHANGED vars
    BY <1>2, <1>3 DEF vars
  <1>4. ASSUME NEW c \in Clients, Arrive(c) \/ Drain(c) PROVE CountInv'
    BY <1>2, <1>4 DEF Arrive, Drain
  <1>5. ASSUME NEW c \in Clients, cavan_epoll_client_post_events(c) PROVE CountInv'
    <2>1. \/ dpc' = dpc
          \/ \E d \in Daemons : dpc[d] = "none" /\ dpc' = [dpc EXCEPT ![d] = "created"]
      BY <1>5, WakeEffect DEF cavan_epoll_client_post_events
    <2> QED
      BY <1>2, <1>5, <2>1 DEF cavan_epoll_client_post_events, PlaceInv, PlainTypes, Working
  <1>6. ASSUME NEW d \in Daemons, DaemonEnter(d) PROVE CountInv'
    <2>1. Entered' = Entered \cup {d} /\ d \notin Entered /\ Busy' = Busy
      BY <1>6 DEF DaemonEnter, Entered, Busy, Working, PlaceInv, PlainTypes
    <2> QED
      BY <1>6, <2>1, CountFacts, FS_AddElement DEF DaemonEnter
  <1>7. ASSUME NEW d \in Daemons, DaemonLeave(d) PROVE CountInv'
    <2>1. Entered' = Entered \ {d} /\ d \in Entered /\ Busy' = Busy
      BY <1>7 DEF DaemonLeave, Entered, Busy, Working, PlaceInv, PlainTypes
    <2> QED
      BY <1>7, <2>1, CountFacts, FS_RemoveElement DEF DaemonLeave
  <1>8. ASSUME NEW d \in Daemons, DaemonWait(d) \/ DaemonWake(d) PROVE CountInv'
    BY <1>2, <1>8 DEF DaemonWait, DaemonWake, PlaceInv, PlainTypes, Working
  <1>9. ASSUME NEW d \in Daemons, DaemonTake(d) PROVE CountInv'
    <2>1. Busy' = Busy \cup {d} /\ d \notin Busy /\ Entered' = Entered
      BY <1>9 DEF DaemonTake, Entered, Busy, Working, PlaceInv, PlainTypes
    <2> QED
      BY <1>9, <2>1, CountFacts, FS_AddElement DEF DaemonTake
  <1>10. ASSUME NEW d \in Daemons, Requeue(d) \/ DropClient(d) PROVE CountInv'
    <2>1. Busy' = Busy \ {d} /\ d \in Busy /\ Entered' = Entered
      BY <1>10 DEF Requeue, DropClient, Entered, Busy, Working, PlaceInv, PlainTypes
    <2> QED
      BY <1>10, <2>1, CountFacts, FS_RemoveElement DEF Requeue, DropClient
  <1>11. ASSUME NEW d \in Daemons, Poll(d) \/ PollError(d) PROVE CountInv'
    <2>1. /\ dpc[d] \in Working /\ \E w \in Working : dpc' = [dpc EXCEPT ![d] = w]
          /\ count' = count /\ used' = used
      BY <1>11 DEF Poll, PollWrite, PollNoWrite, PollData, PollBlocks, PollClear, PollNothing,
         PollError, Working
    <2> QED
      BY <1>2, <2>1 DEF PlaceInv, PlainTypes, Working
  <1> QED
    BY <1>3, <1>4, <1>5, <1>6, <1>7, <1>8, <1>9, <1>10, <1>11 DEF EpollNext, Daemon

\* After a client was queued some daemon is on its way: one that waits is signalled, a
\* new one is created, or all the counted ones are busy and will look again.
LEMMA WakeAttends ==
    ASSUME PlaceInv, CountInv, WakeDaemon
    PROVE  \E d \in Daemons : dpc'[d] \notin {"none", "wait"} \/ d \in signalled'
  <1>1. CASE used < count
    <2>1. UNCHANGED dpc
      BY <1>1 DEF WakeDaemon
    <2>2. CASE Waiting = {} /\ UNCHANGED signalled
      <3>1. Entered # Busy
        BY <1>1, CountFacts DEF CountInv
      <3>2. PICK d \in Entered : d \notin Busy
        BY <3>1, CountFacts
      <3>3. dpc[d] \in {"look", "wait"}
        BY <3>2 DEF Entered, Busy, PlaceInv, PlainTypes
      <3> QED
        BY <2>1, <2>2, <3>2, <3>3 DEF Entered, Waiting
    <2>3. CASE \E d \in Waiting : signalled' = signalled \cup {d}
      BY <2>3 DEF Waiting
    <2> QED
      BY <1>1, <2>2, <2>3 DEF WakeDaemon
  <1>2. CASE ~(used < count)
    <2>1. Entered = Busy
      BY <1>2, CountFacts, FS_Subset DEF CountInv
    <2>2. CASE count < MaxCount /\ \E d \in Daemons : dpc[d] = "none"
      BY <1>2, <2>2 DEF WakeDaemon, PlaceInv, PlainTypes
    <2>3. CASE ~(count < MaxCount /\ \E d \in Daemons : dpc[d] = "none")
      <3>1. UNCHANGED dpc
        BY <1>2, <2>3 DEF WakeDaemon
      <3>2. CASE \A d \in Daemons : dpc[d] # "none"
        <4>1. PICK d \in Daemons : TRUE
          BY EpollAssumption
        <4>2. dpc[d] \notin {"none", "wait"}
          BY <2>1, <3>2 DEF Entered, Busy, Working
        <4> QED
          BY <3>1, <4>2
      <3>3. CASE count >= MaxCount
        <4>1. Cardinality(Entered) # 0
          BY <3>3, EpollAssumption DEF CountInv
        <4>2. PICK d \in Busy : TRUE
          BY <2>1, <4>1, FS_EmptySet
        <4> QED
          BY <3>1, <4>2 DEF Busy, Working
      <3>4. count \in Nat
        BY CountFacts DEF CountInv
      <3> QED
        BY <2>3, <3>2, <3>3, <3>4, EpollAssumption
    <2> QED
      BY <2>2, <2>3
  <1> QED
    BY <1>1, <1>2

\* A daemon goes to rest only when the queue is empty, and a client is queued only by
\* a daemon at work or together with a wake-up.
LEMMA AttendStep ==
    ASSUME PlaceInv, AttendInv, [EpollNext]_vars
    PROVE  AttendInv'
  <1> SUFFICES QueueAttended'
    BY CountStep DEF AttendInv
  <1> USE DEF AttendInv, QueueAttended
  <1>1. CASE UNCHANGED vars
    BY <1>1 DEF vars
  <1>2. ASSUME NEW c \in Clients, Arrive(c) \/ Drain(c) PROVE QueueAttended'
    BY <1>2 DEF Arrive, Drain
  <1>3. ASSUME NEW c \in Clients, cavan_epoll_client_post_events(c) PROVE QueueAttended'
    BY <1>3, WakeAttends DEF cavan_epoll_client_post_events
  <1>4. ASSUME NEW d \in Daemons, Daemon(d) \/ DaemonWake(d) \/ PollError(d)
        PROVE  QueueAttended'
    <2>1. CASE DaemonLeave(d) \/ DaemonWait(d)
      BY <2>1 DEF DaemonLeave, DaemonWait
    <2>2. CASE ~(DaemonLeave(d) \/ DaemonWait(d))
      <3>1. \E w \in {"look"} \cup Working : dpc' = [dpc EXCEPT ![d] = w]
        BY <1>4, <2>2 DEF Daemon, DaemonEnter, DaemonWake, DaemonTake, Requeue, DropClient, Poll,
           PollWrite, PollNoWrite, PollData, PollBlocks, PollClear, PollNothing, PollError, Working
      <3>2. dpc'[d] \notin {"none", "wait"}
        BY <3>1 DEF PlaceInv, PlainTypes, Working
      <3> QED
        BY <3>2
    <2> QED
      BY <2>1, <2>2
  <1> QED
    BY <1>1, <1>2, <1>3, <1>4 DEF EpollNext

-----------------------------------------------------------------------------
\* Unread data stays known: a daemon's own client is with no other daemon, and what
\* epoll_wait returns goes into the client's events or is the one that is lost.
LEMMA EventStep ==
    ASSUME PlaceInv, EventInv, [EpollNext]_vars
    PROVE  EventInv'
  <1> USE DEF EventInv, Clearing
  <1>1. CASE UNCHANGED vars
    BY <1>1 DEF vars
  <1>2. ASSUME NEW c \in Clients, Arrive(c) \/ Drain(c) PROVE EventInv'
    BY <1>2 DEF Arrive, Drain
  <1>3. ASSUME NEW c \in Clients, cavan_epoll_client_post_events(c) PROVE EventInv'
    <2>1. /\ SetEvents(c) /\ readable' = readable /\ job' = job
          /\ \A x \in Clients : place'[x] = place[x] \/ (x = c /\ place'[x] = "queued")
          /\ place[c] = "idle" => place'[c] = "queued"
      BY <1>3 DEF cavan_epoll_client_post_events, PlaceInv, PlainTypes
    <2>2. \A d \in Daemons : (dpc'[d] = "clear") = (dpc[d] = "clear")
      BY <1>3, WakeEffect DEF cavan_epoll_client_post_events, PlaceInv, PlainTypes
    <2>3. \A x \in Clients : Clearing(x)' = Clearing(x)
      BY <2>1, <2>2
    <2>4. ASSUME NEW x \in Clients \ {c}, x \in readable'
          PROVE  /\ place'[x] # "removed" /\ x \notin flagged' => x \in edge' \cup lost'
                 /\ place'[x] = "idle" => x \in edge' \cup lost'
                 /\ Clearing(x)' => x \in edge' \cup lost'
      BY <2>1, <2>3, <2>4 DEF SetEvents
    <2>5. ASSUME c \in readable'
          PROVE  /\ place'[c] # "removed" /\ c \notin flagged' => c \in edge' \cup lost'
                 /\ place'[c] = "idle" => c \in edge' \cup lost'
                 /\ Clearing(c)' => c \in edge' \cup lost'
      <3>1. Clearing(c) => Storing(c)
        BY DEF Storing
      <3>2. place'[c] # "idle"
        BY <2>1
      <3>3. (c \in flagged' /\ ~Storing(c)) \/ c \in lost'
        BY <2>1, <2>5 DEF SetEvents
      <3> QED
        BY <2>3, <3>1, <3>2, <3>3
    <2> QED
      BY <2>4, <2>5
  <1>4. ASSUME NEW d \in Daemons,
               DaemonEnter(d) \/ DaemonLeave(d) \/ DaemonWait(d) \/ DaemonWake(d)
        PROVE  EventInv'
    BY <1>4 DEF DaemonEnter, DaemonLeave, DaemonWait, DaemonWake, PlaceInv, PlainTypes
  <1>5. ASSUME NEW d \in Daemons, DaemonTake(d) PROVE EventInv'
    <2>1. Head(queue) \in Clients /\ dpc'[d] = "poll"
      BY <1>5, RangeTail DEF DaemonTake, PlaceInv, PlainTypes, QueueOnce
    <2>2. /\ place[Head(queue)] = "queued" /\ dpc[d] = "look"
          /\ place' = [place EXCEPT ![Head(queue)] = "polling"]
          /\ UNCHANGED <<flagged, readable, edge, lost>>
      BY <1>5, RangeTail DEF DaemonTake, PlaceInv, PlainTypes, QueueOnce
    <2>3. \A x \in Clients : Clearing(x)' => Clearing(x)
      BY <1>5, <2>1 DEF DaemonTake, PlaceInv, PlainTypes
    <2> QED
      BY <2>1, <2>2, <2>3 DEF PlaceInv, PlainTypes
  <1>6. ASSUME NEW d \in Daemons, Requeue(d) \/ DropClient(d) PROVE EventInv'
    <2>1. /\ job[d] \in Clients /\ place[job[d]] = "polling"
          /\ \A e \in Daemons \ {d} : job'[e] = job[e] /\ job[e] # job[d]
      BY <1>6, ReleasePlace
    <2>2. /\ dpc' = [dpc EXCEPT ![d] = "look"] /\ job' = [job EXCEPT ![d] = Nobody]
          /\ flagged' = flagged /\ readable' \subseteq readable
          /\ \A x \in Clients \ {job[d]} :
               place'[x] = place[x] /\ (x \in edge \cup lost => x \in edge' \cup lost')
      BY <1>6 DEF Requeue, DropClient, PlaceInv, PlainTypes
    <2>3. \/ edge' = edge /\ lost' = lost /\ place'[job[d]] = "queued"
          \/ edge' = edge /\ lost' = lost /\ place'[job[d]] = "idle" /\ job[d] \notin flagged
          \/ place'[job[d]] = "removed"
      BY <1>6, <2>1 DEF Requeue, DropClient, HasEvents, PlaceInv, PlainTypes
    <2>4. \A x \in Clients : Clearing(x)' => Clearing(x) /\ x # job[d]
      BY <2>1, <2>2, EpollAssumption DEF PlaceInv, PlainTypes
    <2> QED
      BY <2>1, <2>2, <2>3, <2>4
  <1>7. ASSUME NEW d \in Daemons, Poll(d) \/ PollError(d) PROVE EventInv'
    <2>1. /\ job[d] \in Clients /\ place[job[d]] = "polling"
          /\ UNCHANGED <<place, job, edge, lost>>
      BY <1>7, PollPlace DEF Poll, PollWrite, PollNoWrite, PollData, PollBlocks, PollClear,
         PollNothing, PollError, sides
    <2>2. CASE PollBlocks(d)
      <3>1. \A x \in Clients : Clearing(x)' => Clearing(x) \/ x = job[d]
        BY <2>1, <2>2 DEF PollBlocks, PlaceInv, PlainTypes
      <3> QED
        BY <2>1, <2>2, <3>1 DEF PollBlocks
    <2>3. CASE PollClear(d)
      <3>1. Clearing(job[d]) /\ \A x \in Clients : Clearing(x)' => Clearing(x)
        BY <2>1, <2>3 DEF PollClear, PlaceInv, PlainTypes
      <3> QED
        BY <2>1, <2>3, <3>1 DEF PollClear
    <2>4. CASE PollWrite(d) \/ PollNoWrite(d) \/ PollData(d) \/ PollNothing(d) \/ PollError(d)
      <3>1. /\ readable' \subseteq readable /\ flagged' = flagged
            /\ \E w \in {"nowrite", "read", "return", "error"} : dpc' = [dpc EXCEPT ![d] = w]
        BY <2>4 DEF PollWrite, PollNoWrite, PollData, PollNothing, PollError
      <3>2. \A x \in Clients : Clearing(x)' => Clearing(x)
        BY <2>1, <3>1 DEF PlaceInv, PlainTypes
      <3> QED
        BY <2>1, <3>1, <3>2
    <2> QED
      BY <1>7, <2>2, <2>3, <2>4 DEF Poll
  <1> QED
    BY <1>1, <1>2, <1>3, <1>4, <1>5, <1>6, <1>7 DEF EpollNext, Daemon

\* A pack is only added, and EPOLLOUT only cleared, by the daemon that polls the client;
\* an idle client whose events grow is queued in the same critical section.
LEMMA WriteStep ==
    ASSUME PlaceInv, WriteInv, [EpollNext]_vars
    PROVE  WriteInv'
  <1> USE DEF WriteInv, ReplyNotStranded, Excused
  <1>1. CASE UNCHANGED vars
    BY <1>1 DEF vars, sides
  <1>2. ASSUME NEW c \in Clients, Arrive(c) PROVE WriteInv'
    BY <1>2 DEF Arrive, sides
  <1>3. ASSUME NEW c \in Clients, Drain(c) PROVE WriteInv'
    BY <1>3 DEF Drain
  <1>4. ASSUME NEW c \in Clients, cavan_epoll_client_post_events(c) PROVE WriteInv'
    <2>1. /\ SetEvents(c) /\ UNCHANGED <<job, pendingOut, wr>>
          /\ \A x \in Clients : place'[x] = place[x] \/ (x = c /\ place'[x] = "queued")
          /\ place'[c] # "idle"
      BY <1>4 DEF cavan_epoll_client_post_events, PlaceInv, PlainTypes
    <2>2. \A d \in Daemons : (dpc'[d] = "nowrite") = (dpc[d] = "nowrite")
      BY <1>4, WakeEffect DEF cavan_epoll_client_post_events, PlaceInv, PlainTypes
    <2>3. ASSUME NEW x \in wr', x # c
          PROVE  /\ place'[x] # "removed" /\ x \notin out' => x \in Excused'
                 /\ (\E d \in Daemons : dpc'[d] = "nowrite" /\ job'[d] = x) => x \in Excused'
                 /\ place'[x] = "idle" => x \in Excused'
      <3>1. x \in Clients
        BY <2>1 DEF PlaceInv, PlainTypes
      <3>2. (x \in Excused => x \in Excused') /\ (x \in out <=> x \in out')
        BY <2>1, <2>3 DEF SetEvents
      <3> QED
        BY <2>1, <2>2, <2>3, <3>1, <3>2
    <2>4. \/ c \in Excused'
          \/ c \in out' /\ ~\E d \in Daemons : dpc'[d] = "nowrite" /\ job'[d] = c
      <3>1. CASE Storing(c)
        BY <2>1, <3>1 DEF SetEvents
      <3>2. CASE ~Storing(c)
        BY <2>1, <2>2, <3>2 DEF SetEvents, Storing
      <3> QED
        BY <3>1, <3>2
    <2> QED
      BY <2>1, <2>3, <2>4
  <1>5. ASSUME NEW d \in Daemons,
               DaemonEnter(d) \/ DaemonLeave(d) \/ DaemonWait(d) \/ DaemonWake(d)
        PROVE  WriteInv'
    <2>1. /\ UNCHANGED <<place, job, edge, lost, sides>>
          /\ \A e \in Daemons : dpc'[e] = "nowrite" => dpc[e] = "nowrite"
      BY <1>5 DEF DaemonEnter, DaemonLeave, DaemonWait, DaemonWake, PlaceInv, PlainTypes
    <2> QED
      BY <2>1 DEF sides
  <1>6. ASSUME NEW d \in Daemons, DaemonTake(d) PROVE WriteInv'
    <2>1. /\ UNCHANGED <<edge, lost, out, pendingOut, wr, blocked, muted>>
          /\ Head(queue) \in Clients /\ place[Head(queue)] = "queued"
          /\ place' = [place EXCEPT ![Head(queue)] = "polling"]
          /\ dpc' = [dpc EXCEPT ![d] = "poll"] /\ job' = [job EXCEPT ![d] = Head(queue)]
      BY <1>6, RangeTail DEF DaemonTake, sides, PlaceInv, PlainTypes, QueueOnce
    <2>2. \A e \in Daemons : dpc'[e] = "nowrite" => dpc[e] = "nowrite" /\ job'[e] = job[e]
      BY <2>1 DEF PlaceInv, PlainTypes
    <2>3. \A x \in Clients : place'[x] = place[x] \/ (place[x] = "queued" /\ place'[x] = "polling")
      BY <2>1 DEF PlaceInv, PlainTypes
    <2>4. wr \subseteq Clients
      BY DEF PlaceInv, PlainTypes
    <2> QED
      BY <2>1, <2>2, <2>3, <2>4
  <1>7. ASSUME NEW d \in Daemons, Requeue(d) \/ DropClient(d) PROVE WriteInv'
    <2>1. /\ job[d] \in Clients /\ place[job[d]] = "polling"
          /\ \A e \in Daemons \ {d} : job'[e] = job[e] /\ job[e] # job[d]
      BY <1>7, ReleasePlace
    <2>2. /\ UNCHANGED <<out, pendingOut, wr>> /\ dpc' = [dpc EXCEPT ![d] = "look"]
          /\ \A x \in Clients \ {job[d]} : place'[x] = place[x] /\ (x \in Excused => x \in Excused')
      BY <1>7 DEF Requeue, DropClient, sides, PlaceInv, PlainTypes
    <2>3. \/ place'[job[d]] = "removed"
          \/ place'[job[d]] = "queued" /\ Excused' = Excused
          \/ place'[job[d]] = "idle" /\ Excused' = Excused /\ job[d] \notin out \cap pendingOut
      BY <1>7, <2>1 DEF Requeue, DropClient, HasEvents, sides, PlaceInv, PlainTypes
    <2>4. \A e \in Daemons : dpc'[e] = "nowrite" =>
             dpc[e] = "nowrite" /\ job'[e] = job[e] /\ job'[e] # job[d]
      BY <2>1, <2>2 DEF PlaceInv, PlainTypes
    <2>5. wr \subseteq Clients
      BY DEF PlaceInv, PlainTypes
    <2> HIDE DEF Excused
    <2> QED
      BY <2>1, <2>2, <2>3, <2>4, <2>5 DEF Excused
  <1>8. ASSUME NEW d \in Daemons, Poll(d) \/ PollError(d) PROVE WriteInv'
    <2>1. /\ place[job[d]] = "polling" /\ job[d] \in Clients
          /\ UNCHANGED <<place, job, edge, lost>>
      BY <1>8, PollPlace DEF Poll, PollWrite, PollNoWrite, PollData, PollBlocks, PollClear,
         PollNothing, PollError
    <2>2. CASE PollWrite(d)
      <3>1. /\ wr' \subseteq wr /\ blocked \subseteq blocked' /\ UNCHANGED <<out, muted>>
            /\ wr' \subseteq pendingOut'
            /\ dpc'[d] # "nowrite" \/ job[d] \in blocked' \/ job[d] \notin wr'
            /\ \A e \in Daemons \ {d} : dpc'[e] = dpc[e]
        BY <2>1, <2>2 DEF PollWrite, PlaceInv, PlainTypes
      <3>2. \A x \in wr', e \in Daemons : dpc'[e] = "nowrite" /\ job[e] = x =>
               dpc[e] = "nowrite" \/ x \in blocked'
        BY <3>1
      <3> QED
        BY <2>1, <3>1, <3>2
    <2>3. CASE PollNoWrite(d)
      <3>1. /\ UNCHANGED <<wr, pendingOut, blocked, muted>> /\ out' = out \ {job[d]}
            /\ dpc[d] = "nowrite"
            /\ \A e \in Daemons : dpc'[e] = "nowrite" => dpc[e] = "nowrite"
        BY <2>1, <2>3 DEF PollNoWrite, PlaceInv, PlainTypes
      <3> QED
        BY <2>1, <3>1
    <2>4. CASE PollData(d)
      <3>1. /\ UNCHANGED <<out, blocked>>
            /\ \/ UNCHANGED <<wr, pendingOut, muted>>
               \/ /\ wr' = wr \cup {job[d]} /\ pendingOut' = pendingOut \cup {job[d]}
                  /\ muted' = muted \cup ({job[d]} \ (out \cup blocked))
            /\ \A e \in Daemons : dpc'[e] = "nowrite" => dpc[e] = "nowrite" /\ e # d
        BY <2>1, <2>4 DEF PollData, SendPack, Muted, PlaceInv, PlainTypes
      <3>2. \A e \in Daemons \ {d} : job[e] # job[d]
        BY <2>1, EpollAssumption DEF PlaceInv, JobOnce
      <3> QED
        BY <2>1, <3>1, <3>2
    <2>5. CASE PollBlocks(d) \/ PollClear(d) \/ PollNothing(d) \/ PollError(d)
      <3>1. /\ UNCHANGED <<wr, pendingOut, out, blocked, muted>>
            /\ \A e \in Daemons : dpc'[e] = "nowrite" => dpc[e] = "nowrite"
        BY <2>5 DEF PollBlocks, PollClear, PollNothing, PollError, sides, PlaceInv, PlainTypes
      <3> QED
        BY <2>1, <3>1
    <2> QED
      BY <1>8, <2>2, <2>3, <2>4, <2>5 DEF Poll
  <1> QED
    BY <1>1, <1>2, <1>3, <1>4, <1>5, <1>6, <1>7, <1>8 DEF EpollNext, Daemon

-----------------------------------------------------------------------------
\* The invariant holds in every reachable state of the epoll service.
THEOREM EpollInvariant == EpollSpec => []EpollInv
  <1>1. EpollInit => EpollInv
    BY InitInv
  <1>2. EpollInv /\ [EpollNext]_vars => EpollInv'
    BY PlaceStep, AttendStep, EventStep, WriteStep DEF EpollInv
  <1> QED
    BY <1>1, <1>2, PTL DEF EpollSpec

\* Type correctness; in particular service->used never exceeds service->count, and
\* neither the number of threads.
THEOREM EpollTypes == EpollSpec => []EpollTypeOK
  <1>1. EpollInv => EpollTypeOK
    BY CountFacts, EpollAssumption, FS_CardinalityType
    DEF EpollInv, PlaceInv, PlainTypes, Working, AttendInv, CountInv, EpollTypeOK
  <1> QED
    BY <1>1, EpollInvariant, PTL

\* However many daemons there are, a client of the epoll service is in the queue once,
\* or with one daemon, or with neither.
THEOREM PolledByOne == EpollSpec => []PolledOnce
  <1>1. EpollInv => PolledOnce
    <2> SUFFICES ASSUME EpollInv, NEW c \in Clients
                 PROVE  Cardinality({i \in DOMAIN queue : queue[i] = c})
                          + Cardinality({d \in Daemons : job[d] = c})
                        = IF place[c] \in {"queued", "polling"} THEN 1 ELSE 0
      BY DEF PolledOnce
    <2> DEFINE Q == {i \in DOMAIN queue : queue[i] = c}
               J == {d \in Daemons : job[d] = c}
    <2>1. ASSUME place[c] = "queued" PROVE \E i : Q = {i}
      <3>1. PICK i \in DOMAIN queue : queue[i] = c
        BY <2>1 DEF EpollInv, PlaceInv, QueueOnce, Range
      <3>2. \A j \in DOMAIN queue : queue[j] = c => j = i
        BY <3>1 DEF EpollInv, PlaceInv, QueueOnce, IsInjective
      <3> QED
        BY <3>1, <3>2
    <2>2. place[c] # "queued" => Q = {}
      BY DEF EpollInv, PlaceInv, QueueOnce, Range
    <2>3. place[c] = "polling" => \E d : J = {d}
      BY EpollAssumption DEF EpollInv, PlaceInv, JobOnce
    <2>4. place[c] # "polling" => J = {}
      BY DEF EpollInv, PlaceInv, JobOnce
    <2>5. Cardinality(Q) = IF place[c] = "queued" THEN 1 ELSE 0
      BY <2>1, <2>2, FS_EmptySet, FS_Singleton
    <2>6. Cardinality(J) = IF place[c] = "polling" THEN 1 ELSE 0
      BY <2>3, <2>4, FS_EmptySet, FS_Singleton
    <2> QED
      BY <2>5, <2>6
  <1> QED
    BY <1>1, EpollInvariant, PTL

\* A queued client always has a daemon on its way to it, whatever min and max are.
THEOREM QueueNeverStranded == EpollSpec => []QueueAttended
  <1>1. EpollInv => QueueAttended
    BY DEF EpollInv, AttendInv
  <1> QED
    BY <1>1, EpollInvariant, PTL

\* The only unread data the service forgets is what is announced while a daemon is between
\* its empty read (or write) and its unlocked store of client->events.
THEOREM ClientsRemembered == EpollSpec => []NoForgottenClient
  <1>1. EpollInv => NoForgottenClient
    BY DEF EpollInv, EventInv, NoForgottenClient
  <1> QED
    BY <1>1, EpollInvariant, PTL

\* A reply in the write queue of an idle client has an event to come, but for the events
\* lost in the unlocked store and the replies queued after the poll had cleared EPOLLOUT.
THEOREM RepliesWritten == EpollSpec => []ReplyNotStranded
  <1>1. EpollInv => ReplyNotStranded
    BY DEF EpollInv, WriteInv
  <1> QED
    BY <1>1, EpollInvariant, PTL
=============================================================================
