------------------------- MODULE DynamicServiceProofs -------------------------
(***************************************************************************)
(* Safety of the dynamic service of lib/service.c for any threads, any     *)
(* min and max and any number of stoppers.                                 *)
(***************************************************************************)
EXTENDS DynamicService, FiniteSetTheorems, TLAPS

OddEvents == {"spawn failed", "burst", "late", "raced", "gave up", "cleared", "stolen"}

\* The types that need no counting.
PlainTypes ==
    /\ state \in {"RUNNING", "STOPPING", "STOPPED"}
    /\ stopping \in BOOLEAN
    /\ registered \in BOOLEAN
    /\ waiters \subseteq Stoppers \cup {Owner}
    /\ dpc \in [Daemons -> DaemonPC]
    /\ kpc \in {"none", "created", "run", "gone"}
    /\ opc \in OwnerPC
    /\ spc \in [Stoppers -> {"idle", "found", "wait", "unregister"}]
    /\ tries \in [Stoppers -> 0..MaxWaits]
    /\ odd \subseteq OddEvents

\* service->count counts the daemons in their loop, service->used those that serve.
Entered == {d \in Daemons : dpc[d] \in {"open", "run"}}
Serving == {d \in Daemons : dpc[d] = "run"}
Counted == count = Cardinality(Entered) /\ used = Cardinality(Serving)

\* Before a start that goes through there is nothing.
BeforeStart ==
    opc \in {"idle", "failed"} =>
        /\ \A d \in Daemons : dpc[d] = "none"
        /\ \A s \in Stoppers : spc[s] = "idle"
        /\ kpc = "none" /\ ~registered

CountInv == PlainTypes /\ Counted /\ BeforeStart

\* The epoll or keepalive worker is there only as long as a daemon that will stop it.
WorkerWatched ==
    \/ kpc \in {"none", "gone"}
    \/ "raced" \in odd
    \/ \E d \in Daemons : dpc[d] \notin {"none", "finish"}

\* A stop inside its wait is announced by service->stopping.
StopVisible == Inside = {} \/ stopping \/ "cleared" \in odd

\* From the end of join on: nothing runs and nothing starts any more.
AfterJoin ==
    /\ opc \in {"waitjoin", "joined"} => state = "STOPPED"
    /\ opc \in {"waitjoin", "joined", "destroyed"} =>
           "late" \in odd \/ \A d \in Daemons : dpc[d] = "none"
    /\ opc \in {"joined", "destroyed"} => Inside = {} \/ odd \cap {"gave up", "cleared"} # {}

JoinInv == WorkerWatched /\ StopVisible /\ AfterJoin

ServiceInv == CountInv /\ AcceptorAvailable /\ DaemonsBounded /\ JoinInv

-----------------------------------------------------------------------------
\* The sets behind the counters are finite, and a daemon that serves is in its loop.
LEMMA CountFacts ==
    /\ IsFiniteSet(Entered) /\ IsFiniteSet(Serving) /\ IsFiniteSet(Created)
    /\ Cardinality(Entered) \in Nat /\ Cardinality(Serving) \in Nat /\ Cardinality(Created) \in Nat
    /\ Serving \subseteq Entered
    /\ Cardinality(Serving) <= Cardinality(Entered)
    /\ Cardinality(Entered) <= Cardinality(Daemons)
  <1>1. Entered \in SUBSET Daemons /\ Serving \in SUBSET Entered /\ Created \in SUBSET Daemons
    BY DEF Entered, Serving, Created
  <1>2. /\ IsFiniteSet(Entered) /\ IsFiniteSet(Created)
        /\ Cardinality(Entered) <= Cardinality(Daemons)
    BY <1>1, ServiceAssumption, FS_Subset
  <1>3. IsFiniteSet(Serving) /\ Cardinality(Serving) <= Cardinality(Entered)
    BY <1>1, <1>2, FS_Subset
  <1> QED
    BY <1>1, <1>2, <1>3, FS_CardinalityType

\* cavan_dynamic_service_create establishes the invariant.
LEMMA InitInv == ServiceInit => ServiceInv
  <1> SUFFICES ASSUME ServiceInit PROVE ServiceInv
    OBVIOUS
  <1>1. Entered = {} /\ Serving = {} /\ Created = {} /\ Inside = {}
    BY DEF ServiceInit, Entered, Serving, Created, Inside
  <1>2. PlainTypes
    <2>1. tries \in [Stoppers -> 0..MaxWaits]
      BY ServiceAssumption DEF ServiceInit
    <2> QED
      BY <2>1, Zenon DEF ServiceInit, PlainTypes, DaemonPC, OwnerPC
  <1>3. Counted /\ BeforeStart
    BY <1>1, FS_EmptySet DEF ServiceInit, Counted, BeforeStart
  <1>4. AcceptorAvailable
    BY DEF ServiceInit, AcceptorAvailable
  <1>5. DaemonsBounded
    <2>1. count = 0 /\ Cardinality(Created) = 0
      BY <1>1, FS_EmptySet DEF ServiceInit
    <2> QED
      BY <2>1, ServiceAssumption DEF DaemonsBounded
  <1>6. JoinInv
    BY <1>1 DEF ServiceInit, JoinInv, WorkerWatched, StopVisible, AfterJoin
  <1> QED
    BY <1>2, <1>3, <1>4, <1>5, <1>6 DEF ServiceInv, CountInv

-----------------------------------------------------------------------------
(* Types.                                                                    *)

\* Turn and Leave move the daemon to one of the places they name.
LEMMA TurnEffect ==
    ASSUME NEW d \in Daemons, NEW c, Turn(d, c) \/ Leave(d, c)
    PROVE  \E w \in {"open", "last", "none"} : dpc' = [dpc EXCEPT ![d] = w]
  BY DEF Turn, Leave

\* Spawn lets the daemon serve and may create another.
LEMMA SpawnEffect ==
    ASSUME NEW d \in Daemons, Spawn(d)
    PROVE  /\ odd \subseteq odd' /\ odd' \subseteq odd \cup {"burst", "spawn failed"}
           /\ \/ /\ dpc' = [dpc EXCEPT ![d] = "run"]
                 /\ used + 1 < count \/ count >= MaxCount \/ "spawn failed" \in odd'
              \/ \E e \in Daemons :
                    /\ Free(e) /\ dpc' = [dpc EXCEPT ![d] = "run", ![e] = "created"]
                    /\ ~(used + 1 < count \/ count >= MaxCount)
                    /\ odd' = IF Created # {} THEN odd \cup {"burst"} ELSE odd
  <1>1. CASE used + 1 < count \/ count >= MaxCount
    BY <1>1 DEF Spawn
  <1>2. CASE ~(used + 1 < count \/ count >= MaxCount)
    BY <1>2 DEF Spawn
  <1> QED
    BY <1>1, <1>2

\* The daemons' steps keep the types.
LEMMA DaemonTypes ==
    ASSUME PlainTypes, NEW d \in Daemons, Daemon(d)
    PROVE  PlainTypes' /\ odd \subseteq odd'
  <1> USE DEF PlainTypes, DaemonPC, OddEvents
  <1>1. CASE DaemonEnter(d)
    BY <1>1, TurnEffect DEF DaemonEnter
  <1>2. CASE OpenFail(d)
    BY <1>2, TurnEffect DEF OpenFail
  <1>3. CASE OpenOk(d)
    BY <1>3, SpawnEffect DEF OpenOk
  <1>4. CASE RunEnd(d)
    BY <1>4, TurnEffect DEF RunEnd
  <1>5. CASE StopWorker(d)
    BY <1>5 DEF StopWorker
  <1>6. CASE LastLeaves(d)
    BY <1>6 DEF LastLeaves, CondSignal
  <1> QED
    BY <1>1, <1>2, <1>3, <1>4, <1>5, <1>6 DEF Daemon

\* The owner's steps keep the types and leave the daemons alone once they are there.
LEMMA OwnerTypes ==
    ASSUME PlainTypes,
           \/ OwnerStep \/ WaitStopRound \/ JoinSpurious \/ StartFail
           \/ \E sync, worker \in BOOLEAN : StartWith(sync, worker)
    PROVE  PlainTypes' /\ odd \subseteq odd'
  <1> USE DEF PlainTypes, OwnerPC, DaemonPC, OddEvents
  <1>1. CASE \E sync, worker \in BOOLEAN : StartWith(sync, worker)
    BY <1>1, ServiceAssumption DEF StartWith
  <1>2. CASE StartFail \/ WaitStopRound \/ JoinSpurious
    BY <1>2 DEF StartFail, WaitStopRound, JoinSpurious
  <1>3. CASE PollEnd \/ HandlerReturned \/ WaitStopEnd
    BY <1>3 DEF PollEnd, HandlerReturned, WaitStopEnd
  <1>4. CASE JoinWait \/ JoinDone \/ cavan_dynamic_service_destroy
    BY <1>4 DEF JoinWait, JoinDone, cavan_dynamic_service_destroy
  <1> QED
    BY <1>1, <1>2, <1>3, <1>4 DEF OwnerStep

\* A stopper's round stays within the rounds of its timed wait.
LEMMA RoundBounds ==
    /\ 1 \in 0..MaxWaits
    /\ \A n \in 0..MaxWaits : n # MaxWaits => n + 1 \in 0..MaxWaits
  BY ServiceAssumption

\* The stoppers' steps keep the types.
LEMMA StopperTypes ==
    ASSUME PlainTypes, NEW s \in Stoppers, Find(s) \/ Stopper(s)
    PROVE  PlainTypes' /\ odd \subseteq odd'
  <1> USE DEF PlainTypes, OddEvents
  <1>1. CASE Find(s) \/ Unregister(s)
    BY <1>1 DEF Find, Unregister
  <1>2. CASE cavan_dynamic_service_stop(s)
    <2>1. CASE StopEnd(s) /\ UNCHANGED tries
      BY <1>2, <2>1 DEF cavan_dynamic_service_stop, StopEnd
    <2>2. CASE StopWait(s, 1) /\ stopping' = TRUE
      <3>1. 1 \in 0..MaxWaits
        BY RoundBounds, Zenon
      <3>2. tries' \in [Stoppers -> 0..MaxWaits]
        BY <2>2, <3>1 DEF StopWait
      <3> QED
        BY <1>2, <2>2, <3>2 DEF cavan_dynamic_service_stop, StopWait
    <2> QED
      BY <1>2, <2>1, <2>2 DEF cavan_dynamic_service_stop
  <1>3. CASE StopRound(s)
    <2>1. CASE StopEnd(s) /\ UNCHANGED tries
      BY <1>3, <2>1 DEF StopRound, StopEnd
    <2>2. CASE StopWait(s, tries[s] + 1) /\ tries[s] # MaxWaits /\ UNCHANGED stopping
      <3>1. tries[s] + 1 \in 0..MaxWaits
        BY <2>2, RoundBounds, Zenon
      <3>2. tries' \in [Stoppers -> 0..MaxWaits]
        BY <2>2, <3>1 DEF StopWait
      <3> QED
        BY <1>3, <2>2, <3>2 DEF StopRound, StopWait
    <2> QED
      BY <1>3, <2>1, <2>2 DEF StopRound
  <1> QED
    BY <1>1, <1>2, <1>3 DEF Stopper
-----------------------------------------------------------------------------
(* The pool of daemons.                                                      *)

PoolInv == Counted /\ AcceptorAvailable /\ DaemonsBounded

\* service->count and service->used as numbers.
LEMMA Counters ==
    ASSUME Counted
    PROVE  /\ count \in Nat /\ used \in Nat /\ used <= count
           /\ count <= Cardinality(Daemons)
           /\ \A d \in Entered : count >= 1
           /\ \A d \in Serving : used >= 1
  <1>1. Entered # {} => Cardinality(Entered) # 0
    BY CountFacts, FS_EmptySet
  <1>2. Serving # {} => Cardinality(Serving) # 0
    BY CountFacts, FS_EmptySet
  <1> QED
    BY <1>1, <1>2, CountFacts DEF Counted

\* A daemon that enters counts itself or, in a service that is being stopped, leaves.
LEMMA EnterPool ==
    ASSUME PlainTypes, PoolInv, NEW d \in Daemons, DaemonEnter(d)
    PROVE  PoolInv'
  <1> USE DEF PoolInv
  <1>1. count \in Nat /\ used \in Nat /\ used <= count
    BY Counters
  <1>2. d \notin Entered /\ d \notin Serving /\ d \in Created
    BY DEF DaemonEnter, Entered, Serving, Created
  <1>3. UNCHANGED <<state, used, opc, odd>>
    BY DEF DaemonEnter
  <1>4. Created' = Created \ {d} /\ Serving' = Serving
    BY TurnEffect DEF DaemonEnter, PlainTypes, Created, Serving
  <1>5. Cardinality(Created') = Cardinality(Created) - 1 /\ Cardinality(Created) \in Nat
    BY <1>2, <1>4, CountFacts, FS_RemoveElement
  <1>6. CASE state = "RUNNING"
    <2>1. count' = count + 1 /\ dpc' = [dpc EXCEPT ![d] = "open"]
      BY <1>6 DEF DaemonEnter, Turn
    <2>2. Entered' = Entered \cup {d}
      BY <2>1 DEF PlainTypes, Entered
    <2>3. Counted'
      BY <1>2, <1>3, <1>4, <2>1, <2>2, CountFacts, FS_AddElement DEF Counted
    <2>4. AcceptorAvailable'
      <3>1. used' < count'
        BY <1>1, <1>3, <2>1, SMT
      <3> QED
        BY <3>1 DEF AcceptorAvailable
    <2>5. DaemonsBounded'
      BY <1>1, <1>3, <1>5, <2>1 DEF DaemonsBounded
    <2> QED
      BY <2>3, <2>4, <2>5
  <1>7. CASE state # "RUNNING"
    <2>1. count' = count /\ \E w \in {"last", "none"} : dpc' = [dpc EXCEPT ![d] = w]
      BY <1>1, <1>7 DEF DaemonEnter, Turn, Leave
    <2>2. Entered' = Entered
      BY <1>2, <2>1 DEF PlainTypes, Entered
    <2>3. Counted' /\ AcceptorAvailable'
      BY <1>3, <1>4, <1>7, <2>1, <2>2 DEF Counted, AcceptorAvailable
    <2>4. DaemonsBounded'
      BY <1>1, <1>3, <1>5, <2>1, ServiceAssumption DEF DaemonsBounded
    <2> QED
      BY <2>3, <2>4
  <1> QED
    BY <1>6, <1>7

\* A daemon in its loop that turns again or leaves, having served or not.
LEMMA LeavePool ==
    ASSUME PlainTypes, PoolInv, NEW d \in Daemons, OpenFail(d) \/ RunEnd(d)
    PROVE  PoolInv'
  <1> USE DEF PoolInv
  <1>1. count \in Nat /\ used \in Nat /\ used <= count
    BY Counters
  <1>2. d \in Entered /\ d \notin Created /\ count >= 1
    BY Counters DEF OpenFail, RunEnd, Entered, Created
  <1>3. UNCHANGED <<state, opc, odd>>
    BY DEF OpenFail, RunEnd
  <1>4. Created' = Created /\ Cardinality(Created) \in Nat
    BY <1>2, TurnEffect, CountFacts DEF OpenFail, RunEnd, PlainTypes, Created
  <1>5. Serving' = Serving \ {d}
    BY TurnEffect DEF OpenFail, RunEnd, PlainTypes, Serving
  <1>6. used' = Cardinality(Serving')
    <2>1. CASE OpenFail(d)
      BY <1>5, <2>1, CountFacts, FS_RemoveElement DEF OpenFail, Serving, Counted
    <2>2. CASE RunEnd(d)
      <3>1. d \in Serving /\ used' = used - 1
        BY <2>2 DEF RunEnd, Serving
      <3>2. Cardinality(Serving \ {d}) = Cardinality(Serving) - 1
        BY <3>1, CountFacts, FS_RemoveElement
      <3> QED
        BY <1>5, <3>1, <3>2 DEF Counted
    <2> QED
      BY <2>1, <2>2
  <1>7. CASE count' = count /\ dpc' = [dpc EXCEPT ![d] = "open"]
    <2>1. Entered' = Entered
      BY <1>2, <1>7 DEF PlainTypes, Entered
    <2>2. Counted' /\ DaemonsBounded'
      BY <1>3, <1>4, <1>6, <1>7, <2>1 DEF Counted, DaemonsBounded
    <2>3. AcceptorAvailable'
      <3>1. CASE OpenFail(d)
        BY <1>3, <1>4, <1>7, <3>1 DEF OpenFail, AcceptorAvailable
      <3>2. CASE RunEnd(d)
        <4>1. used' = used - 1
          BY <3>2 DEF RunEnd
        <4>2. used' < count'
          BY <1>1, <1>7, <4>1, SMT
        <4> QED
          BY <4>2 DEF AcceptorAvailable
      <3> QED
        BY <3>1, <3>2
    <2> QED
      BY <2>2, <2>3
  <1>8. CASE count' = count - 1 /\ \E w \in {"last", "none"} : dpc' = [dpc EXCEPT ![d] = w]
    <2>1. Entered' = Entered \ {d}
      BY <1>2, <1>8 DEF PlainTypes, Entered
    <2>2. Counted'
      BY <1>2, <1>6, <1>8, <2>1, CountFacts, FS_RemoveElement DEF Counted
    <2>3. DaemonsBounded'
      BY <1>1, <1>3, <1>4, <1>8, ServiceAssumption DEF DaemonsBounded
    <2>4. AcceptorAvailable'
      <3>1. CASE OpenFail(d)
        <4>1. state = "RUNNING" => count' = count
          BY <3>1 DEF OpenFail, Turn
        <4>2. count' # count
          BY <1>1, <1>8, SMT
        <4> QED
          BY <1>3, <4>1, <4>2 DEF AcceptorAvailable
      <3>2. CASE RunEnd(d)
        <4>1. used' = used - 1 /\ (count - (used - 1) > MinIdle \/ Turn(d, count))
          BY <3>2 DEF RunEnd
        <4>2. CASE count - (used - 1) > MinIdle
          <5>1. used' < count'
            BY <1>1, <1>8, <4>1, <4>2, ServiceAssumption, SMT
          <5> QED
            BY <5>1 DEF AcceptorAvailable
        <4>3. CASE Turn(d, count)
          <5>1. state = "RUNNING" => count' = count
            BY <4>3 DEF Turn
          <5>2. count' # count
            BY <1>1, <1>8, SMT
          <5> QED
            BY <1>3, <5>1, <5>2 DEF AcceptorAvailable
        <4> QED
          BY <4>1, <4>2, <4>3
      <3> QED
        BY <3>1, <3>2
    <2> QED
      BY <2>2, <2>3, <2>4
  <1>9. \/ count' = count /\ dpc' = [dpc EXCEPT ![d] = "open"]
        \/ count' = count - 1 /\ \E w \in {"last", "none"} : dpc' = [dpc EXCEPT ![d] = w]
    BY DEF OpenFail, RunEnd, Turn, Leave
  <1> QED
    BY <1>7, <1>8, <1>9

\* A daemon that got a connection starts another daemon when it was the last to accept.
LEMMA SpawnPool ==
    ASSUME PlainTypes, PoolInv, NEW d \in Daemons, OpenOk(d)
    PROVE  PoolInv'
  <1> USE DEF PoolInv
  <1>1. count \in Nat /\ used \in Nat /\ used <= count
    BY Counters
  <1>2. d \in Entered /\ d \notin Serving /\ d \notin Created
    BY DEF OpenOk, Entered, Serving, Created
  <1>3. used' = used + 1 /\ Spawn(d) /\ UNCHANGED <<state, opc, count>> /\ odd \subseteq odd'
    BY SpawnEffect DEF OpenOk
  <1>4. Cardinality(Created) \in Nat
    BY CountFacts
  <1>5. CASE /\ dpc' = [dpc EXCEPT ![d] = "run"]
             /\ used + 1 < count \/ count >= MaxCount \/ "spawn failed" \in odd'
    <2>1. Entered' = Entered /\ Serving' = Serving \cup {d} /\ Created' = Created
      BY <1>2, <1>5 DEF PlainTypes, Entered, Serving, Created
    <2>2. Counted'
      BY <1>2, <1>3, <2>1, CountFacts, FS_AddElement DEF Counted
    <2>3. AcceptorAvailable'
      BY <1>3, <1>5 DEF AcceptorAvailable
    <2>4. DaemonsBounded'
      BY <1>3, <2>1 DEF DaemonsBounded
    <2> QED
      BY <2>2, <2>3, <2>4
  <1>6. ASSUME NEW e \in Daemons, Free(e), dpc' = [dpc EXCEPT ![d] = "run", ![e] = "created"],
               ~(used + 1 < count \/ count >= MaxCount),
               odd' = IF Created # {} THEN odd \cup {"burst"} ELSE odd
        PROVE  PoolInv'
    <2>1. e # d /\ e \notin Entered \cup Serving \cup Created
      BY <1>2, <1>6 DEF Free, Entered, Serving, Created
    <2>2. Entered' = Entered /\ Serving' = Serving \cup {d} /\ Created' = Created \cup {e}
      BY <1>2, <1>6, <2>1 DEF PlainTypes, Entered, Serving, Created
    <2>3. Counted'
      BY <1>2, <1>3, <2>2, CountFacts, FS_AddElement DEF Counted
    <2>4. AcceptorAvailable'
      BY <2>2 DEF AcceptorAvailable
    <2>5. CASE Created = {}
      <3>1. Cardinality(Created') = 1
        BY <2>2, <2>5, FS_Singleton
      <3> QED
        BY <1>1, <1>3, <1>6, <2>3, <2>4, <3>1, ServiceAssumption DEF DaemonsBounded
    <2>6. CASE Created # {}
      BY <1>6, <2>3, <2>4, <2>6 DEF DaemonsBounded
    <2> QED
      BY <2>5, <2>6
  <1> QED
    BY <1>3, <1>5, <1>6, SpawnEffect

\* Steps that change neither who is in the loop nor the counters.
LEMMA SamePool ==
    ASSUME PoolInv, UNCHANGED <<count, used>>, odd \subseteq odd',
           Entered' = Entered, Serving' = Serving, Created' = Created,
           /\ state' = "RUNNING" => state = "RUNNING"
           /\ opc' \in {"handler", "poll", "waitstart", "started", "joinwait"}
                  => opc \in {"handler", "poll", "waitstart", "started", "joinwait"}
    PROVE  PoolInv'
  BY DEF PoolInv, Counted, AcceptorAvailable, DaemonsBounded

\* cavan_dynamic_service_start begins with one daemon that has not counted itself.
LEMMA StartPool ==
    ASSUME PlainTypes, BeforeStart, NEW sync \in BOOLEAN, NEW worker \in BOOLEAN,
           StartWith(sync, worker)
    PROVE  PoolInv'
  <1>1. /\ count' = 0 /\ used' = 0 /\ dpc' = [dpc EXCEPT ![Main] = "created"]
        /\ \A d \in Daemons : dpc[d] = "none"
    BY DEF StartWith, BeforeStart
  <1>2. Entered' = {} /\ Serving' = {} /\ Created' = {Main}
    BY <1>1, ServiceAssumption DEF PlainTypes, Entered, Serving, Created
  <1>3. Counted'
    BY <1>1, <1>2, FS_EmptySet DEF Counted
  <1>4. AcceptorAvailable'
    BY <1>2 DEF AcceptorAvailable
  <1>5. Cardinality(Created') = 1
    BY <1>2, FS_Singleton
  <1>6. DaemonsBounded'
    BY <1>1, <1>5, ServiceAssumption DEF DaemonsBounded
  <1> QED
    BY <1>3, <1>4, <1>6 DEF PoolInv

\* Every step keeps the pool in order.
LEMMA PoolStep ==
    ASSUME PlainTypes, BeforeStart, PoolInv, ServiceNext, odd \subseteq odd'
    PROVE  PoolInv'
  <1>1. ASSUME NEW d \in Daemons, Daemon(d) PROVE PoolInv'
    <2>1. CASE StopWorker(d) \/ LastLeaves(d)
      <3>1. Entered' = Entered /\ Serving' = Serving /\ Created' = Created
        BY <2>1 DEF StopWorker, LastLeaves, PlainTypes, Entered, Serving, Created
      <3>2. UNCHANGED <<count, used, opc>> /\ (state' = state \/ state' = "STOPPED")
        BY <2>1 DEF StopWorker, LastLeaves
      <3> QED
        BY <3>1, <3>2, SamePool
    <2> QED
      BY <1>1, <2>1, EnterPool, LeavePool, SpawnPool DEF Daemon
  <1>2. ASSUME NEW sync \in BOOLEAN, NEW worker \in BOOLEAN, StartWith(sync, worker)
        PROVE  PoolInv'
    BY <1>2, StartPool
  <1>3. ASSUME UNCHANGED <<count, used, dpc>>,
               /\ state' = "RUNNING" => state = "RUNNING"
               /\ opc' \in {"handler", "poll", "waitstart", "started", "joinwait"}
                      => opc \in {"handler", "poll", "waitstart", "started", "joinwait"}
        PROVE  PoolInv'
    <2>1. Entered' = Entered /\ Serving' = Serving /\ Created' = Created
      BY <1>3 DEF Entered, Serving, Created
    <2> QED
      BY <1>3, <2>1, SamePool
  <1>4. CASE WorkerEnter \/ WaitStopRound \/ JoinSpurious
    BY <1>3, <1>4 DEF WorkerEnter, WaitStopRound, JoinSpurious
  <1>5. CASE StartFail
    <2>1. /\ UNCHANGED <<count, used, dpc, odd>> /\ opc' = "failed"
          /\ Entered' = Entered /\ Serving' = Serving /\ Created' = Created
      BY <1>5 DEF StartFail, Entered, Serving, Created
    <2> QED
      BY <2>1 DEF PoolInv, Counted, AcceptorAvailable, DaemonsBounded
  <1>6. CASE OwnerStep
    <2>1. UNCHANGED <<count, used, dpc>> /\ (state' = state \/ state' = "STOPPED")
      BY <1>6 DEF OwnerStep, PollEnd, HandlerReturned, WaitStopEnd, JoinWait, JoinDone,
                  cavan_dynamic_service_destroy
    <2>2. opc' \in {"handler", "poll", "waitstart", "started", "joinwait"}
              => opc \in {"handler", "poll", "waitstart", "started", "joinwait"}
      BY <1>6 DEF OwnerStep, PollEnd, HandlerReturned, WaitStopEnd, JoinWait, JoinDone,
                  cavan_dynamic_service_destroy
    <2> QED
      BY <1>3, <2>1, <2>2
  <1>7. ASSUME NEW s \in Stoppers, Find(s) \/ Stopper(s) PROVE PoolInv'
    BY <1>3, <1>7 DEF Find, Stopper, cavan_dynamic_service_stop, StopRound, Unregister
  <1> QED
    BY <1>1, <1>2, <1>4, <1>5, <1>6, <1>7 DEF ServiceNext

-----------------------------------------------------------------------------
(* What is there before a start, and what is gone after a join.              *)

\* Nothing appears in a service that has not been started.
LEMMA BeforeStartStep ==
    ASSUME PlainTypes, BeforeStart, ServiceNext
    PROVE  BeforeStart'
  <1>1. ASSUME NEW d \in Daemons, Daemon(d) PROVE BeforeStart'
    <2>1. dpc[d] # "none" /\ opc' = opc
      BY <1>1 DEF Daemon, DaemonEnter, OpenFail, OpenOk, RunEnd, StopWorker, LastLeaves
    <2> QED
      BY <2>1 DEF BeforeStart
  <1>2. CASE WorkerEnter \/ \E sync, worker \in BOOLEAN : StartWith(sync, worker)
    BY <1>2 DEF WorkerEnter, StartWith, BeforeStart
  <1>3. CASE StartFail
    BY <1>3 DEF StartFail, BeforeStart
  <1>4. CASE OwnerStep \/ WaitStopRound \/ JoinSpurious
    BY <1>4 DEF OwnerStep, PollEnd, HandlerReturned, WaitStopEnd, JoinWait, JoinDone,
                cavan_dynamic_service_destroy, WaitStopRound, JoinSpurious, BeforeStart
  <1>5. ASSUME NEW s \in Stoppers, Find(s) \/ Stopper(s) PROVE BeforeStart'
    <2>1. opc' = opc /\ (registered \/ spc[s] # "idle")
      BY <1>5 DEF Find, Stopper, cavan_dynamic_service_stop, StopRound, Unregister
    <2> QED
      BY <2>1 DEF BeforeStart
  <1> QED
    BY <1>1, <1>2, <1>3, <1>4, <1>5 DEF ServiceNext

\* A daemon that leaves while it is not the last leaves another one in the loop.
LEMMA AnotherEntered ==
    ASSUME Counted, NEW d \in Daemons,
           \/ d \in Entered /\ count # 1
           \/ d \notin Entered /\ count # 0
    PROVE  \E e \in Entered : e # d
  <1>1. SUFFICES ASSUME Entered \subseteq {d} PROVE FALSE
    OBVIOUS
  <1>2. CASE Entered = {}
    BY <1>2, FS_EmptySet DEF Counted
  <1>3. CASE Entered = {d}
    BY <1>3, FS_Singleton DEF Counted
  <1> QED
    BY <1>1, <1>2, <1>3

\* The last daemon out stops the worker.
LEMMA WatchedStep ==
    ASSUME PlainTypes, Counted, WorkerWatched, ServiceNext, odd \subseteq odd'
    PROVE  WorkerWatched'
  <1>1. ASSUME NEW d \in Daemons, DaemonEnter(d) \/ OpenFail(d) \/ RunEnd(d)
        PROVE  WorkerWatched'
    <2>1. \/ d \in Entered /\ (Turn(d, count) \/ Leave(d, count))
          \/ d \notin Entered /\ Turn(d, count + 1)
      BY <1>1 DEF DaemonEnter, OpenFail, RunEnd, Entered
    <2>2. CASE \E w \in {"open", "last"} : dpc' = [dpc EXCEPT ![d] = w]
      BY <2>2 DEF WorkerWatched, PlainTypes
    <2>3. CASE dpc' = [dpc EXCEPT ![d] = "none"] /\ d \in Entered /\ count # 1
      <3>1. PICK e \in Entered : e # d
        BY <2>3, AnotherEntered
      <3> QED
        BY <2>3, <3>1 DEF WorkerWatched, PlainTypes, Entered
    <2>4. CASE dpc' = [dpc EXCEPT ![d] = "none"] /\ d \notin Entered /\ count # 0
      <3>1. PICK e \in Entered : e # d
        BY <2>4, AnotherEntered
      <3> QED
        BY <2>4, <3>1 DEF WorkerWatched, PlainTypes, Entered
    <2>5. count + 1 # 1 => count # 0
      BY Counters
    <2> QED
      BY <2>1, <2>2, <2>3, <2>4, <2>5 DEF Turn, Leave
  <1>2. ASSUME NEW d \in Daemons, OpenOk(d) PROVE WorkerWatched'
    <2>1. dpc'[d] = "run"
      BY <1>2, SpawnEffect DEF OpenOk, Free, PlainTypes
    <2> QED
      BY <2>1 DEF WorkerWatched
  <1>3. ASSUME NEW d \in Daemons, StopWorker(d) PROVE WorkerWatched'
    BY <1>3 DEF StopWorker, WorkerWatched, PlainTypes
  <1>4. ASSUME NEW d \in Daemons, LastLeaves(d) PROVE WorkerWatched'
    BY <1>4 DEF LastLeaves, WorkerWatched, PlainTypes
  <1>5. CASE WorkerEnter
    BY <1>5 DEF WorkerEnter, WorkerWatched
  <1>6. CASE \E sync, worker \in BOOLEAN : StartWith(sync, worker)
    <2>1. dpc'[Main] = "created"
      BY <1>6, ServiceAssumption DEF StartWith, PlainTypes
    <2> QED
      BY <2>1, ServiceAssumption DEF WorkerWatched
  <1>7. CASE UNCHANGED <<dpc, kpc>>
    BY <1>7 DEF WorkerWatched
  <1>8. CASE OwnerStep \/ WaitStopRound \/ JoinSpurious \/ StartFail
    BY <1>7, <1>8 DEF OwnerStep, PollEnd, HandlerReturned, WaitStopEnd, JoinWait, JoinDone,
                cavan_dynamic_service_destroy, WaitStopRound, JoinSpurious, StartFail
  <1>9. ASSUME NEW s \in Stoppers, Find(s) \/ Stopper(s) PROVE WorkerWatched'
    BY <1>7, <1>9 DEF Find, Stopper, cavan_dynamic_service_stop, StopRound, Unregister
  <1> QED
    BY <1>1, <1>2, <1>3, <1>4, <1>5, <1>6, <1>8, <1>9 DEF ServiceNext, Daemon

\* Where a stopper's step leaves the ones that wait.
LEMMA StopperEffect ==
    ASSUME PlainTypes, NEW s \in Stoppers, Find(s) \/ Stopper(s)
    PROVE  \/ Inside' = Inside /\ UNCHANGED <<stopping, odd>>
           \/ Inside' = Inside \ {s} /\ (Inside' # {} => "cleared" \in odd')
           \/ /\ Inside' = Inside \cup {s} /\ stopping' /\ Alive
              /\ state = "RUNNING"
  <1> USE DEF PlainTypes, Inside
  <1>1. CASE Find(s) \/ Unregister(s)
    BY <1>1 DEF Find, Unregister
  <1>2. CASE cavan_dynamic_service_stop(s)
    BY <1>2 DEF cavan_dynamic_service_stop, StopEnd, StopWait, Locked
  <1>3. CASE StopRound(s)
    BY <1>3 DEF StopRound, StopEnd, StopWait
  <1> QED
    BY <1>1, <1>2, <1>3 DEF Stopper

\* service->stopping covers the stops that wait.
LEMMA VisibleStep ==
    ASSUME PlainTypes, BeforeStart, StopVisible, ServiceNext, odd \subseteq odd'
    PROVE  StopVisible'
  <1>1. CASE UNCHANGED <<spc, stopping>>
    BY <1>1 DEF StopVisible, Inside
  <1>2. ASSUME NEW d \in Daemons, Daemon(d) PROVE UNCHANGED <<spc, stopping>>
    BY <1>2 DEF Daemon, DaemonEnter, OpenFail, OpenOk, RunEnd, StopWorker, LastLeaves
  <1>3. CASE \E sync, worker \in BOOLEAN : StartWith(sync, worker)
    BY <1>3 DEF StartWith, BeforeStart, StopVisible, Inside
  <1>4. CASE WorkerEnter \/ OwnerStep \/ WaitStopRound \/ JoinSpurious \/ StartFail
    BY <1>1, <1>4 DEF WorkerEnter, OwnerStep, PollEnd, HandlerReturned, WaitStopEnd, JoinWait,
                JoinDone, cavan_dynamic_service_destroy, WaitStopRound, JoinSpurious, StartFail
  <1>5. ASSUME NEW s \in Stoppers, Find(s) \/ Stopper(s) PROVE StopVisible'
    <2>1. CASE Inside' = Inside /\ UNCHANGED <<stopping, odd>>
      BY <2>1 DEF StopVisible
    <2>2. CASE Inside' = Inside \ {s} /\ (Inside' # {} => "cleared" \in odd')
      BY <2>2 DEF StopVisible
    <2> QED
      BY <1>5, <2>1, <2>2, StopperEffect DEF StopVisible
  <1> QED
    BY <1>1, <1>2, <1>3, <1>4, <1>5 DEF ServiceNext

\* Nothing comes back after a join.
LEMMA AfterJoinStep ==
    ASSUME CountInv, StopVisible, AfterJoin, ServiceNext, odd \subseteq odd'
    PROVE  AfterJoin'
  <1> USE DEF CountInv
  <1>1. ASSUME NEW d \in Daemons, Daemon(d) PROVE AfterJoin'
    <2>1. dpc[d] # "none" /\ UNCHANGED <<opc, spc>> /\ (state' = state \/ state' = "STOPPED")
      BY <1>1 DEF Daemon, DaemonEnter, OpenFail, OpenOk, RunEnd, StopWorker, LastLeaves
    <2>2. Inside' = Inside
      BY <2>1 DEF Inside
    <2> QED
      BY <2>1, <2>2 DEF AfterJoin
  <1>2. CASE \E sync, worker \in BOOLEAN : StartWith(sync, worker)
    <2>1. opc' \in {"handler", "poll"}
      BY <1>2 DEF StartWith
    <2> QED
      BY <2>1 DEF AfterJoin
  <1>3. CASE StartFail
    <2>1. opc' = "failed"
      BY <1>3 DEF StartFail
    <2> QED
      BY <2>1 DEF AfterJoin
  <1>4. CASE WorkerEnter \/ WaitStopRound \/ JoinSpurious
    <2>1. UNCHANGED <<opc, spc, dpc>> /\ (state' = state \/ state' = "STOPPED")
      BY <1>4 DEF WorkerEnter, WaitStopRound, JoinSpurious
    <2>2. Inside' = Inside
      BY <2>1 DEF Inside
    <2> QED
      BY <2>1, <2>2 DEF AfterJoin
  <1>5. CASE PollEnd \/ HandlerReturned \/ JoinWait
    <2>1. opc' \in {"started", "waitstart", "joinwait"}
      BY <1>5 DEF PollEnd, HandlerReturned, JoinWait
    <2> QED
      BY <2>1 DEF AfterJoin
  <1>6. CASE WaitStopEnd
    <2>1. /\ UNCHANGED <<spc, dpc, state>>
          /\ opc' = "started" \/ (opc = "waitjoin" /\ opc' = "joined")
          /\ stopping => "gave up" \in odd'
      BY <1>6 DEF WaitStopEnd
    <2>2. Inside' = Inside
      BY <2>1 DEF Inside
    <2> QED
      BY <2>1, <2>2 DEF AfterJoin, StopVisible
  <1>7. CASE JoinDone
    <2>1. opc' = "waitjoin" /\ state' = "STOPPED" /\ dpc' = dpc
      BY <1>7 DEF JoinDone
    <2>2. Entered = {}
      BY <1>7, CountFacts, FS_EmptySet DEF JoinDone, Counted
    <2>3. "late" \in odd' \/ Created = {}
      BY <1>7 DEF JoinDone
    <2>4. \A d \in Daemons : dpc[d] \in {"none", "created"}
      BY <1>7, <2>2 DEF JoinDone, LockFree, Entered, PlainTypes, DaemonPC
    <2> QED
      BY <2>1, <2>3, <2>4 DEF AfterJoin, Created
  <1>8. CASE cavan_dynamic_service_destroy
    <2>1. opc \in {"joined", "failed"} /\ opc' = "destroyed" /\ UNCHANGED <<dpc, spc, odd>>
      BY <1>8 DEF cavan_dynamic_service_destroy
    <2>2. Inside' = Inside
      BY <2>1 DEF Inside
    <2>3. opc = "failed" => Inside = {} /\ \A d \in Daemons : dpc[d] = "none"
      BY DEF BeforeStart, Inside
    <2> QED
      BY <2>1, <2>2, <2>3 DEF AfterJoin
  <1>9. ASSUME NEW s \in Stoppers, Find(s) \/ Stopper(s) PROVE AfterJoin'
    <2>1. UNCHANGED <<opc, dpc>> /\ (state' = state \/ state = "RUNNING")
      BY <1>9 DEF Find, Stopper, cavan_dynamic_service_stop, StopRound, Unregister
    <2>2. opc # "destroyed"
      BY <1>9 DEF Find, Stopper, cavan_dynamic_service_stop, StopRound, Unregister, Locked, Alive
    <2>3. opc = "joined" => Inside' \subseteq Inside
      BY <1>9, StopperEffect DEF AfterJoin
    <2> QED
      BY <2>1, <2>2, <2>3 DEF AfterJoin
  <1> QED
    BY <1>1, <1>2, <1>3, <1>4, <1>5, <1>6, <1>7, <1>8, <1>9 DEF ServiceNext, OwnerStep

-----------------------------------------------------------------------------
(* The theorems.                                                             *)

\* Every step of every thread keeps the invariant.
LEMMA ServiceStep ==
    ASSUME ServiceInv, [ServiceNext]_vars
    PROVE  ServiceInv'
  <1>1. CASE ServiceNext
    <2>1. PlainTypes' /\ odd \subseteq odd'
      <3>1. CASE WorkerEnter
        BY <3>1 DEF WorkerEnter, ServiceInv, CountInv, PlainTypes
      <3> QED
        BY <1>1, <3>1, DaemonTypes, OwnerTypes, StopperTypes DEF ServiceNext, ServiceInv, CountInv
    <2>2. PoolInv'
      BY <1>1, <2>1, PoolStep DEF ServiceInv, CountInv, PoolInv
    <2>3. BeforeStart'
      BY <1>1, BeforeStartStep DEF ServiceInv, CountInv
    <2>4. JoinInv'
      BY <1>1, <2>1, WatchedStep, VisibleStep, AfterJoinStep DEF ServiceInv, CountInv, JoinInv
    <2> QED
      BY <2>1, <2>2, <2>3, <2>4 DEF ServiceInv, CountInv, PoolInv
  <1>2. CASE UNCHANGED vars
    <2> USE <1>2 DEF vars
    <2>1. PlainTypes'
      BY DEF ServiceInv, CountInv, PlainTypes
    <2>2. Counted' /\ BeforeStart'
      BY DEF ServiceInv, CountInv, Counted, BeforeStart, Entered, Serving
    <2>3. AcceptorAvailable' /\ DaemonsBounded'
      BY DEF ServiceInv, AcceptorAvailable, DaemonsBounded, Created
    <2>4. JoinInv'
      BY DEF ServiceInv, JoinInv, WorkerWatched, StopVisible, AfterJoin, Inside
    <2> QED
      BY <2>1, <2>2, <2>3, <2>4 DEF ServiceInv, CountInv
  <1> QED
    BY <1>1, <1>2

\* The invariant of the dynamic service: the counters count the daemons, and what is
\* there follows the owner from start to destroy.
THEOREM ServiceInvariant == ServiceSpec => []ServiceInv
  BY InitInv, ServiceStep, PTL DEF ServiceSpec, ServiceSafeSpec

\* The service's types: count and used never leave 0 .. the number of threads, so no
\* decrement under service->lock goes below zero.
THEOREM ServiceTypes == ServiceSpec => []ServiceTypeOK
  <1>1. ServiceInv => ServiceTypeOK
    <2> SUFFICES ASSUME ServiceInv PROVE ServiceTypeOK
      OBVIOUS
    <2>1. count \in 0..Cardinality(Daemons) /\ used \in 0..Cardinality(Daemons)
      <3>1. count \in Nat /\ used \in Nat /\ used <= count /\ count <= Cardinality(Daemons)
        BY Counters DEF ServiceInv, CountInv
      <3>2. Cardinality(Daemons) \in Nat
        BY ServiceAssumption, FS_CardinalityType
      <3> QED
        BY <3>1, <3>2
    <2> QED
      BY <2>1, Zenon DEF ServiceInv, CountInv, PlainTypes, OddEvents, ServiceTypeOK
  <1> QED
    BY <1>1, ServiceInvariant, PTL

\* A running service always has a daemon that accepts or is about to, whatever min
\* and max are: the growing and the shrinking of cavan_dynamic_service_handler agree.
THEOREM AcceptorsAvailable == ServiceSpec => []AcceptorAvailable
  <1>1. ServiceInv => AcceptorAvailable
    BY DEF ServiceInv
  <1> QED
    BY <1>1, ServiceInvariant, PTL

\* service->max bounds the daemons unless one is created while another has not
\* counted itself.
THEOREM PoolBounded == ServiceSpec => []DaemonsBounded
  <1>1. ServiceInv => DaemonsBounded
    BY DEF ServiceInv
  <1> QED
    BY <1>1, ServiceInvariant, PTL

\* When cavan_dynamic_service_join has returned no thread of the service is left, but
\* for the races that JoinedQuiet names.
THEOREM JoinLeavesQuiet == ServiceSpec => []JoinedQuiet
  <1>1. ServiceInv => JoinedQuiet
    BY DEF ServiceInv, JoinInv, WorkerWatched, AfterJoin, JoinedQuiet
  <1> QED
    BY <1>1, ServiceInvariant, PTL
=============================================================================
