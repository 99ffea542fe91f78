---------------------------- MODULE CavanDataQueue ----------------------------
(***************************************************************************)
(* cavan_data_queue of lib/queue.c: producers take a node from a pool      *)
(* (lib/pool.c), fill it, append it to a linked list (lib/list.c) and      *)
(* resume the worker of CavanThread, whose handler pops one node per call, *)
(* hands it to the user's handler, gives it back, and suspends the worker  *)
(* when the list is empty.                                                 *)
(*                                                                         *)
(* Each list has a lock of its own and the worker has a third one, so      *)
(* "append, then resume" and "pop nothing, then suspend" interleave.       *)
(***************************************************************************)
EXTENDS CavanThread, Sequences, SequencesExt

CONSTANTS
    Producers,    \* threads that call cavan_data_queue_get_node and _append
    PoolNodes,    \* the nodes of the pool's one malloc'ed block
    HeapNodes,    \* the nodes malloc can still provide when the pool is empty
    NoNode,       \* a NULL node pointer
    MaxItems      \* bound: items each producer sends

ASSUME QueueAssumption == /\ IsFiniteSet(PoolNodes)
                          /\ PoolNodes \cap HeapNodes = {}
                          /\ NoNode \notin PoolNodes \cup HeapNodes
                          /\ MaxItems \in Nat

VARIABLES
    link,         \* queue->link, first node first
    pool,         \* queue->pool.link
    heap,         \* nodes malloc'ed by cavan_data_pool_alloc and not yet freed
    body,         \* the message stored in each node
    ppc,          \* where each producer is
    got,          \* the node each producer is filling
    sent,         \* history: items each producer has put into a node
    hpc,          \* where the worker is in cavan_data_queue_thread_handler
    cur,          \* that handler's local node
    appended,     \* history: items appended, in order
    handled       \* history: items given to queue->handler, in order

queueVars == <<link, pool, heap, body, ppc, got, sent, hpc, cur, appended, handled>>
vars == <<threadVars, queueVars>>

Nodes == PoolNodes \cup HeapNodes
Items == Producers \X (1..MaxItems)

QueueTypeOK ==
    /\ TypeOK
    /\ link \in Seq(Nodes)
    /\ pool \in Seq(PoolNodes)
    /\ heap \subseteq HeapNodes
    /\ body \in [Nodes -> Items \cup {NoNode}]
    /\ ppc \in [Producers -> {"idle", "append", "resume"}]
    /\ got \in [Producers -> Nodes \cup {NoNode}]
    /\ sent \in [Producers -> 0..MaxItems]
    /\ hpc \in {"pop", "handle", "free", "suspend", "return"}
    /\ cur \in Nodes \cup {NoNode}
    /\ appended \in Seq(Items)
    /\ handled \in Seq(Items)

\* cavan_data_queue_init: the default wake handler, every block node in the pool.
QueueInit ==
    /\ ThreadInit
    /\ wake_handker = "none"
    /\ link = <<>>
    /\ pool \in SetToSeqs(PoolNodes)
    /\ heap = {}
    /\ body = [n \in Nodes |-> NoNode]
    /\ ppc = [p \in Producers |-> "idle"]
    /\ got = [p \in Producers |-> NoNode]
    /\ sent = [p \in Producers |-> 0]
    /\ hpc = "pop"
    /\ cur = NoNode
    /\ appended = <<>>
    /\ handled = <<>>

-----------------------------------------------------------------------------
(* The producers.                                                           *)

\* The producer has node n: it writes its next item into it.
Fill(p, n) ==
    /\ body' = [body EXCEPT ![n] = <<p, sent[p] + 1>>]
    /\ got' = [got EXCEPT ![p] = n]
    /\ sent' = [sent EXCEPT ![p] = sent[p] + 1]
    /\ ppc' = [ppc EXCEPT ![p] = "append"]
    /\ UNCHANGED <<link, hpc, cur, appended, handled, threadVars>>

\* cavan_data_pool_alloc: pop the pool's list, malloc when it is empty.  When
\* malloc fails too the caller drops its message and nothing changes.
GetNodeNoPop(p) ==
    /\ ppc[p] = "idle" /\ sent[p] < MaxItems /\ ~destroyed
    /\ \/ /\ pool # <<>>
          /\ Fill(p, Head(pool))
          /\ UNCHANGED <<pool, heap>>
       \/ /\ pool = <<>>
          /\ \E n \in HeapNodes \ heap :
                /\ Fill(p, n)
                /\ heap' = heap \cup {n}
          /\ UNCHANGED pool

GetNode(p) ==
    /\ ppc[p] = "idle" /\ sent[p] < MaxItems /\ ~destroyed
    /\ \/ /\ pool # <<>>
          /\ Fill(p, Head(pool))
          /\ pool' = Tail(pool)
          /\ UNCHANGED heap
       \/ /\ pool = <<>>
          /\ \E n \in HeapNodes \ heap :
                /\ Fill(p, n)
                /\ heap' = heap \cup {n}
          /\ UNCHANGED pool

\* cavan_data_queue_append, its first half: double_link_append.
AppendPushesFront(p) ==
    /\ ppc[p] = "append"
    /\ link' = <<got[p]>> \o link
    /\ appended' = Append(appended, body[got[p]])
    /\ got' = [got EXCEPT ![p] = NoNode]
    /\ ppc' = [ppc EXCEPT ![p] = "resume"]
    /\ UNCHANGED <<pool, heap, body, sent, hpc, cur, handled, threadVars>>

AppendNode(p) ==
    /\ ppc[p] = "append"
    /\ link' = Append(link, got[p])
    /\ appended' = Append(appended, body[got[p]])
    /\ got' = [got EXCEPT ![p] = NoNode]
    /\ ppc' = [ppc EXCEPT ![p] = "resume"]
    /\ UNCHANGED <<pool, heap, body, sent, hpc, cur, handled, threadVars>>

\* cavan_data_queue_append, its second half: cavan_thread_resume.
ResumeWorkerNoPending(p) ==
    /\ ppc[p] = "resume"
    /\ IF state \in {"SUSPEND", "SLEEP"} THEN Resume
       ELSE UNCHANGED <<state, pending, piped, signalled>>
    /\ ppc' = [ppc EXCEPT ![p] = "idle"]
    /\ UNCHANGED <<wake_handker, wpc, killed, cpc, tries, destroyed, raced, asked,
                   link, pool, heap, body, got, sent, hpc, cur, appended, handled>>

ResumeWorker(p) ==
    /\ ppc[p] = "resume"
    /\ Resume
    /\ ppc' = [ppc EXCEPT ![p] = "idle"]
    /\ UNCHANGED <<wake_handker, wpc, killed, cpc, tries, destroyed, raced, asked,
                   link, pool, heap, body, got, sent, hpc, cur, appended, handled>>

Produce(p) == GetNode(p) \/ AppendNode(p) \/ ResumeWorker(p)

-----------------------------------------------------------------------------
(* The worker's handler, cavan_data_queue_thread_handler.                   *)

Pop ==
    /\ wpc = "handler" /\ hpc = "pop"
    /\ \/ /\ link = <<>>
          /\ hpc' = "suspend"
          /\ UNCHANGED <<link, cur>>
       \/ /\ link # <<>>
          /\ cur' = Head(link)
          /\ link' = Tail(link)
          /\ hpc' = "handle"
    /\ UNCHANGED <<pool, heap, body, ppc, got, sent, appended, handled, threadVars>>

\* queue->handler reads the message of the node.
Handle ==
    /\ wpc = "handler" /\ hpc = "handle"
    /\ handled' = Append(handled, body[cur])
    /\ hpc' = "free"
    /\ UNCHANGED <<link, pool, heap, body, ppc, got, sent, cur, appended, threadVars>>

\* cavan_data_pool_node_free calls node->destroy: cavan_data_pool_node_destroy
\* for a node of the block, cavan_data_pool_node_destroy2 for a malloc'ed one.
Free ==
    /\ wpc = "handler" /\ hpc = "free"
    /\ \/ /\ cur \in PoolNodes
          /\ pool' = Append(pool, cur)
          /\ UNCHANGED heap
       \/ /\ cur \in HeapNodes
          /\ heap' = heap \ {cur}
          /\ UNCHANGED pool
    /\ cur' = NoNode
    /\ hpc' = "return"
    /\ UNCHANGED <<link, body, ppc, got, sent, appended, handled, threadVars>>

\* The list was empty: cavan_thread_suspend on the worker itself.
SuspendSelf ==
    /\ hpc = "suspend"
    /\ HandlerSuspend
    /\ hpc' = "return"
    /\ UNCHANGED <<link, pool, heap, body, ppc, got, sent, cur, appended, handled>>

\* return 0 to the main loop; the next call starts at the pop.
Return ==
    /\ hpc = "return"
    /\ HandlerReturn
    /\ hpc' = "pop"
    /\ UNCHANGED <<link, pool, heap, body, ppc, got, sent, cur, appended, handled>>

\* The steps of the main loop outside the handler.
Loop == (MainEntry \/ CondWaitReturn \/ SigHandler) /\ UNCHANGED queueVars

Work == Pop \/ Handle \/ Free \/ SuspendSelf \/ Return \/ Loop

-----------------------------------------------------------------------------
\* cavan_data_queue_start and _stop are the thread's.  cavan_data_queue_deinit
\* runs when the producers have stopped (cavan_input_service_stop).
Manage(c) ==
    \/ (cavan_thread_start(c) \/ cavan_thread_stop(c) \/ Stop(c)) /\ UNCHANGED queueVars
    \/ /\ \A p \in Producers : ppc[p] = "idle"
       /\ cavan_thread_deinit(c)
       /\ UNCHANGED queueVars

QueueNext ==
    \/ Work
    \/ \E p \in Producers : Produce(p)
    \/ \E c \in Controllers : Manage(c)

\* Threads that can run do, and the user's handler returns.  A wait that nobody
\* signals need not end.  A controller need not start, and producers need not
\* produce, but a producer finishes an append it began.
QueueFairness ==
    /\ WF_vars(Pop \/ Handle \/ Free \/ SuspendSelf \/ Return)
    /\ WF_vars(MainEntry /\ UNCHANGED queueVars)
    /\ WF_vars(signalled /\ CondWaitReturn /\ UNCHANGED queueVars)
    /\ WF_vars(SigHandler /\ UNCHANGED queueVars)
    /\ \A p \in Producers : WF_vars(AppendNode(p) \/ ResumeWorker(p))
    /\ \A c \in Controllers : WF_vars(Stop(c) /\ UNCHANGED queueVars)

QueueSafeSpec == QueueInit /\ [][QueueNext]_vars
QueueSpec == QueueSafeSpec /\ QueueFairness

-----------------------------------------------------------------------------
(* Properties.                                                              *)

Resuming == \E p \in Producers : ppc[p] = "resume"

\* A worker asleep with no signal on its way and a non-empty list has a producer
\* between its append and its resume: the item cannot be forgotten, although the
\* list and the worker's state are under two different locks.
NoForgottenItem ==
    wpc = "cond_wait" /\ state = "SUSPEND" /\ link # <<>> => Resuming

\* What makes it inductive: from the moment the handler found the list empty, an
\* appended item is covered by thread->pending or by a producer about to resume.
ItemCovered ==
    (hpc = "suspend" \/ state = "SUSPEND") /\ link # <<>> => pending \/ Resuming

\* A node is in one place at a time: the pool's list, a producer's hands, the
\* queue's list or the worker's; a malloc'ed one is live while it is in use.
NodeOwned ==
    /\ IsInjective(link)
    /\ IsInjective(pool)
    /\ Range(pool) \cap Range(link) = {}
    /\ cur \notin Range(pool) \cup Range(link)
    /\ \A p \in Producers : ppc[p] = "append" =>
          /\ got[p] \notin Range(pool) \cup Range(link) \cup {cur}
          /\ \A q \in Producers \ {p} : got[q] # got[p]
          /\ got[p] \in PoolNodes \cup heap
    /\ Range(link) \cup {cur} \subseteq PoolNodes \cup heap \cup {NoNode}

\* No item is lost, repeated, reordered or overwritten by a recycled node: what
\* was appended is what was handled, then the item in the handler's hands, then
\* the list.
Delivered ==
    appended = handled \o (IF hpc = "handle" THEN <<body[cur]>> ELSE <<>>)
                       \o [i \in DOMAIN link |-> body[link[i]]]

\* Once the worker has been started, every appended item is handled unless
\* somebody stops the queue.
ItemHandled ==
    \A it \in Items :
        (wpc # "none" /\ it \in Range(appended))
            ~> (it \in Range(handled) \/ state \in {"STOPPPING", "STOPPED"})
=============================================================================
