------------------------------- MODULE JwpLink -------------------------------
(***************************************************************************)
(* The JWP packet protocol of lib/jwp.c in its Linux configuration         *)
(* (include/cavan/jwp-linux.h): stop-and-wait with one package in flight   *)
(* per end, an index that wraps, resending after a timeout and giving up   *)
(* after JWP_TX_RETRY_COUNT tries, and SYNC to restart both indices.       *)
(*                                                                         *)
(* Each end has one application thread that sends, and two threads fill    *)
(* the receiver and process packages: jwp_rx_package_loop, and the sender  *)
(* while it polls for its acknowledgement.  Both use the one rx_pkg, and   *)
(* receiver->lock is not held while a package is processed: a thread that  *)
(* fills it meanwhile overwrites what the other one still reads.  A write  *)
(* to a line that takes nothing is tried again and again.  The line keeps  *)
(* the order of packages and may lose any of them.                         *)
(***************************************************************************)
EXTENDS Naturals, Sequences, FiniteSets, SequencesExt

CONSTANTS
    Mod,          \* the range of jwp_u8 indices
    Tries,        \* JWP_TX_RETRY_COUNT
    LineCap,      \* packages a line holds, besides the one in rx_pkg
    MaxSend,      \* bound: messages each end sends
    MaxSends,     \* bound: messages both ends send
    MaxSyncs,     \* bound: calls of jwp_send_sync
    MaxOdd,       \* bound: messages sent before the last odd event
    Beyond        \* bound: whether calls, losses and overwriting go on after one

ASSUME JwpAssumption ==
    /\ {Tries, LineCap} \subseteq Nat \ {0}
    /\ Mod \in Nat /\ Mod > 2
    /\ MaxSend \in [{"a", "b"} -> Nat] /\ {MaxSends, MaxSyncs, MaxOdd} \subseteq Nat
    /\ Beyond \in BOOLEAN

Ends == {"a", "b"}
Peer(e) == IF e = "a" THEN "b" ELSE "a"

\* The threads that fill the receiver, and where they are in jwp_process_package: before
\* the index is compared, before rx_index is set (jwp->lock held), before the answer.
Fillers == {"loop", "poll"}
Other(t) == IF t = "loop" THEN "poll" ELSE "loop"
Stages == {"none", "check", "set", "ack"}

VARIABLES
    tx_index, rx_index, send_pendding,
    tpc,          \* where the application thread of each end is
    index,        \* hdr->index of the package being sent
    retry,        \* send_retry
    sent,         \* messages given to jwp_send_package so far; also the current one
    line,         \* packages each end has not processed, in order; rx_pkg is the first
    at,           \* the stage of each end's filling threads
    data,         \* receiver.data: nothing, or the message waiting for room
    syncs,        \* calls of jwp_send_sync so far
    arrived,      \* history: the messages each end accepted, in order
    completed,    \* history: the messages whose send returned true
    odd           \* history: what the protocol does not recover from

vars == <<tx_index, rx_index, send_pendding, tpc, index, retry, sent, line, at, data,
          syncs, arrived, completed, odd>>
sender == <<tpc, index, retry, sent, syncs, completed>>
receiver == <<data, arrived>>

Package == [type : {"DATA", "CMD"}, index : 0..(Mod - 1), msg : Nat]
           \cup [type : {"ACK", "SYNC"}, index : 0..(Mod - 1)]

JwpTypeOK ==
    /\ {tx_index, rx_index, index} \subseteq [Ends -> 0..(Mod - 1)]
    /\ send_pendding \in [Ends -> BOOLEAN]
    /\ tpc \in [Ends -> {"idle", "set", "write", "poll", "sync"}]
    /\ retry \in [Ends -> 0..Tries]
    /\ at \in [Ends -> [Fillers -> Stages]]
    /\ \A e \in Ends :
        /\ sent[e] \in 0..MaxSend[e]
        /\ line[e] \in Seq(Package) /\ Len(line[e]) <= LineCap + 1
        /\ Len(data[e]) <= 1
        /\ completed[e] \subseteq 1..sent[e]
        /\ ToSet(arrived[e]) \subseteq 1..sent[Peer(e)]
    /\ syncs \in 0..MaxSyncs
    /\ odd \subseteq {"gave up", "sync", "overwritten"}

\* jwp_init on both sides.
JwpInit ==
    /\ tx_index = [e \in Ends |-> 0] /\ rx_index = tx_index /\ index = tx_index
    /\ retry = tx_index /\ sent = tx_index
    /\ send_pendding = [e \in Ends |-> FALSE]
    /\ tpc = [e \in Ends |-> "idle"]
    /\ line = [e \in Ends |-> <<>>] /\ data = line /\ arrived = line
    /\ at = [e \in Ends |-> [t \in Fillers |-> "none"]]
    /\ completed = [e \in Ends |-> {}]
    /\ syncs = 0 /\ odd = {}

NextIndex(i) == (i + 1) % Mod

\* rx_pkg is read by a thread that processes it; one of them holds jwp->lock.
InUse(e) == \E t \in Fillers : at[e][t] # "none"
Locked(e) == \E t \in Fillers : at[e][t] = "set"

\* jwp_hw_write: hw_write is called until the line has taken the whole package.
Room(e) == Len(line[e]) < LineCap + (IF InUse(e) THEN 1 ELSE 0)
Put(l, e, pkg) == [l EXCEPT ![e] = Append(@, pkg)]

Bounded ==
    /\ odd = {} \/ Beyond
    /\ odd' = odd \/ sent["a"] + sent["b"] <= MaxOdd

\* Copies of the end's current message or its acknowledgement that still travel.
InFlight(e) ==
    \/ \E i \in DOMAIN line[Peer(e)] : line[Peer(e)][i].type \in {"DATA", "CMD"}
    \/ \E i \in DOMAIN line[e] : line[e][i].type = "ACK"
\* The other end's SYNC is on its way, or its own indices are still to be reset.
Syncing(e) ==
    \/ \E i \in DOMAIN line[e] : line[e][i].type = "SYNC"
    \/ tpc[Peer(e)] = "sync"

-----------------------------------------------------------------------------
(* The application thread: jwp_send_package with sync, and jwp_send_sync.      *)

\* jwp_wait_and_set_send_pendding: waits while a package is pending.
jwp_send_package(e) ==
    /\ tpc[e] = "idle" /\ ~send_pendding[e] /\ ~Locked(e)
    /\ sent[e] < MaxSend[e] /\ sent[e] + sent[Peer(e)] < MaxSends
    /\ send_pendding' = [send_pendding EXCEPT ![e] = TRUE]
    /\ sent' = [sent EXCEPT ![e] = @ + 1]
    /\ tpc' = [tpc EXCEPT ![e] = "set"]
    /\ odd' = IF Syncing(e) THEN odd \cup {"sync"} ELSE odd
    /\ Bounded
    /\ UNCHANGED <<tx_index, rx_index, index, retry, line, at, syncs, completed, receiver>>

jwp_set_package_index(e) ==
    /\ tpc[e] = "set" /\ ~Locked(e)
    /\ index' = [index EXCEPT ![e] = NextIndex(tx_index[e])]
    /\ retry' = [retry EXCEPT ![e] = Tries]
    /\ tpc' = [tpc EXCEPT ![e] = "write"]
    /\ UNCHANGED <<tx_index, rx_index, send_pendding, sent, line, at, syncs, completed, odd,
                   receiver>>

\* jwp_send_and_wait_ack: write, poll for the acknowledgement, write again.  Odd
\* messages are data, even ones commands.
TypeOf(n) == IF n % 2 = 1 THEN "DATA" ELSE "CMD"

Write(e) ==
    /\ tpc[e] = "write" /\ Room(Peer(e))
    /\ line' = Put(line, Peer(e), [type |-> TypeOf(sent[e]), index |-> index[e], msg |-> sent[e]])
    /\ tpc' = [tpc EXCEPT ![e] = "poll"]
    /\ UNCHANGED <<tx_index, rx_index, send_pendding, at, index, retry, sent, syncs, completed, odd,
                   receiver>>

\* The sender is between two of its polls, each of which may fill the receiver.
Polling(e) == tpc[e] = "poll" /\ at[e]["poll"] = "none"

jwp_wait_tx_complete(e) ==
    /\ Polling(e) /\ ~send_pendding[e] /\ ~Locked(e)
    /\ tpc' = [tpc EXCEPT ![e] = "idle"]
    /\ completed' = [completed EXCEPT ![e] = @ \cup {sent[e]}]
    /\ UNCHANGED <<tx_index, rx_index, send_pendding, at, index, retry, sent, line, syncs, odd,
                   receiver>>

RetryForever(e) ==
    /\ Polling(e)
    /\ tpc' = [tpc EXCEPT ![e] = "write"]
    /\ UNCHANGED <<tx_index, rx_index, send_pendding, at, index, retry, sent, line, syncs, completed,
                   odd, receiver>>

\* The polls are over; what the last one filled in is not looked at, so this happens also
\* when the acknowledgement has just been processed.
Retry(e) ==
    /\ Polling(e) /\ retry[e] > 1
    /\ retry' = [retry EXCEPT ![e] = @ - 1]
    /\ tpc' = [tpc EXCEPT ![e] = "write"]
    /\ UNCHANGED <<tx_index, rx_index, send_pendding, at, index, sent, line, syncs, completed, odd,
                   receiver>>

\* remote_not_response.  The index of a package given up unacknowledged is used again, so
\* it matters whether the other end has seen it.
GiveUp(e) ==
    /\ Polling(e) /\ retry[e] = 1 /\ ~Locked(e)
    /\ send_pendding' = [send_pendding EXCEPT ![e] = FALSE]
    /\ tpc' = [tpc EXCEPT ![e] = "idle"]
    /\ odd' = IF send_pendding[e] /\ (InFlight(e) \/ sent[e] \in ToSet(arrived[Peer(e)]))
              THEN odd \cup {"gave up"} ELSE odd
    /\ UNCHANGED <<tx_index, rx_index, at, index, retry, sent, line, syncs, completed, receiver>>

\* The three SYNC packages follow each other on the line and have the same effect, so
\* one stands for those that arrive.
jwp_send_sync(e) ==
    /\ tpc[e] = "idle" /\ syncs < MaxSyncs /\ Room(Peer(e))
    /\ syncs' = syncs + 1
    /\ line' = Put(line, Peer(e), [type |-> "SYNC", index |-> 0])
    /\ tpc' = [tpc EXCEPT ![e] = "sync"]
    /\ odd' = IF line # [x \in Ends |-> <<>>] \/ tpc[Peer(e)] # "idle"
              THEN odd \cup {"sync"} ELSE odd
    /\ Bounded
    /\ UNCHANGED <<tx_index, rx_index, send_pendding, at, index, retry, sent, completed, receiver>>

jwp_index_init(e) ==
    /\ tpc[e] = "sync" /\ ~Locked(e)
    /\ tx_index' = [tx_index EXCEPT ![e] = 0]
    /\ rx_index' = [rx_index EXCEPT ![e] = 0]
    /\ tpc' = [tpc EXCEPT ![e] = "idle"]
    /\ odd' = IF tpc[Peer(e)] # "idle" THEN odd \cup {"sync"} ELSE odd
    /\ UNCHANGED <<send_pendding, at, index, retry, sent, line, syncs, completed, receiver>>

-----------------------------------------------------------------------------
(* Filling the receiver and jwp_process_package, on either thread.             *)

Took(e) == [line EXCEPT ![e] = Tail(@)]
CanFill(e, t) == at[e][t] = "none" /\ (t = "poll" => tpc[e] = "poll")
MayRun(e, t, stage) == at[e][t] = stage /\ at[e][Other(t)] # "set"
Moves(e, t, stage) == at' = [at EXCEPT ![e][t] = stage]

\* A package is in rx_pkg: receiver->lock is released and the package processed.  One
\* still processed by the other thread is gone.
Fill(e, t) ==
    /\ CanFill(e, t) /\ line[e] # <<>> /\ Moves(e, t, "check")
    /\ IF InUse(e)
       THEN Len(line[e]) > 1 /\ line' = Took(e) /\ odd' = odd \cup {"overwritten"} /\ Bounded
       ELSE UNCHANGED <<line, odd>>
    /\ UNCHANGED <<tx_index, rx_index, send_pendding, sender, receiver>>

\* Only the header has come so far; it replaces that of the package being processed.
FillPart(e, t) ==
    /\ CanFill(e, t) /\ InUse(e) /\ Len(line[e]) > 1
    /\ line' = [line EXCEPT ![e][1] = line[e][2]]
    /\ odd' = odd \cup {"overwritten"}
    /\ Bounded
    /\ UNCHANGED <<tx_index, rx_index, send_pendding, at, sender, receiver>>

\* rx_pkg is free again once no thread reads it.
Freed(e, t) == IF at[e][Other(t)] = "none" THEN Took(e) ELSE line
Done(e, t) == line' = Freed(e, t) /\ Moves(e, t, "none")

First(e, types) == line[e][1].type \in types

\* Already received: acknowledge once more.
RecvAgain(e, t) ==
    /\ MayRun(e, t, "check") /\ First(e, {"DATA", "CMD"}) /\ line[e][1].index = rx_index[e]
    /\ Moves(e, t, "ack")
    /\ UNCHANGED <<tx_index, rx_index, send_pendding, line, odd, sender, receiver>>

\* copy_data finds the last data still there: neither taken nor acknowledged.  A package
\* that was overwritten may also fail its checksum.
RecvThrow(e, t) ==
    /\ MayRun(e, t, "check")
    /\ \/ First(e, {"DATA"}) /\ line[e][1].index # rx_index[e] /\ data[e] # <<>>
       \/ "overwritten" \in odd
    /\ Done(e, t)
    /\ UNCHANGED <<tx_index, rx_index, send_pendding, odd, sender, receiver>>

\* The package is accepted; copy_data takes the payload of data.
RecvNew(e, t) ==
    /\ MayRun(e, t, "check") /\ First(e, {"DATA", "CMD"}) /\ line[e][1].index # rx_index[e]
    /\ First(e, {"DATA"}) => data[e] = <<>>
    /\ data' = IF First(e, {"DATA"}) THEN [data EXCEPT ![e] = <<line[e][1].msg>>] ELSE data
    /\ arrived' = [arrived EXCEPT ![e] = Append(@, line[e][1].msg)]
    /\ Moves(e, t, "set")
    /\ UNCHANGED <<tx_index, rx_index, send_pendding, line, odd, sender>>

RecvForgets(e, t) ==
    /\ at[e][t] = "set"
    /\ Moves(e, t, "ack")
    /\ UNCHANGED <<tx_index, rx_index, send_pendding, line, odd, sender, receiver>>

\* The header is read again for rx_index, and once more for the acknowledgement.
RecvAccept(e, t) ==
    /\ at[e][t] = "set"
    /\ rx_index' = [rx_index EXCEPT ![e] = line[e][1].index]
    /\ Moves(e, t, "ack")
    /\ UNCHANGED <<tx_index, send_pendding, line, odd, sender, receiver>>

jwp_send_ack_package(e, t) ==
    /\ at[e][t] = "ack" /\ Room(Peer(e))
    /\ line' = Put(Freed(e, t), Peer(e), [type |-> "ACK", index |-> line[e][1].index])
    /\ Moves(e, t, "none")
    /\ UNCHANGED <<tx_index, rx_index, send_pendding, odd, sender, receiver>>

RecvAck(e, t) ==
    /\ MayRun(e, t, "check") /\ First(e, {"ACK"})
    /\ IF line[e][1].index = NextIndex(tx_index[e])
       THEN /\ tx_index' = [tx_index EXCEPT ![e] = line[e][1].index]
            /\ send_pendding' = [send_pendding EXCEPT ![e] = FALSE]
       ELSE UNCHANGED <<tx_index, send_pendding>>
    /\ Done(e, t)
    /\ UNCHANGED <<rx_index, odd, sender, receiver>>

RecvSyncTxOnly(e, t) ==
    /\ MayRun(e, t, "check") /\ First(e, {"SYNC"})
    /\ tx_index' = [tx_index EXCEPT ![e] = 0]
    /\ Done(e, t)
    /\ UNCHANGED <<rx_index, send_pendding, odd, sender, receiver>>

RecvSync(e, t) ==
    /\ MayRun(e, t, "check") /\ First(e, {"SYNC"})
    /\ tx_index' = [tx_index EXCEPT ![e] = 0]
    /\ rx_index' = [rx_index EXCEPT ![e] = 0]
    /\ Done(e, t)
    /\ UNCHANGED <<send_pendding, odd, sender, receiver>>

\* jwp_process_data: the held data moves to the RX_DATA queue, when that has room.
jwp_process_data(e) ==
    /\ data[e] # <<>>
    /\ data' = [data EXCEPT ![e] = <<>>]
    /\ UNCHANGED <<tx_index, rx_index, send_pendding, line, at, arrived, odd, sender>>

\* The line loses a package; a lost SYNC leaves the ends with different indices.
Lose(e) ==
    /\ line[e] # <<>> /\ ~InUse(e)
    /\ line' = Took(e)
    /\ odd' = IF First(e, {"SYNC"}) THEN odd \cup {"sync"} ELSE odd
    /\ Bounded
    /\ UNCHANGED <<tx_index, rx_index, send_pendding, at, sender, receiver>>

Process(e, t) ==
    \/ RecvAgain(e, t) \/ RecvThrow(e, t) \/ RecvNew(e, t) \/ RecvAccept(e, t)
    \/ jwp_send_ack_package(e, t) \/ RecvAck(e, t) \/ RecvSync(e, t)
Filling(e) == \E t \in Fillers : Fill(e, t) \/ FillPart(e, t) \/ Process(e, t)
Sending(e) == jwp_set_package_index(e) \/ Write(e) \/ jwp_wait_tx_complete(e) \/ Retry(e)
              \/ GiveUp(e) \/ jwp_index_init(e)

JwpNext == \E e \in Ends :
    \/ jwp_send_package(e) \/ jwp_send_sync(e) \/ Sending(e)
    \/ Filling(e) \/ jwp_process_data(e) \/ Lose(e)

\* A sending thread and one that has a package to process run on; nothing is asked of the
\* line or of the other end.
JwpSafeSpec == JwpInit /\ [][JwpNext]_vars
JwpSpec == /\ JwpSafeSpec
           /\ \A e \in Ends : WF_vars(Sending(e)) /\ \A t \in Fillers : WF_vars(Process(e, t))

-----------------------------------------------------------------------------
(* Properties.                                                                 *)

\* Messages are accepted once each and in the order they were sent, through every
\* resend, lost acknowledgement, full buffer and wrap of the index: unless a package
\* was given up whose copy may have arrived, the ends were synchronised while something
\* was in flight, or rx_pkg was overwritten while a thread still read it.
AcceptedOnceInOrder ==
    odd = {} => \A e \in Ends : \A i, j \in DOMAIN arrived[e] :
                    i < j => arrived[e][i] < arrived[e][j]

\* A send that returned true has reached the other end, with the same exceptions.
CompletedArrived ==
    odd = {} => \A e \in Ends : completed[e] \subseteq ToSet(arrived[Peer(e)])

\* Every call of jwp_send_package and jwp_send_sync returns, whether or not the other end
\* answers, what the line loses and what is overwritten, as long as no line refuses for
\* ever: jwp_hw_write tries again until the line has taken the package.
SendReturns ==
    (\A e \in Ends : []<>Room(e)) => \A e \in Ends : (tpc[e] # "idle" ~> tpc[e] = "idle")
=============================================================================
