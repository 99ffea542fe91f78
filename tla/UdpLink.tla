-------------------------------- MODULE UdpLink --------------------------------
(***************************************************************************)
(* The UDP link of lib/udp.c after its handshake: a window of packs sent,  *)
(* acknowledged one by one and resent after a timeout, over a network that *)
(* loses, repeats and reorders.  The receiver's free window travels with   *)
(* every acknowledgement and, when a full window has emptied again, in a   *)
(* WIND pack sent through the receiver's own send window.                  *)
(*                                                                         *)
(* Both ends run the same code; link[e] is the struct cavan_udp_link of    *)
(* end e.  Sequence numbers are u16 in the code: here they are modulo Mod, *)
(* and the u8 window field is modulo 4 * WinSize.  UdpAssumption keeps the *)
(* packs of a run below half a round of the numbers: a datagram that       *)
(* outlives half a round is taken for a new one, by the code as well.      *)
(***************************************************************************)
EXTENDS UdpNet, Sequences, FiniteSetsExt

CONSTANTS
    Sender, Receiver,   \* the two ends; only the Sender sends data
    WinSize,            \* CAVAN_UDP_WIN_SIZE
    MaxCwnd,            \* CAVAN_UDP_CWND
    Mod,                \* the sequence numbers' modulus, 2^16 in the code
    Starts,             \* sequence numbers the model starts from
    MaxMessages         \* bound: messages sent

ASSUME UdpAssumption == /\ Sender # Receiver
                        /\ WinSize \in Nat \ {0, 1}
                        /\ Mod \in Nat \ {0} /\ Mod % (4 * WinSize) = 0
                        /\ MaxCwnd \in Nat \ {0}
                        /\ Starts \subseteq 0..(Mod - 1)
                        /\ MaxMessages \in Nat /\ 3 * MaxMessages <= Mod - 4 * WinSize

Ends == {Sender, Receiver}
Peer(e) == IF e = Sender THEN Receiver ELSE Sender
Seqs == 0..(Mod - 1)
Slots == 0..(WinSize - 1)
NULL == [type |-> "NULL"]

VARIABLES
    link,     \* the two links
    blocked,  \* the sending thread waits on send_win.cond
    woken,    \* that wait has been signalled
    sent,     \* history: data packs enqueued
    got,      \* history: the data packs cavan_udp_sock_recv has returned
    overrun,  \* history: a resend has sent a pack past the receiver's limit
    setback   \* history: a late number has set the sender's limit back

vars == <<link, net, blocked, woken, sent, got, overrun, setback>>

UdpTypeOK ==
    /\ \A e \in Ends :
          /\ link[e].send.index \in Seqs /\ link[e].send.ready \in Seqs
          /\ link[e].send.length \in 0..WinSize
          /\ link[e].recv.index \in Seqs
          /\ link[e].recv.ready = (link[e].recv.index + link[e].recv.length) % Mod
          /\ link[e].recv.length \in 0..WinSize
          /\ link[e].sequence \in Seqs
          /\ link[e].cwnd \in 1..MaxCwnd /\ link[e].acks \in 0..MaxCwnd
          /\ \A i \in Slots : link[e].send.packs[i] # NULL =>
                                 /\ link[e].send.packs[i].seq % WinSize = i
                                 /\ link[e].send.packs[i].times \in 0..(2 * MaxSend + 4)
    /\ Cardinality(net) <= NetCap
    /\ sent \in 0..MaxMessages

\* A link of which every pack so far has been acknowledged and received.
Win(i) == [index |-> i, ready |-> i, length |-> 0, full |-> FALSE,
           packs |-> [s \in Slots |-> NULL]]

UdpInit ==
    /\ \E i, j \in Starts, c \in 1..MaxCwnd :
          link = [e \in Ends |->
                     [send |-> Win(IF e = Sender THEN i ELSE j),
                      recv |-> Win(IF e = Sender THEN j ELSE i),
                      sequence |-> ((IF e = Sender THEN i ELSE j) + WinSize) % Mod,
                      cwnd |-> c, acks |-> 0, listed |-> FALSE, taken |-> FALSE,
                      freed |-> FALSE]]
    /\ net = {}
    /\ blocked = FALSE /\ woken = FALSE
    /\ sent = 0 /\ got = <<>> /\ overrun = FALSE /\ setback = FALSE

-----------------------------------------------------------------------------
(* Sequence arithmetic.                                                     *)

Plus(s, n) == (s + n) % Mod
Slot(s) == s % WinSize

\* cavan_udp_win_invalid
Invalid(index, seq) ==
    LET last == Plus(index, WinSize - 1)
    IN  IF index < last THEN seq < index \/ seq > last
                        ELSE seq < index /\ seq > last

\* cavan_udp_link_set_sequence: the limit after it is told seq.  A lower number is
\* taken only when the limit plus a window wraps beyond it.
SetSequence(limit, seq) ==
    LET end == Plus(limit, WinSize)
    IN  IF seq < limit /\ (limit < end \/ seq > end) THEN limit ELSE seq

\* The new limit is the earlier one: the old one lies beyond a wrap of the numbers.
SetBack(e, limit) == e = Sender /\ (limit - link[e].sequence) % Mod > Mod \div 2

AckWin(index, seq) == (index + WinSize - seq) % (4 * WinSize)

-----------------------------------------------------------------------------
(* Sending.                                                                 *)

Datagram(e, p) == [to |-> Peer(e), type |-> p.type, seq |-> p.seq, val |-> p.val]

\* How far cavan_udp_win_flush goes: from ready up to this number.
FlushNoLimit(l) == Plus(l.send.index, l.send.length)

FlushTo(l) ==
    LET w == l.send
        capped == w.length > l.cwnd
        end == Plus(w.index, IF capped THEN l.cwnd ELSE w.length)
        seq == l.sequence
        rests == \/ capped /\ w.ready >= end /\ w.ready - end < WinSize
                 \/ seq < w.ready /\ (seq > WinSize \/ w.ready - seq < WinSize)
        ends == \/ seq < w.ready /\ (seq > end \/ w.ready <= end)
                \/ seq > end /\ w.ready <= end
    IN  IF rests THEN w.ready ELSE IF ends THEN end ELSE seq

\* cavan_udp_win_flush: the link after it and the datagrams it sends.  Sending
\* anything puts the link in the send loop's list (cavan_udp_sock_post_link).
FlushRange(l) == {Plus(l.send.ready, k) : k \in 0..(((FlushTo(l) - l.send.ready) % Mod) - 1)}
Flushed(l) == {i \in Slots : l.send.packs[i] # NULL /\ \E s \in FlushRange(l) : Slot(s) = i}

\* Every pack that is flushed has been sent once more.
Counted(l) == [i \in Slots |-> IF i \in Flushed(l) THEN [l.send.packs[i] EXCEPT !.times = @ + 1]
                                                  ELSE l.send.packs[i]]

AfterFlush(l) ==
    [l EXCEPT !.send.ready = FlushTo(l), !.send.packs = Counted(l),
              !.listed = @ \/ Flushed(l) # {}]

FlushDatagrams(e, l) == {Datagram(e, l.send.packs[i]) : i \in Flushed(l)}

\* cavan_udp_win_enqueue, for a window that is not full.
Enqueued(l, type, val) ==
    LET seq == Plus(l.send.index, l.send.length)
    IN  [l EXCEPT !.send.packs[Slot(seq)] = [type |-> type, seq |-> seq, val |-> val, times |-> 0],
                  !.send.length = @ + 1]

\* cavan_udp_sock_send of the next message, first tried or tried again after a wait.
cavan_udp_sock_send ==
    LET l == Enqueued(link[Sender], "DATA", sent + 1)
    IN  /\ blocked => woken
        /\ sent < MaxMessages /\ ~link[Sender].freed
        /\ link[Sender].send.length < WinSize
        /\ link' = [link EXCEPT ![Sender] = AfterFlush(l)]
        /\ Transmit(net, FlushDatagrams(Sender, l))
        /\ sent' = sent + 1
        /\ blocked' = FALSE /\ woken' = FALSE
        /\ UNCHANGED <<got, overrun, setback>>

\* The window is full: the caller waits for the acknowledgement of its first pack.
SendBlocks ==
    /\ blocked => woken
    /\ sent < MaxMessages /\ ~link[Sender].freed
    /\ link[Sender].send.length = WinSize
    /\ link' = [link EXCEPT ![Sender].send.full = TRUE]
    /\ blocked' = TRUE /\ woken' = FALSE
    /\ UNCHANGED <<net, sent, got, overrun, setback>>

\* cavan_udp_sock_send_loop takes the link off its list when its time has come...
SendLoopTake(e) ==
    /\ link[e].listed /\ ~link[e].taken /\ ~link[e].freed
    /\ link' = [link EXCEPT ![e].listed = FALSE, ![e].taken = TRUE]
    /\ UNCHANGED <<net, blocked, woken, sent, got, overrun, setback>>

\* ... and calls cavan_udp_win_resend: the first pack of the window, if it counts
\* as sent, is sent again and the congestion window starts over; after MaxSend
\* times the link is given up.
HeadCounts(w) == w.length > 0 /\ w.index # w.ready

\* The first pack of the window lies at or past the receiver's limit.
PastLimit(l) == (l.send.index - l.sequence) % Mod < Mod \div 2

\* cavan_udp_win_resend of a pack whose time is up.
Resent(l) ==
    LET packs == [l.send.packs EXCEPT ![Slot(l.send.index)].times = @ + 1]
    IN  [l EXCEPT !.taken = FALSE, !.listed = TRUE, !.cwnd = 1,
                  !.send = [@ EXCEPT !.ready = Plus(l.send.index, 1), !.packs = packs]]

Resend(e) ==
    LET w == link[e].send
        p == w.packs[Slot(w.index)]
    IN  /\ link[e].taken /\ ~link[e].freed /\ HeadCounts(w) /\ p.times <= MaxSend
        /\ link' = [link EXCEPT ![e] = Resent(@)]
        /\ Transmit(net, {Datagram(e, p)})
        /\ overrun' = (overrun \/ (e = Sender /\ PastLimit(link[e])))
        /\ UNCHANGED <<blocked, woken, sent, got, setback>>

\* Nothing to resend: the link leaves the list until something is flushed.
ResendNothing(e) ==
    /\ link[e].taken /\ ~link[e].freed /\ ~HeadCounts(link[e].send)
    /\ link' = [link EXCEPT ![e].taken = FALSE]
    /\ UNCHANGED <<net, blocked, woken, sent, got, overrun, setback>>

GiveUp(e) ==
    /\ link[e].taken /\ ~link[e].freed /\ HeadCounts(link[e].send)
    /\ link[e].send.packs[Slot(link[e].send.index)].times > MaxSend
    /\ link' = [link EXCEPT ![e].freed = TRUE]
    /\ UNCHANGED <<net, blocked, woken, sent, got, overrun, setback>>

-----------------------------------------------------------------------------
(* Receiving: cavan_udp_sock_recv_loop.                                     *)

ReceivedAnywhere(w, m) ==
    [w EXCEPT !.packs[Slot(w.ready)] = [type |-> m.type, seq |-> m.seq, val |-> m.val, times |-> 0],
              !.length = IF @ < WinSize THEN @ + 1 ELSE @,
              !.ready = Plus(w.index, IF w.length < WinSize THEN w.length + 1 ELSE w.length)]

\* cavan_udp_win_receive: keep a new pack of the window and count what is now in
\* sequence.
Runs(w, packs) == {n \in 0..(WinSize - w.length) :
                      \A k \in 0..(n - 1) : packs[Slot(Plus(w.ready, k))] # NULL}

Received(w, m) ==
    IF Invalid(w.index, m.seq) \/ w.packs[Slot(m.seq)] # NULL THEN w
    ELSE LET packs == [w.packs EXCEPT ![Slot(m.seq)] =
                          [type |-> m.type, seq |-> m.seq, val |-> m.val, times |-> 0]]
             n == Max(Runs(w, packs))
         IN  [w EXCEPT !.packs = packs, !.length = @ + n, !.ready = Plus(@, n),
                       !.full = @ \/ w.length + n = WinSize]

AckOf(e, w, m) == [to |-> Peer(e), type |-> "ACK", seq |-> m.seq, val |-> AckWin(w.index, m.seq)]

\* CAVAN_UDP_DATA: cavan_udp_sock_receive acknowledges whatever it did with it.
RecvData(e, m) ==
    /\ m \in net /\ m.to = e /\ m.type = "DATA" /\ ~link[e].freed
    /\ LET w == Received(link[e].recv, m)
       IN  /\ link' = [link EXCEPT ![e].recv = w]
           /\ \E base \in Rest(m) : Transmit(base, {AckOf(e, w, m)})
    /\ UNCHANGED <<blocked, woken, sent, got, overrun, setback>>

\* CAVAN_UDP_WIND: the same, then the new limit and a flush.
RecvWind(e, m) ==
    /\ m \in net /\ m.to = e /\ m.type = "WIND" /\ ~link[e].freed
    /\ LET w == Received(link[e].recv, m)
           l == [link[e] EXCEPT !.recv = w, !.sequence = SetSequence(@, m.val)]
           grown == l.sequence # link[e].sequence
       IN  /\ link' = [link EXCEPT ![e] = IF grown THEN AfterFlush(l) ELSE l]
           /\ \E base \in Rest(m) :
                 Transmit(base, {AckOf(e, w, m)} \cup
                                (IF grown THEN FlushDatagrams(e, l) ELSE {}))
           /\ setback' = (setback \/ SetBack(e, l.sequence))
    /\ UNCHANGED <<blocked, woken, sent, got, overrun>>

\* cavan_udp_win_ack: the window moves over what is acknowledged...
AckedWin(w, i) ==
    LET packs == [w.packs EXCEPT ![i] = NULL]
        n == Max({k \in 0..w.length :
                    \A j \in 0..(k - 1) : packs[Slot(Plus(w.index, j))] = NULL})
    IN  [w EXCEPT !.packs = packs, !.length = @ - n, !.index = Plus(@, n), !.full = @ /\ n = 0]

\* ... and the congestion window grows.  The limit is set twice and the flush depends on
\* the second time, so it never happens.
Acked(l, m) ==
    LET limit == SetSequence(l.sequence, Plus(m.seq, m.val))
        more == l.acks < l.cwnd
    IN  IF Invalid(l.send.index, m.seq) THEN l
        ELSE IF l.send.packs[Slot(m.seq)] = NULL THEN [l EXCEPT !.sequence = limit]
        ELSE [l EXCEPT !.sequence = limit,
                       !.send = AckedWin(@, Slot(m.seq)),
                       !.acks = IF more THEN @ + 1 ELSE 0,
                       !.cwnd = IF ~more /\ @ < MaxCwnd THEN @ + 1 ELSE @]

\* CAVAN_UDP_DATA_ACK; a waiting sender is woken when the window has moved.
RecvAckNoWake(e, m) ==
    /\ m \in net /\ m.to = e /\ m.type = "ACK" /\ ~link[e].freed
    /\ link' = [link EXCEPT ![e] = Acked(link[e], m)]
    /\ net' \in Rest(m)
    /\ UNCHANGED <<blocked, woken, sent, got, overrun, setback>>

RecvAck(e, m) ==
    /\ m \in net /\ m.to = e /\ m.type = "ACK" /\ ~link[e].freed
    /\ LET l == Acked(link[e], m)
       IN  /\ link' = [link EXCEPT ![e] = l]
           /\ woken' = (woken \/ (e = Sender /\ blocked /\ link[e].send.full /\ ~l.send.full))
           /\ setback' = (setback \/ SetBack(e, l.sequence))
    /\ net' \in Rest(m)
    /\ UNCHANGED <<blocked, sent, got, overrun>>

\* A pack for a link that is gone is answered by CAVAN_UDP_ERROR.
RecvOrphan(e, m) ==
    /\ m \in net /\ m.to = e /\ m.type \in {"DATA", "WIND"} /\ link[e].freed
    /\ \E base \in Rest(m) :
          Transmit(base, {[to |-> Peer(e), type |-> "ERROR", seq |-> 0, val |-> 0]})
    /\ UNCHANGED <<link, blocked, woken, sent, got, overrun, setback>>

RecvError(e, m) ==
    /\ m \in net /\ m.to = e /\ m.type = "ERROR"
    /\ link' = [link EXCEPT ![e].freed = TRUE]
    /\ net' \in Rest(m)
    /\ UNCHANGED <<blocked, woken, sent, got, overrun, setback>>

Lose(m) ==
    /\ net' = net \ {m}
    /\ UNCHANGED <<link, blocked, woken, sent, got, overrun, setback>>

-----------------------------------------------------------------------------
(* cavan_udp_sock_recv: cavan_udp_win_dequeue.                              *)

Popped(w) == [w EXCEPT !.packs[Slot(w.index)] = NULL, !.length = @ - 1, !.index = Plus(@, 1)]

\* One turn of the loop: a pack is taken; a window that was full and has emptied
\* below half tells the peer through a WIND pack, if there is room for one.
Dequeue(e) ==
    LET w == Popped(link[e].recv)
        tell == w.full /\ w.length < WinSize \div 2 /\ link[e].send.length < WinSize
        l == IF tell
             THEN Enqueued([link[e] EXCEPT !.recv = [w EXCEPT !.full = FALSE]], "WIND",
                           Plus(w.index, WinSize))
             ELSE [link[e] EXCEPT !.recv = w]
    IN  /\ ~link[e].freed /\ link[e].recv.index # link[e].recv.ready
        /\ link' = [link EXCEPT ![e] = IF tell THEN AfterFlush(l) ELSE l]
        /\ Transmit(net, IF tell THEN FlushDatagrams(e, l) ELSE {})

\* A data pack is returned, a WIND pack is freed and the loop goes on.
cavan_udp_sock_recv(e) ==
    LET p == link[e].recv.packs[Slot(link[e].recv.index)]
    IN  /\ Dequeue(e)
        /\ got' = IF p.type = "DATA" THEN Append(got, p.val) ELSE got
        /\ UNCHANGED <<blocked, woken, sent, overrun, setback>>

-----------------------------------------------------------------------------
Deliver(m) == RecvData(m.to, m) \/ RecvWind(m.to, m) \/ RecvAck(m.to, m)
              \/ RecvOrphan(m.to, m) \/ RecvError(m.to, m)

SendLoop(e) == SendLoopTake(e) \/ Resend(e) \/ ResendNothing(e) \/ GiveUp(e)

UdpNext ==
    \/ cavan_udp_sock_send \/ SendBlocks
    \/ \E e \in Ends : SendLoop(e) \/ cavan_udp_sock_recv(e)
    \/ \E m \in net : Deliver(m) \/ Lose(m)

UdpSpec == UdpInit /\ [][UdpNext]_vars

-----------------------------------------------------------------------------
(* Properties.                                                              *)

\* The messages handed to the receiving program are the ones sent, once each and
\* in order, whatever the network loses, repeats or reorders: what
\* test/test_udp.c checks of its numbered messages on one run.
Channel == INSTANCE MessageChannel
InOrder == Channel!ChannelSpec

\* A message that has left the send window has arrived: cavan_udp_sock_receive
\* acknowledges packs its window has no place for, so the sender must never send one.
\* It does when a resend goes past the receiver's limit, and after a late limit from
\* before the wrap has replaced one from beyond it.
AckedArrived ==
    overrun \/ setback \/
    \A n \in 1..sent :
        \/ n <= Len(got)
        \/ \E i \in Slots : link[Sender].send.packs[i] # NULL /\ link[Sender].send.packs[i].val = n
        \/ \E i \in Slots : link[Receiver].recv.packs[i] # NULL /\ link[Receiver].recv.packs[i].val = n

\* A sender that waits for room and has not been signalled waits for a full window:
\* an acknowledgement that makes room never leaves it asleep.
SenderNotForgotten ==
    blocked /\ ~woken /\ ~link[Sender].freed => link[Sender].send.length = WinSize
=============================================================================
