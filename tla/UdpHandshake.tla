----------------------------- MODULE UdpHandshake -----------------------------
(***************************************************************************)
(* How lib/udp.c sets a link up: cavan_udp_sock_connect sends SYNC, the    *)
(* other side allocates a link for every SYNC it sees and answers with     *)
(* SYNC_ACK1, the client takes the first answer and confirms it with       *)
(* SYNC_ACK2, and answers any other link's SYNC_ACK1 with ERROR.  SYNC and *)
(* SYNC_ACK1 are resent from the links' send windows until acknowledged,   *)
(* over a network that loses, repeats and reorders.                        *)
(***************************************************************************)
EXTENDS UdpNet

CONSTANTS
    Clients,     \* links (channels) of connecting threads
    Channels     \* how many links (channels) the accepting socket can allocate

ASSUME HandshakeAssumption == Channels \in Nat /\ MaxSend \in Nat \ {0}

Servers == 1..Channels

VARIABLES
    cpc,         \* cavan_udp_sock_connect: idle, sent, wait, late, done or failed
    cremote,     \* the client link's remote_channel, {} for 0
    signalled,   \* the client's wait on recv_win.cond has been signalled
    spc,         \* the server link: none, half (no SYNC_ACK2 yet), linked or freed
    speer,       \* the src_channel of the SYNC the link was allocated for, {} for none
    times,       \* how often the pack in a link's send window has been sent
    unacked,     \* the links whose first pack is still in their send window
    missed       \* history: clients whose wake-up came before or after their wait

handshakeVars == <<cpc, cremote, signalled, spc, speer, times, unacked, net, missed>>

HandshakeTypeOK ==
    /\ cpc \in [Clients -> {"idle", "sent", "wait", "late", "done", "failed"}]
    /\ cremote \in [Clients -> SUBSET Servers]
    /\ signalled \subseteq Clients
    /\ spc \in [Servers -> {"none", "half", "linked", "freed"}]
    /\ speer \in [Servers -> SUBSET Clients]
    /\ times \in [Clients \cup Servers -> 0..(MaxSend + 1)]
    /\ unacked \subseteq Clients \cup Servers
    /\ \A c \in Clients : Cardinality(cremote[c]) <= 1
    /\ Cardinality(net) <= NetCap
    /\ missed \subseteq Clients

HandshakeInit ==
    /\ cpc = [c \in Clients |-> "idle"]
    /\ cremote = [c \in Clients |-> {}]
    /\ signalled = {}
    /\ spc = [s \in Servers |-> "none"]
    /\ speer = [s \in Servers |-> {}]
    /\ times = [l \in Clients \cup Servers |-> 0]
    /\ unacked = {}
    /\ net = {}
    /\ missed = {}

Packet(type, c, s) == [type |-> type, client |-> c, server |-> s]
NoServer == 0

Held(c) == cpc[c] \in {"sent", "wait", "late", "done"}

-----------------------------------------------------------------------------
(* cavan_udp_sock_connect.                                                  *)

\* The SYNC pack is enqueued and flushed; the lock is not held yet.
Connect(c) ==
    /\ cpc[c] = "idle"
    /\ cpc' = [cpc EXCEPT ![c] = "sent"]
    /\ times' = [times EXCEPT ![c] = 1]
    /\ unacked' = unacked \cup {c}
    /\ Transmit(net, {Packet("SYNC", c, NoServer)})
    /\ UNCHANGED <<cremote, signalled, spc, speer, missed>>

\* cavan_udp_win_delayedwait, without a look at whether the answer is there.
ConnectWait(c) ==
    /\ cpc[c] = "sent"
    /\ cpc' = [cpc EXCEPT ![c] = "wait"]
    /\ UNCHANGED <<cremote, signalled, spc, speer, times, unacked, net, missed>>

\* The wait returns 0, signalled or spuriously.
ConnectDone(c) ==
    /\ cpc[c] = "wait"
    /\ cpc' = [cpc EXCEPT ![c] = "done"]
    /\ UNCHANGED <<cremote, signalled, spc, speer, times, unacked, net, missed>>

\* Five seconds have passed; the link is unlocked and still there.
ConnectTimeout(c) ==
    /\ cpc[c] = "wait" /\ c \notin signalled
    /\ cpc' = [cpc EXCEPT ![c] = "late"]
    /\ UNCHANGED <<cremote, signalled, spc, speer, times, unacked, net, missed>>

\* cavan_udp_link_free, whatever the link has become since.
ConnectFree(c) ==
    /\ cpc[c] = "late"
    /\ cpc' = [cpc EXCEPT ![c] = "failed"]
    /\ UNCHANGED <<cremote, signalled, spc, speer, times, unacked, net, missed>>

-----------------------------------------------------------------------------
(* cavan_udp_sock_recv_loop.                                                *)

\* cavan_udp_link_alloc: the channel after the last one allocated.
NextChannel(s) == \A t \in Servers : spc[t] = "none" <=> t >= s

\* CAVAN_UDP_SYNC: a link for every one, as long as there are channels.
RecvSync(p) ==
    /\ p.type = "SYNC"
    /\ \E s \in Servers :
          /\ NextChannel(s)
          /\ spc' = [spc EXCEPT ![s] = "half"]
          /\ speer' = [speer EXCEPT ![s] = {p.client}]
          /\ times' = [times EXCEPT ![s] = 1]
          /\ unacked' = unacked \cup {s}
          /\ \E base \in Rest(p) : Transmit(base, {Packet("ACK1", p.client, s)})
    /\ UNCHANGED <<cpc, cremote, signalled, missed>>

\* cavan_udp_win_wakeup of recv_win: it reaches a client that waits, not one that does
\* not yet or no longer.
SignalNobody(c) == UNCHANGED <<signalled, missed>>

Signal(c) ==
    /\ signalled' = IF cpc[c] = "wait" THEN signalled \cup {c} ELSE signalled
    /\ missed' = IF cpc[c] \in {"sent", "late"} THEN missed \cup {c} ELSE missed

\* CAVAN_UDP_SYNC_ACK1 for a link that is there: the first answer, or the same one
\* again, is taken and confirmed, another is refused.
RecvAck1TakesAll(p) ==
    /\ p.type = "ACK1" /\ Held(p.client)
    /\ cremote' = [cremote EXCEPT ![p.client] = {p.server}]
    /\ unacked' = unacked \ {p.client}
    /\ Signal(p.client)
    /\ \E base \in Rest(p) : Transmit(base, {Packet("ACK2", p.client, p.server)})
    /\ UNCHANGED <<cpc, spc, speer, times>>

RecvAck1(p) ==
    /\ p.type = "ACK1" /\ Held(p.client)
    /\ cremote[p.client] \subseteq {p.server}
    /\ cremote' = [cremote EXCEPT ![p.client] = {p.server}]
    /\ unacked' = unacked \ {p.client}
    /\ Signal(p.client)
    /\ \E base \in Rest(p) : Transmit(base, {Packet("ACK2", p.client, p.server)})
    /\ UNCHANGED <<cpc, spc, speer, times>>

RefuseAck1(p) ==
    /\ p.type = "ACK1" /\ Held(p.client)
    /\ ~(cremote[p.client] \subseteq {p.server})
    /\ \E base \in Rest(p) : Transmit(base, {Packet("ERROR", p.client, p.server)})
    /\ UNCHANGED <<cpc, cremote, signalled, spc, speer, times, unacked, missed>>

\* CAVAN_UDP_SYNC_ACK2: only the first one counts; on_connected is called.
RecvAck2(p) ==
    /\ p.type = "ACK2" /\ spc[p.server] = "half"
    /\ spc' = [spc EXCEPT ![p.server] = "linked"]
    /\ unacked' = unacked \ {p.server}
    /\ net' \in Rest(p)
    /\ UNCHANGED <<cpc, cremote, signalled, speer, times, missed>>

\* CAVAN_UDP_ERROR frees the link, connected or not.
RecvRefusal(p) ==
    /\ p.type = "ERROR" /\ spc[p.server] \in {"half", "linked"}
    /\ spc' = [spc EXCEPT ![p.server] = "freed"]
    /\ unacked' = unacked \ {p.server}
    /\ net' \in Rest(p)
    /\ UNCHANGED <<cpc, cremote, signalled, speer, times, missed>>

\* The network loses a packet, or the loop finds no link for it.
LosePacket(p) ==
    /\ net' = net \ {p}
    /\ UNCHANGED <<cpc, cremote, signalled, spc, speer, times, unacked, missed>>

-----------------------------------------------------------------------------
(* cavan_udp_sock_send_loop: the first pack is sent again, or given up.      *)

ResendSync(c) ==
    /\ Held(c) /\ c \in unacked /\ times[c] <= MaxSend
    /\ times' = [times EXCEPT ![c] = @ + 1]
    /\ Transmit(net, {Packet("SYNC", c, NoServer)})
    /\ UNCHANGED <<cpc, cremote, signalled, spc, speer, unacked, missed>>

ResendAck1Forever(s) ==
    /\ spc[s] = "half" /\ s \in unacked
    /\ \E c \in speer[s] : Transmit(net, {Packet("ACK1", c, s)})
    /\ UNCHANGED <<cpc, cremote, signalled, spc, speer, times, unacked, missed>>

ResendAck1(s) ==
    /\ spc[s] = "half" /\ s \in unacked /\ times[s] <= MaxSend
    /\ times' = [times EXCEPT ![s] = @ + 1]
    /\ \E c \in speer[s] : Transmit(net, {Packet("ACK1", c, s)})
    /\ UNCHANGED <<cpc, cremote, signalled, spc, speer, unacked, missed>>

\* -ENOLINK: cavan_udp_link_free.
GiveUpAck1(s) ==
    /\ spc[s] = "half" /\ s \in unacked /\ times[s] > MaxSend
    /\ spc' = [spc EXCEPT ![s] = "freed"]
    /\ UNCHANGED <<cpc, cremote, signalled, speer, times, unacked, net, missed>>

-----------------------------------------------------------------------------
HandshakeRecv(p) == RecvSync(p) \/ RecvAck1(p) \/ RefuseAck1(p) \/ RecvAck2(p) \/ RecvRefusal(p)
HandshakeSendLoop ==
    (\E c \in Clients : ResendSync(c)) \/ (\E s \in Servers : ResendAck1(s) \/ GiveUpAck1(s))

HandshakeNext ==
    \/ \E c \in Clients : \/ Connect(c) \/ ConnectWait(c)
                          \/ ConnectDone(c) \/ ConnectTimeout(c) \/ ConnectFree(c)
    \/ \E p \in net : HandshakeRecv(p) \/ LosePacket(p)
    \/ HandshakeSendLoop

\* The send loops run and connect's wait ends; the network promises nothing.
HandshakeFairness ==
    /\ \A c \in Clients : /\ WF_handshakeVars(ConnectWait(c))
                          /\ WF_handshakeVars(ConnectDone(c) \/ ConnectTimeout(c))
                          /\ WF_handshakeVars(ConnectFree(c))
    /\ \A s \in Servers : WF_handshakeVars(ResendAck1(s) \/ GiveUpAck1(s))

HandshakeSafeSpec == HandshakeInit /\ [][HandshakeNext]_handshakeVars
HandshakeSpec == HandshakeSafeSpec /\ HandshakeFairness

-----------------------------------------------------------------------------
(* Properties.                                                              *)

\* A link the accepting side reports as connected is the one its client has chosen:
\* of the links that repeated SYNC packs leave behind at most one gets that far.
PairedOnce ==
    \A s \in Servers : spc[s] = "linked" =>
        \A c \in speer[s] :
            /\ cremote[c] = {s}
            /\ \A t \in Servers \ {s} : spc[t] = "linked" => speer[t] # {c}

\* When connect has failed nobody believes in the link, unless the answer was handled
\* outside the wait: connect waits for one signal with no condition, so an answer that is
\* faster than the caller is missed, and one handled after the time-out and before the
\* link is freed is confirmed all the same.
FailedIsAlone ==
    \A c \in Clients : cpc[c] = "failed" /\ c \notin missed =>
        \A s \in Servers : spc[s] = "linked" => speer[s] # {c}

\* A link allocated for a SYNC does not stay half open: it is connected, refused or
\* given up, however many packets are lost.
NotHalfOpen == \A s \in Servers : spc[s] = "half" ~> spc[s] # "half"
=============================================================================
