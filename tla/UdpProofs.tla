------------------------------- MODULE UdpProofs -------------------------------
(***************************************************************************)
(* Agreement of the two sides of a link of lib/udp.c, for any connecting   *)
(* threads, any number of channels and any network.                        *)
(***************************************************************************)
EXTENDS UdpHandshake, UdpLink, FiniteSetTheorems, WellFoundedInduction, TLAPS

\* The types, without the bound on the network.
PlainTypes ==
    /\ cpc \in [Clients -> {"idle", "sent", "wait", "late", "done", "failed"}]
    /\ cremote \in [Clients -> SUBSET Servers]
    /\ signalled \subseteq Clients
    /\ spc \in [Servers -> {"none", "half", "linked", "freed"}]
    /\ speer \in [Servers -> SUBSET Clients]
    /\ times \in [Clients \cup Servers -> 0..(MaxSend + 1)]
    /\ unacked \subseteq Clients \cup Servers
    /\ missed \subseteq Clients

\* A client has no remote channel or one.
OneRemote == \A c \in Clients : cremote[c] = {} \/ \E s \in Servers : cremote[c] = {s}

\* A link that was allocated was allocated for one SYNC.
OnePeer == \A s \in Servers : spc[s] # "none" => \E c \in Clients : speer[s] = {c}

\* SYNC_ACK1 comes from the link allocated for its client, and SYNC_ACK2 goes to the
\* link its client has chosen.
PacketsTrue ==
    \A p \in net :
        /\ p.type \in {"SYNC", "ACK1", "ACK2", "ERROR"} /\ p.client \in Clients
        /\ p.type # "SYNC" => p.server \in Servers
        /\ p.type \in {"ACK1", "ACK2"} => speer[p.server] = {p.client} /\ spc[p.server] # "none"
        /\ p.type = "ACK2" => cremote[p.client] = {p.server}

\* A connected link is its client's choice.
LinkedChosen ==
    \A s \in Servers : spc[s] = "linked" => \A c \in speer[s] : cremote[c] = {s}

\* A client that has chosen was woken by it, was not waiting, or has succeeded; a wait
\* that timed out was not woken.
ChoiceNoticed ==
    \A c \in Clients :
        /\ cremote[c] # {} => c \in signalled \cup missed \/ cpc[c] = "done"
        /\ cpc[c] \in {"late", "failed"} => c \notin signalled

HandshakeInv ==
    PlainTypes /\ OneRemote /\ OnePeer /\ PacketsTrue /\ LinkedChosen /\ ChoiceNoticed

\* The network's contents are bounded.
NetInv == IsFiniteSet(net) /\ Cardinality(net) <= NetCap

-----------------------------------------------------------------------------
\* cavan_udp_sock_open on both sides.
LEMMA InitInv == HandshakeInit => HandshakeInv /\ NetInv
  <1> SUFFICES ASSUME HandshakeInit PROVE HandshakeInv /\ NetInv
    OBVIOUS
  <1>1. PlainTypes
    BY HandshakeAssumption DEF HandshakeInit, PlainTypes
  <1>2. OneRemote /\ OnePeer /\ PacketsTrue /\ LinkedChosen /\ ChoiceNoticed
    BY DEF HandshakeInit, OneRemote, OnePeer, PacketsTrue, LinkedChosen, ChoiceNoticed
  <1>3. NetInv
    BY FS_EmptySet, UdpNetAssumption DEF HandshakeInit, NetInv
  <1> QED
    BY <1>1, <1>2, <1>3 DEF HandshakeInv

\* What inet_sendto may leave on the network.
LEMMA TransmitAdds ==
    ASSUME NEW base, base \subseteq net, NEW p, Transmit(base, {p})
    PROVE  net' \subseteq net \cup {p}
  BY DEF Transmit

\* No step puts more on the network than it holds.
LEMMA NetStep ==
    ASSUME NetInv, [HandshakeNext]_handshakeVars
    PROVE  NetInv'
  <1>1. \A T \in SUBSET net : IsFiniteSet(T) /\ Cardinality(T) <= NetCap
    <2> SUFFICES ASSUME NEW T \in SUBSET net PROVE IsFiniteSet(T) /\ Cardinality(T) <= NetCap
      OBVIOUS
    <2>1. IsFiniteSet(T) /\ Cardinality(T) <= Cardinality(net)
      BY FS_Subset DEF NetInv
    <2> QED
      BY <2>1, FS_CardinalityType, UdpNetAssumption DEF NetInv
  <1>2. ASSUME NEW base \in SUBSET net, NEW p, Transmit(base, {p}) PROVE NetInv'
    <2>1. PICK kept \in SUBSET {p} : Cardinality(base \cup kept) <= NetCap /\ net' = base \cup kept
      BY <1>2 DEF Transmit
    <2>2. IsFiniteSet(base \cup kept)
      <3>1. base \cup kept = base \/ base \cup kept = base \cup {p}
        BY <2>1
      <3> QED
        BY <1>1, <3>1, FS_AddElement
    <2> QED
      BY <2>1, <2>2 DEF NetInv
  <1>3. ASSUME net' \subseteq net PROVE NetInv'
    BY <1>1, <1>3 DEF NetInv
  <1>4. \A p : \A base \in Rest(p) : base \in SUBSET net
    BY DEF Rest
  <1>5. CASE UNCHANGED handshakeVars
    BY <1>3, <1>5 DEF handshakeVars
  <1>6. ASSUME NEW c \in Clients,
               Connect(c) \/ ConnectWait(c) \/ ConnectDone(c) \/ ConnectTimeout(c) \/ ConnectFree(c)
        PROVE  NetInv'
    BY <1>2, <1>3, <1>6 DEF Connect, ConnectWait, ConnectDone, ConnectTimeout, ConnectFree
  <1>7. ASSUME NEW p \in net, HandshakeRecv(p) PROVE NetInv'
    <2>1. CASE RecvSync(p)
      BY <1>2, <1>4, <2>1 DEF RecvSync
    <2>2. CASE RecvAck1(p)
      BY <1>2, <1>4, <2>2 DEF RecvAck1
    <2>3. CASE RefuseAck1(p)
      BY <1>2, <1>4, <2>3 DEF RefuseAck1
    <2>4. CASE RecvAck2(p) \/ RecvRefusal(p)
      BY <1>3, <1>4, <2>4 DEF RecvAck2, RecvRefusal
    <2> QED
      BY <1>7, <2>1, <2>2, <2>3, <2>4 DEF HandshakeRecv
  <1>8. ASSUME NEW p \in net, LosePacket(p) PROVE NetInv'
    BY <1>3, <1>8 DEF LosePacket
  <1>9. CASE HandshakeSendLoop
    BY <1>2, <1>3, <1>9 DEF HandshakeSendLoop, ResendSync, ResendAck1, GiveUpAck1
  <1> QED
    BY <1>5, <1>6, <1>7, <1>8, <1>9 DEF HandshakeNext

-----------------------------------------------------------------------------
\* The steps of cavan_udp_sock_connect.
LEMMA ConnectInv ==
    ASSUME HandshakeInv, NEW c \in Clients,
           Connect(c) \/ ConnectWait(c) \/ ConnectDone(c) \/ ConnectTimeout(c) \/ ConnectFree(c)
    PROVE  HandshakeInv'
  <1> USE DEF HandshakeInv
  <1>1. /\ UNCHANGED <<cremote, signalled, spc, speer, missed>>
        /\ net' \subseteq net \cup {Packet("SYNC", c, NoServer)}
    BY TransmitAdds DEF Connect, ConnectWait, ConnectDone, ConnectTimeout, ConnectFree
  <1>2. /\ cpc' \in [Clients -> {"idle", "sent", "wait", "late", "done", "failed"}]
        /\ \A x \in Clients \ {c} : cpc'[x] = cpc[x]
        /\ cpc[c] # "done"
        /\ cpc'[c] \in {"late", "failed"} => c \notin signalled
    BY DEF ChoiceNoticed, Connect, ConnectWait, ConnectDone, ConnectTimeout, ConnectFree, PlainTypes
  <1>3. PlainTypes'
    BY <1>1, <1>2, HandshakeAssumption
    DEF PlainTypes, Connect, ConnectWait, ConnectDone, ConnectTimeout, ConnectFree
  <1>4. OneRemote' /\ OnePeer' /\ LinkedChosen'
    BY <1>1 DEF OneRemote, OnePeer, LinkedChosen
  <1>5. PacketsTrue'
    BY <1>1 DEF PacketsTrue, Packet
  <1>6. ChoiceNoticed'
    BY <1>1, <1>2 DEF ChoiceNoticed
  <1> QED
    BY <1>3, <1>4, <1>5, <1>6

\* A SYNC allocates a link that was not used before.
LEMMA RecvSyncInv ==
    ASSUME HandshakeInv, NEW p \in net, RecvSync(p)
    PROVE  HandshakeInv'
  <1> USE DEF HandshakeInv
  <1>1. p.client \in Clients
    BY DEF PacketsTrue
  <1>2. PICK s \in Servers :
          /\ NextChannel(s)
          /\ spc' = [spc EXCEPT ![s] = "half"]
          /\ speer' = [speer EXCEPT ![s] = {p.client}]
          /\ times' = [times EXCEPT ![s] = 1]
          /\ unacked' = unacked \cup {s}
          /\ net' \subseteq net \cup {Packet("ACK1", p.client, s)}
    <2>1. \A s : (\E base \in Rest(p) : Transmit(base, {Packet("ACK1", p.client, s)}))
                   => net' \subseteq net \cup {Packet("ACK1", p.client, s)}
      BY DEF Rest, Transmit
    <2> QED
      BY <2>1 DEF RecvSync
  <1>3. UNCHANGED <<cpc, cremote, signalled, missed>> /\ spc[s] = "none"
    BY <1>2 DEF RecvSync, NextChannel, Servers
  <1>4. PlainTypes'
    BY <1>1, <1>2, <1>3, HandshakeAssumption DEF PlainTypes
  <1>5. OneRemote' /\ OnePeer' /\ LinkedChosen' /\ ChoiceNoticed'
    BY <1>1, <1>2, <1>3 DEF OneRemote, OnePeer, LinkedChosen, ChoiceNoticed, PlainTypes
  <1>6. PacketsTrue'
    <2>1. ASSUME NEW q \in net
          PROVE  q.type \in {"ACK1", "ACK2"} =>
                     speer'[q.server] = {q.client} /\ spc'[q.server] # "none"
      BY <1>2, <1>3 DEF PacketsTrue, PlainTypes
    <2>2. speer'[s] = {p.client} /\ spc'[s] = "half"
      BY <1>2 DEF PlainTypes
    <2> QED
      BY <1>1, <1>2, <1>3, <2>1, <2>2 DEF PacketsTrue, Packet
  <1> QED
    BY <1>4, <1>5, <1>6

\* The first SYNC_ACK1 decides; a later one of the same link changes nothing.
LEMMA RecvAck1Inv ==
    ASSUME HandshakeInv, NEW p \in net, RecvAck1(p)
    PROVE  HandshakeInv'
  <1> USE DEF HandshakeInv
  <1> DEFINE c == p.client
             s == p.server
  <1>1. /\ c \in Clients /\ s \in Servers /\ p.type = "ACK1"
        /\ speer[s] = {c} /\ spc[s] # "none"
    BY DEF PacketsTrue, RecvAck1
  <1>2. /\ cpc[c] \in {"sent", "wait", "late", "done"} /\ cremote[c] \subseteq {s}
        /\ cremote' = [cremote EXCEPT ![c] = {s}]
        /\ unacked' = unacked \ {c}
        /\ Signal(c)
        /\ net' \subseteq net \cup {Packet("ACK2", c, s)}
        /\ UNCHANGED <<cpc, spc, speer, times>>
    BY TransmitAdds DEF RecvAck1, Held, Rest
  <1> HIDE DEF c, s
  <1>3. /\ signalled' \subseteq Clients /\ missed' \subseteq Clients
        /\ signalled \subseteq signalled' /\ missed \subseteq missed'
        /\ \A x \in Clients \ {c} : x \in signalled' <=> x \in signalled
        /\ c \in signalled' \cup missed' \/ cpc[c] = "done"
        /\ cpc[c] # "failed" /\ (cpc[c] = "late" => c \notin signalled')
    BY <1>1, <1>2 DEF Signal, PlainTypes, ChoiceNoticed
  <1>4. PlainTypes'
    BY <1>1, <1>2, <1>3 DEF PlainTypes
  <1>5. \A x \in Clients : \A t \in Servers : cremote[x] = {t} => cremote'[x] = {t}
    BY <1>1, <1>2 DEF PlainTypes
  <1>6. OneRemote' /\ OnePeer' /\ LinkedChosen'
    <2>1. OneRemote' /\ OnePeer'
      BY <1>1, <1>2 DEF OneRemote, OnePeer, PlainTypes
    <2>2. LinkedChosen'
      BY <1>2, <1>5 DEF LinkedChosen, PlainTypes
    <2> QED
      BY <2>1, <2>2
  <1>7. PacketsTrue'
    <2>1. cremote'[c] = {s}
      BY <1>1, <1>2 DEF PlainTypes
    <2> QED
      BY <1>1, <1>2, <1>5, <2>1 DEF PacketsTrue, Packet
  <1>8. ChoiceNoticed'
    BY <1>2, <1>3 DEF ChoiceNoticed, PlainTypes
  <1> QED
    BY <1>4, <1>6, <1>7, <1>8

\* What else the receiving loop does.
LEMMA OtherRecvInv ==
    ASSUME HandshakeInv, NEW p \in net,
           RefuseAck1(p) \/ RecvAck2(p) \/ RecvRefusal(p) \/ LosePacket(p)
    PROVE  HandshakeInv'
  <1> USE DEF HandshakeInv
  <1>1. CASE RefuseAck1(p)
    <2>1. /\ net' \subseteq net \cup {Packet("ERROR", p.client, p.server)}
          /\ UNCHANGED <<cpc, cremote, signalled, spc, speer, times, unacked, missed>>
          /\ p.type = "ACK1"
      BY <1>1, TransmitAdds DEF RefuseAck1, Rest
    <2>2. PacketsTrue'
      BY <2>1 DEF PacketsTrue, Packet
    <2> QED
      BY <2>1, <2>2 DEF PlainTypes, OneRemote, OnePeer, LinkedChosen, ChoiceNoticed
  <1>2. CASE RecvAck2(p)
    <2>1. /\ net' \subseteq net /\ p.server \in Servers
          /\ spc' = [spc EXCEPT ![p.server] = "linked"] /\ spc[p.server] = "half"
          /\ unacked' \subseteq unacked
          /\ UNCHANGED <<cpc, cremote, signalled, speer, times, missed>>
          /\ speer[p.server] = {p.client} /\ cremote[p.client] = {p.server}
      BY <1>2 DEF RecvAck2, Rest, PacketsTrue
    <2>2. PlainTypes' /\ OneRemote' /\ OnePeer' /\ ChoiceNoticed'
      BY <2>1 DEF PlainTypes, OneRemote, OnePeer, ChoiceNoticed
    <2>3. PacketsTrue'
      BY <2>1 DEF PacketsTrue, PlainTypes
    <2>4. LinkedChosen'
      BY <2>1 DEF LinkedChosen, PlainTypes
    <2> QED
      BY <2>2, <2>3, <2>4
  <1>3. CASE RecvRefusal(p)
    <2>1. /\ net' \subseteq net /\ p.server \in Servers
          /\ spc' = [spc EXCEPT ![p.server] = "freed"] /\ spc[p.server] # "none"
          /\ unacked' \subseteq unacked
          /\ UNCHANGED <<cpc, cremote, signalled, speer, times, missed>>
      BY <1>3 DEF RecvRefusal, Rest, PacketsTrue
    <2>2. PlainTypes' /\ OneRemote' /\ OnePeer' /\ ChoiceNoticed'
      BY <2>1 DEF PlainTypes, OneRemote, OnePeer, ChoiceNoticed
    <2>3. PacketsTrue' /\ LinkedChosen'
      BY <2>1 DEF PacketsTrue, LinkedChosen, PlainTypes
    <2> QED
      BY <2>2, <2>3
  <1>4. CASE LosePacket(p)
    BY <1>4 DEF LosePacket, PlainTypes, OneRemote, OnePeer, PacketsTrue, LinkedChosen, ChoiceNoticed
  <1> QED
    BY <1>1, <1>2, <1>3, <1>4

\* cavan_udp_sock_send_loop repeats what was true when it was sent first.
LEMMA HandshakeSendLoopInv ==
    ASSUME HandshakeInv, HandshakeSendLoop
    PROVE  HandshakeInv'
  <1> USE DEF HandshakeInv
  <1>1. ASSUME NEW c \in Clients, ResendSync(c) PROVE HandshakeInv'
    <2>1. /\ net' \subseteq net \cup {Packet("SYNC", c, NoServer)}
          /\ times' \in [Clients \cup Servers -> 0..(MaxSend + 1)]
          /\ UNCHANGED <<cpc, cremote, signalled, spc, speer, unacked, missed>>
      <3>1. net' \subseteq net \cup {Packet("SYNC", c, NoServer)}
        BY <1>1, TransmitAdds DEF ResendSync
      <3>2. times' \in [Clients \cup Servers -> 0..(MaxSend + 1)]
        BY <1>1, HandshakeAssumption DEF ResendSync, PlainTypes
      <3> QED
        BY <1>1, <3>1, <3>2 DEF ResendSync
    <2>2. PacketsTrue'
      BY <2>1 DEF PacketsTrue, Packet
    <2> QED
      BY <2>1, <2>2 DEF PlainTypes, OneRemote, OnePeer, LinkedChosen, ChoiceNoticed
  <1>2. ASSUME NEW s \in Servers, ResendAck1(s) PROVE HandshakeInv'
    <2>1. PICK c \in Clients : speer[s] = {c}
      BY <1>2 DEF ResendAck1, OnePeer
    <2>2. /\ net' \subseteq net \cup {Packet("ACK1", c, s)}
          /\ times' \in [Clients \cup Servers -> 0..(MaxSend + 1)]
          /\ spc[s] # "none"
          /\ UNCHANGED <<cpc, cremote, signalled, spc, speer, unacked, missed>>
      <3>1. net' \subseteq net \cup {Packet("ACK1", c, s)}
        BY <1>2, <2>1, TransmitAdds DEF ResendAck1
      <3>2. times' \in [Clients \cup Servers -> 0..(MaxSend + 1)]
        BY <1>2, HandshakeAssumption DEF ResendAck1, PlainTypes
      <3> QED
        BY <1>2, <3>1, <3>2 DEF ResendAck1
    <2>3. PacketsTrue'
      BY <2>1, <2>2 DEF PacketsTrue, Packet
    <2> QED
      BY <2>2, <2>3 DEF PlainTypes, OneRemote, OnePeer, LinkedChosen, ChoiceNoticed
  <1>3. ASSUME NEW s \in Servers, GiveUpAck1(s) PROVE HandshakeInv'
    BY <1>3 DEF GiveUpAck1, PlainTypes, OneRemote, OnePeer, PacketsTrue, LinkedChosen, ChoiceNoticed
  <1> QED
    BY <1>1, <1>2, <1>3 DEF HandshakeSendLoop

-----------------------------------------------------------------------------
\* The invariant holds in every reachable state of the handshake.
THEOREM HandshakeInvariant == HandshakeSpec => [](HandshakeInv /\ NetInv)
  <1>1. HandshakeInit => HandshakeInv /\ NetInv
    BY InitInv
  <1>2. HandshakeInv /\ NetInv /\ [HandshakeNext]_handshakeVars => (HandshakeInv /\ NetInv)'
    <2> SUFFICES ASSUME HandshakeInv, NetInv, [HandshakeNext]_handshakeVars PROVE HandshakeInv'
      BY NetStep
    <2>1. CASE UNCHANGED handshakeVars
      BY <2>1 DEF handshakeVars, HandshakeInv, PlainTypes, OneRemote, OnePeer, PacketsTrue, LinkedChosen,
         ChoiceNoticed
    <2> QED
      BY <2>1, ConnectInv, RecvSyncInv, RecvAck1Inv, OtherRecvInv, HandshakeSendLoopInv
      DEF HandshakeNext, HandshakeRecv
  <1> QED
    BY <1>1, <1>2, PTL DEF HandshakeSpec, HandshakeSafeSpec

\* Type correctness: a client link has one remote channel at most, no pack is sent more
\* than CAVAN_UDP_MAX_SEND times and once.
THEOREM HandshakeTypes == HandshakeSpec => []HandshakeTypeOK
  <1>1. HandshakeInv /\ NetInv => HandshakeTypeOK
    <2> SUFFICES ASSUME HandshakeInv, NetInv PROVE HandshakeTypeOK
      OBVIOUS
    <2>1. ASSUME NEW c \in Clients PROVE Cardinality(cremote[c]) <= 1
      <3>1. cremote[c] = {} => Cardinality(cremote[c]) = 0
        BY FS_EmptySet, Zenon
      <3>2. \A s : cremote[c] = {s} => Cardinality(cremote[c]) = 1
        BY FS_Singleton, Zenon
      <3> QED
        BY <3>1, <3>2 DEF HandshakeInv, OneRemote
    <2> QED
      BY <2>1 DEF HandshakeInv, PlainTypes, NetInv, HandshakeTypeOK
  <1> QED
    BY <1>1, HandshakeInvariant, PTL

\* However often SYNC is repeated, of the links that leaves on the accepting side the
\* only one reported as connected is the one the client has chosen.
THEOREM LinksPaired == HandshakeSpec => []PairedOnce
  <1>1. HandshakeInv => PairedOnce
    BY DEF HandshakeInv, LinkedChosen, PairedOnce
  <1> QED
    BY <1>1, HandshakeInvariant, PTL

\* A connect that failed leaves no connected link behind, unless the answer was handled
\* before its wait or between its time-out and the freeing of the link.
THEOREM FailureAgreed == HandshakeSpec => []FailedIsAlone
  <1>1. HandshakeInv => FailedIsAlone
    BY DEF HandshakeInv, LinkedChosen, ChoiceNoticed, FailedIsAlone
  <1> QED
    BY <1>1, HandshakeInvariant, PTL
-----------------------------------------------------------------------------
(* The established link: its windows never hold more than WinSize packs, and *)
(* a sender that waits for room is not forgotten.                            *)

Packs == [type : {"DATA", "WIND"}, seq : Seqs, val : Seqs, times : Nat]
Windows == [index : Seqs, ready : Seqs, length : 0..WinSize, full : BOOLEAN,
            packs : [Slots -> Packs \cup {NULL}]]
Links == [send : Windows, recv : Windows, sequence : Seqs, cwnd : 1..MaxCwnd,
          acks : 0..MaxCwnd, listed : BOOLEAN, taken : BOOLEAN, freed : BOOLEAN]
Datagrams == [to : Ends, type : {"DATA", "WIND", "ACK", "ERROR"}, seq : Seqs, val : Seqs]

\* What has been received in sequence ends where the next pack is awaited.
InSequence(w) == w.ready = Plus(w.index, w.length)

LinkTypes ==
    /\ link \in [Ends -> Links]
    /\ net \subseteq Datagrams
    /\ blocked \in BOOLEAN /\ woken \in BOOLEAN
    /\ sent \in 0..MaxMessages

RecvInSequence == \A e \in Ends : InSequence(link[e].recv)

\* Why a waiting sender is not forgotten: its window is marked full for as long as no
\* pack has left it, and the acknowledgement that takes the mark away wakes it.
WaitsMarked == blocked /\ ~woken => link[Sender].send.full /\ link[Sender].send.length = WinSize

\* A send window that is not empty starts with a pack that is not acknowledged yet: what
\* cavan_udp_win_resend sends again.
HeadThere(w) == w.length > 0 => w.packs[Slot(w.index)] # NULL
SendHeads == \A e \in Ends : HeadThere(link[e].send)

LinkInv == LinkTypes /\ RecvInSequence /\ SendHeads /\ WaitsMarked

-----------------------------------------------------------------------------
\* A window is shorter than the range of the sequence numbers.
LEMMA WindowFits ==
    /\ WinSize \in Nat /\ WinSize > 1 /\ Mod \in Nat /\ Mod > 0
    /\ 4 * WinSize <= Mod /\ MaxMessages \in 0..(Mod - 2 * WinSize)
    /\ 3 * MaxMessages <= Mod - 4 * WinSize
  <1>1. /\ WinSize \in Nat /\ WinSize > 1 /\ Mod \in Nat /\ Mod > 0
        /\ MaxMessages \in Nat /\ 3 * MaxMessages <= Mod - 4 * WinSize
    BY UdpAssumption
  <1>2. PICK W \in Nat : W = 4 * WinSize
    BY <1>1
  <1>3. Mod % W = 0 /\ W > 0
    BY <1>1, <1>2, UdpAssumption
  <1>4. ~(Mod < W)
    BY <1>1, <1>2, <1>3
  <1> QED
    BY <1>1, <1>2, <1>4

\* Sequence numbers add up to sequence numbers.
LEMMA PlusType ==
    ASSUME NEW s \in Nat, NEW n \in Nat
    PROVE  Plus(s, n) \in Seqs
  BY WindowFits DEF Plus, Seqs

\* Up to one turn, % takes Mod away once or not at all.
LEMMA OneTurn ==
    ASSUME NEW x \in 0..(2 * Mod - 1)
    PROVE  /\ x < Mod => x % Mod = x
           /\ ~(x < Mod) => x % Mod = x - Mod
  <1>1. Mod \in Nat /\ Mod > 0
    BY WindowFits
  <1>2. CASE x < Mod
    BY <1>1, <1>2
  <1>3. CASE ~(x < Mod)
    <2>1. x \in Mod..(2 * Mod - 1)
      BY <1>1, <1>3
    <2>2. x % Mod = x - Mod
      BY <1>1, <2>1, SMT
    <2> QED
      BY <1>3, <2>2
  <1> QED
    BY <1>2, <1>3

\* Steps that do not add up to a whole turn add up.
LEMMA PlusSum ==
    ASSUME NEW s \in Seqs, NEW m \in Nat, NEW n \in Nat, m + n < Mod
    PROVE  Plus(Plus(s, m), n) = Plus(s, m + n)
  <1>1. /\ s \in Nat /\ s < Mod /\ m \in Nat /\ n \in Nat /\ Mod \in Nat
        /\ m + n < Mod
    BY WindowFits DEF Seqs
  <1>2. s + m \in 0..(2 * Mod - 1) /\ s + (m + n) \in 0..(2 * Mod - 1)
    BY <1>1
  <1>3. CASE s + m < Mod
    <2>1. Plus(s, m) = s + m
      BY <1>2, <1>3, OneTurn DEF Plus
    <2> QED
      BY <1>1, <2>1 DEF Plus
  <1>4. CASE ~(s + m < Mod)
    <2>1. Plus(s, m) = s + m - Mod
      <3>1. PICK x \in 0..(2 * Mod - 1) : x = s + m
        BY <1>2
      <3>2. x % Mod = x - Mod
        BY <1>4, <3>1, OneTurn
      <3> QED
        BY <1>1, <3>1, <3>2 DEF Plus
    <2>2. s + m - Mod + n \in 0..(2 * Mod - 1) /\ s + m - Mod + n < Mod
      BY <1>1, <1>4
    <2>3. Plus(Plus(s, m), n) = s + m - Mod + n
      BY <2>1, <2>2, OneTurn DEF Plus
    <2>4. ~(s + (m + n) < Mod)
      BY <1>1, <1>4
    <2>5. Plus(s, m + n) = s + (m + n) - Mod
      <3>1. PICK x \in 0..(2 * Mod - 1) : x = s + (m + n)
        BY <1>2
      <3>2. x % Mod = x - Mod
        BY <2>4, <3>1, OneTurn
      <3> QED
        BY <1>1, <3>1, <3>2 DEF Plus
    <2> QED
      BY <1>1, <2>3, <2>5
  <1> QED
    BY <1>3, <1>4

\* Steps within a window add up.
LEMMA PlusPlus ==
    ASSUME NEW s \in Seqs, NEW m \in 0..WinSize, NEW n \in 0..WinSize
    PROVE  Plus(Plus(s, m), n) = Plus(s, m + n)
  <1>1. m \in Nat /\ n \in Nat /\ m + n < Mod
    BY WindowFits
  <1> QED
    BY <1>1, PlusSum

\* A window that is not empty ends elsewhere than it starts, and the other way round.
LEMMA PlusMoves ==
    ASSUME NEW s \in Seqs, NEW m \in 1..WinSize
    PROVE  Plus(s, m) # s
  <1>1. s \in Nat /\ s < Mod /\ m \in Nat /\ m > 0 /\ m < Mod /\ Mod \in Nat
    BY WindowFits DEF Seqs
  <1>2. s + m \in 0..(2 * Mod - 1)
    BY <1>1
  <1> QED
    BY <1>1, <1>2, OneTurn DEF Plus

\* Max finds the greatest of a bounded set of numbers.
LEMMA MaxIsThere ==
    ASSUME NEW N \in Nat, NEW T \in SUBSET (0..N), T # {}
    PROVE  Max(T) \in T /\ \A y \in T : y <= Max(T)
  <1> DEFINE R == OpToRel(<, Nat)
             B == {N - y : y \in T}
  <1>1. IsWellFoundedOn(R, Nat)
    BY NatLessThanWellFounded
  <1>2. \A x, y \in Nat : x < y => <<x, y>> \in R
    BY DEF OpToRel
  <1> HIDE DEF R
  <1>3. B \in SUBSET Nat /\ B # {}
    <2>1. \A y \in T : N - y \in Nat
      OBVIOUS
    <2> QED
      BY <2>1
  <1>4. PICK b \in B : \A y \in B : ~ (<<y, b>> \in R)
    BY <1>1, <1>3, WFMin
  <1>5. PICK x \in T : b = N - x
    BY <1>4
  <1>6. ASSUME NEW y \in T PROVE x >= y
    <2>1. N - y \in B /\ N - y \in Nat /\ b \in Nat
      BY <1>3, <1>4
    <2>2. ~(N - y < b)
      BY <1>2, <1>4, <2>1
    <2> QED
      BY <1>5, <2>2
  <1> QED
    BY <1>6 DEF Max
-----------------------------------------------------------------------------
\* No pack is NULL.
LEMMA NullNoPack == NULL \notin Packs
  <1> SUFFICES ASSUME NULL \in Packs PROVE FALSE
    OBVIOUS
  <1>1. NULL.type \in {"DATA", "WIND"}
    BY DEF Packs
  <1>2. NULL.type = "NULL"
    BY DEF NULL
  <1> QED
    BY <1>1, <1>2

\* Counting a pack's transmissions leaves it a pack.
LEMMA CountedPack ==
    ASSUME NEW l \in Links, NEW i \in Slots, l.send.packs[i] # NULL
    PROVE  /\ Counted(l)[i] \in Packs
           /\ Counted(l)[i].type = l.send.packs[i].type
           /\ Counted(l)[i].seq = l.send.packs[i].seq
           /\ Counted(l)[i].val = l.send.packs[i].val
  <1>1. l.send.packs[i] \in Packs
    BY DEF Links, Windows
  <1>2. /\ [l.send.packs[i] EXCEPT !.times = @ + 1] \in Packs
        /\ [l.send.packs[i] EXCEPT !.times = @ + 1].type = l.send.packs[i].type
        /\ [l.send.packs[i] EXCEPT !.times = @ + 1].seq = l.send.packs[i].seq
        /\ [l.send.packs[i] EXCEPT !.times = @ + 1].val = l.send.packs[i].val
    BY <1>1 DEF Packs
  <1> QED
    BY <1>1, <1>2 DEF Counted

\* cavan_udp_win_flush moves ready and counts the packs it sends; the window's place and
\* its length stay.
LEMMA FlushKeeps ==
    ASSUME NEW l \in Links
    PROVE  /\ AfterFlush(l) \in Links
           /\ AfterFlush(l).send.index = l.send.index /\ AfterFlush(l).send.packs = Counted(l)
           /\ AfterFlush(l).send.length = l.send.length
           /\ AfterFlush(l).send.full = l.send.full
           /\ AfterFlush(l).recv = l.recv
           /\ HeadThere(l.send) => HeadThere(AfterFlush(l).send)
  <1>1. FlushTo(l) \in Seqs
    <2>1. l.send.ready \in Seqs /\ l.sequence \in Seqs
      BY DEF Links, Windows
    <2>2. Plus(l.send.index, IF l.send.length > l.cwnd THEN l.cwnd ELSE l.send.length) \in Seqs
      <3>1. /\ l.send.index \in Nat
            /\ (IF l.send.length > l.cwnd THEN l.cwnd ELSE l.send.length) \in Nat
        BY DEF Links, Windows, Seqs
      <3> QED
        BY <3>1, PlusType
    <2> QED
      BY <2>1, <2>2 DEF FlushTo
  <1>2. Counted(l) \in [Slots -> Packs \cup {NULL}]
    <2>1. ASSUME NEW i \in Slots, i \in Flushed(l)
          PROVE  [l.send.packs[i] EXCEPT !.times = @ + 1] \in Packs
      <3>1. l.send.packs[i] \in Packs
        BY <2>1 DEF Flushed, Links, Windows
      <3> QED
        BY <3>1 DEF Packs
    <2>2. ASSUME NEW i \in Slots PROVE l.send.packs[i] \in Packs \cup {NULL}
      BY DEF Links, Windows
    <2> QED
      BY <2>1, <2>2 DEF Counted
  <1> DEFINE s == [l.send EXCEPT !.ready = FlushTo(l), !.packs = Counted(l)]
  <1>3. AfterFlush(l) = [l EXCEPT !.send = s, !.listed = @ \/ Flushed(l) # {}]
    BY DEF AfterFlush, Links, Windows
  <1>4. /\ s \in Windows /\ s.length = l.send.length /\ s.full = l.send.full
        /\ s.index = l.send.index /\ s.packs = Counted(l)
    BY <1>1, <1>2 DEF Links, Windows
  <1> HIDE DEF s
  <1>5. AfterFlush(l) \in Links /\ AfterFlush(l).send = s /\ AfterFlush(l).recv = l.recv
    BY <1>3, <1>4 DEF Links
  <1>6. HeadThere(l.send) => HeadThere(s)
    <2>1. l.send.index \in Seqs
      BY DEF Links, Windows
    <2>2. Slot(l.send.index) \in Slots
      BY <2>1, WindowFits DEF Slot, Slots, Seqs
    <2>3. l.send.packs[Slot(l.send.index)] # NULL => Counted(l)[Slot(l.send.index)] # NULL
      BY <1>2, <2>2, NullNoPack, CountedPack
    <2> QED
      BY <1>4, <2>3 DEF HeadThere
  <1> QED
    BY <1>4, <1>5, <1>6

\* The packs cavan_udp_win_flush sends are datagrams of the link.
LEMMA FlushSends ==
    ASSUME NEW l \in Links, NEW e \in Ends
    PROVE  FlushDatagrams(e, l) \subseteq Datagrams
  <1>1. ASSUME NEW i \in Flushed(l) PROVE Datagram(e, l.send.packs[i]) \in Datagrams
    <2>1. l.send.packs[i] \in Packs
      BY <1>1 DEF Flushed, Links, Windows
    <2> QED
      BY <2>1 DEF Datagram, Datagrams, Packs, Peer, Ends
  <1> QED
    BY <1>1 DEF FlushDatagrams

\* cavan_udp_win_enqueue of a window with room.
LEMMA EnqueueType ==
    ASSUME NEW l \in Links, NEW t \in {"DATA", "WIND"}, NEW v \in Seqs, l.send.length < WinSize
    PROVE  /\ Enqueued(l, t, v) \in Links
           /\ Enqueued(l, t, v).recv = l.recv
           /\ HeadThere(l.send) => HeadThere(Enqueued(l, t, v).send)
  <1> DEFINE seq == Plus(l.send.index, l.send.length)
             p == [type |-> t, seq |-> seq, val |-> v, times |-> 0]
  <1>1. seq \in Seqs /\ Slot(seq) \in Slots
    <2>1. seq \in Seqs
      <3>1. l.send.index \in Nat /\ l.send.length \in Nat
        BY DEF Links, Windows, Seqs
      <3> QED
        BY <3>1, PlusType
    <2> HIDE DEF seq
    <2> QED
      BY <2>1, WindowFits DEF Slot, Slots, Seqs
  <1>2. p \in Packs
    BY <1>1 DEF Packs
  <1>3. l.send.length + 1 \in 0..WinSize
    BY WindowFits DEF Links, Windows
  <1> DEFINE s == [l.send EXCEPT !.packs = [l.send.packs EXCEPT ![Slot(seq)] = p],
                                 !.length = l.send.length + 1]
  <1>4. Enqueued(l, t, v) = [l EXCEPT !.send = s]
    BY DEF Enqueued, Links, Windows
  <1>5. l.send.length = 0 => seq = l.send.index
    <2>1. l.send.index \in Nat /\ l.send.index < Mod
      BY WindowFits DEF Links, Windows, Seqs
    <2> QED
      BY <2>1, WindowFits DEF Plus
  <1> HIDE DEF p, seq
  <1>6. /\ s \in Windows /\ s.index = l.send.index
        /\ s.packs = [l.send.packs EXCEPT ![Slot(seq)] = p]
    BY <1>1, <1>2, <1>3 DEF Links, Windows
  <1>7. HeadThere(l.send) => HeadThere(s)
    <2>1. l.send.packs \in [Slots -> Packs \cup {NULL}] /\ l.send.length \in Nat
      BY DEF Links, Windows
    <2>2. s.packs[Slot(seq)] = p /\ p # NULL
      BY <1>1, <1>2, <1>6, <2>1, NullNoPack
    <2>3. \A j : j # Slot(seq) => s.packs[j] = l.send.packs[j]
      BY <1>6, <2>1
    <2> QED
      BY <1>5, <1>6, <2>1, <2>2, <2>3 DEF HeadThere
  <1> HIDE DEF s
  <1> QED
    BY <1>4, <1>6, <1>7 DEF Links

\* cavan_udp_win_resend sends the first pack of the window once more.
LEMMA ResentType ==
    ASSUME NEW l \in Links, NEW e \in Ends, HeadThere(l.send), l.send.length > 0
    PROVE  /\ Resent(l) \in Links /\ Resent(l).recv = l.recv
           /\ Resent(l).send.full = l.send.full /\ Resent(l).send.length = l.send.length
           /\ HeadThere(Resent(l).send)
           /\ Datagram(e, l.send.packs[Slot(l.send.index)]) \in Datagrams
  <1> DEFINE i == Slot(l.send.index)
             p == [l.send.packs[i] EXCEPT !.times = @ + 1]
             packs == [l.send.packs EXCEPT ![i] = p]
             s == [l.send EXCEPT !.ready = Plus(l.send.index, 1), !.packs = packs]
  <1>1. l.send.index \in Seqs /\ l.send.packs \in [Slots -> Packs \cup {NULL}]
    BY DEF Links, Windows
  <1>2. i \in Slots
    BY <1>1, WindowFits, SMTT(20) DEF Slot, Slots, Seqs
  <1>3. Plus(l.send.index, 1) \in Seqs
    <2>1. l.send.index \in Nat
      BY <1>1 DEF Seqs
    <2> QED
      BY <2>1, PlusType
  <1>4. Resent(l) = [l EXCEPT !.taken = FALSE, !.listed = TRUE, !.cwnd = 1, !.send = s]
    <2>1. [l.send.packs EXCEPT ![i].times = @ + 1] = packs
      BY <1>1, <1>2
    <2>2. Resent(l) = [l EXCEPT !.taken = FALSE, !.listed = TRUE, !.cwnd = 1, !.send =
                           [l.send EXCEPT !.ready = Plus(l.send.index, 1),
                                          !.packs = [l.send.packs EXCEPT ![i].times = @ + 1]]]
      BY DEF Resent
    <2> HIDE DEF i, packs
    <2> QED
      BY <2>1, <2>2
  <1> HIDE DEF i
  <1>5. l.send.packs[i] \in Packs
    BY <1>1, <1>2 DEF HeadThere, i
  <1>6. p \in Packs
    BY <1>5 DEF Packs
  <1> HIDE DEF p
  <1>7. packs \in [Slots -> Packs \cup {NULL}] /\ packs[i] = p
    BY <1>1, <1>2, <1>6
  <1> HIDE DEF packs
  <1>8. /\ s \in Windows /\ s.full = l.send.full /\ s.length = l.send.length
        /\ s.index = l.send.index /\ s.packs = packs
    BY <1>3, <1>7 DEF Links, Windows
  <1>9. HeadThere(s)
    BY <1>6, <1>7, <1>8, NullNoPack DEF HeadThere, i
  <1> HIDE DEF s
  <1>10. 1 \in 1..MaxCwnd
    BY UdpAssumption
  <1>11. Datagram(e, l.send.packs[i]) \in Datagrams
    BY <1>5 DEF Datagram, Datagrams, Packs, Peer, Ends
  <1> QED
    BY <1>4, <1>8, <1>9, <1>10, <1>11 DEF Links, i

\* cavan_udp_win_receive keeps the window's bounds and its order.
LEMMA ReceivedType ==
    ASSUME NEW w \in Windows, InSequence(w), NEW m \in Datagrams, m.type \in {"DATA", "WIND"}
    PROVE  Received(w, m) \in Windows /\ InSequence(Received(w, m))
  <1>1. CASE Invalid(w.index, m.seq) \/ w.packs[Slot(m.seq)] # NULL
    BY <1>1 DEF Received
  <1>2. CASE ~(Invalid(w.index, m.seq) \/ w.packs[Slot(m.seq)] # NULL)
    <2> DEFINE packs == [w.packs EXCEPT ![Slot(m.seq)] =
                            [type |-> m.type, seq |-> m.seq, val |-> m.val, times |-> 0]]
               n == Max(Runs(w, packs))
    <2>1. packs \in [Slots -> Packs \cup {NULL}]
      BY DEF Windows, Packs, Datagrams
    <2>2. Received(w, m) = [w EXCEPT !.packs = packs, !.length = @ + n, !.ready = Plus(@, n),
                                     !.full = @ \/ w.length + n = WinSize]
      BY <1>2, Zenon DEF Received
    <2> HIDE DEF packs
    <2>3. n \in Runs(w, packs)
      <3>1. WinSize - w.length \in Nat
        BY WindowFits DEF Windows
      <3>2. Runs(w, packs) \in SUBSET (0..(WinSize - w.length)) /\ 0 \in Runs(w, packs)
        BY <3>1 DEF Runs
      <3> QED
        BY <3>1, <3>2, MaxIsThere
    <2> HIDE DEF n
    <2>4. n \in 0..(WinSize - w.length)
      BY <2>3 DEF Runs
    <2>5. /\ w.length + n \in 0..WinSize /\ n \in 0..WinSize /\ w.length \in 0..WinSize
          /\ w.index \in Seqs
      BY <2>4, WindowFits DEF Windows
    <2>6. Plus(w.ready, n) \in Seqs
      BY <2>5, PlusType DEF Windows, Seqs
    <2>7. Plus(w.ready, n) = Plus(w.index, w.length + n)
      BY <2>5, PlusPlus DEF InSequence
    <2> QED
      BY <2>1, <2>2, <2>5, <2>6, <2>7 DEF Windows, InSequence
  <1> QED
    BY <1>1, <1>2
\* cavan_udp_win_ack: when the mark of a full window survives, nothing has left it.
LEMMA AckedWinType ==
    ASSUME NEW w \in Windows, NEW i
    PROVE  /\ AckedWin(w, i) \in Windows
           /\ AckedWin(w, i).full => w.full /\ AckedWin(w, i).length = w.length
           /\ HeadThere(AckedWin(w, i))
  <1> DEFINE packs == [w.packs EXCEPT ![i] = NULL]
             clear == {k \in 0..w.length :
                         \A j \in 0..(k - 1) : packs[Slot(Plus(w.index, j))] = NULL}
             n == Max(clear)
  <1>1. w.length \in 0..WinSize /\ WinSize \in Nat /\ w.index \in Nat
    BY WindowFits DEF Windows, Seqs
  <1>2. /\ n \in 0..w.length
        /\ n < w.length => packs[Slot(Plus(w.index, n))] # NULL
    <2>1. clear \in SUBSET (0..w.length) /\ clear # {}
      <3>1. 0 \in clear
        BY <1>1
      <3> QED
        BY <3>1
    <2>2. w.length \in Nat
      BY <1>1
    <2>3. n \in clear /\ \A k \in clear : k <= n
      <3> HIDE DEF clear
      <3> QED
        BY <2>1, <2>2, MaxIsThere
    <2> HIDE DEF n, packs
    <2>4. n \in 0..w.length /\ \A j \in 0..(n - 1) : packs[Slot(Plus(w.index, j))] = NULL
      BY <2>3
    <2>5. ASSUME n < w.length, packs[Slot(Plus(w.index, n))] = NULL PROVE FALSE
      <3>1. n + 1 \in 0..w.length
        BY <2>2, <2>4, <2>5
      <3>2. ASSUME NEW j \in 0..((n + 1) - 1) PROVE packs[Slot(Plus(w.index, j))] = NULL
        <4>1. j \in 0..(n - 1) \/ j = n
          BY <2>2, <2>4
        <4> QED
          BY <2>4, <2>5, <4>1
      <3>3. n + 1 \in clear
        BY <3>1, <3>2
      <3> QED
        BY <2>3, <2>4, <3>3
    <2> QED
      BY <2>4, <2>5
  <1>3. packs \in [Slots -> Packs \cup {NULL}]
    BY DEF Windows
  <1>4. AckedWin(w, i) = [w EXCEPT !.packs = packs, !.length = @ - n, !.index = Plus(@, n),
                                   !.full = @ /\ n = 0]
    BY Zenon DEF AckedWin
  <1> HIDE DEF n, packs
  <1>5. Plus(w.index, n) \in Seqs
    BY <1>1, <1>2, PlusType
  <1>6. w.length - n \in 0..WinSize /\ (n = 0 => w.length - n = w.length)
    BY <1>1, <1>2
  <1>7. /\ AckedWin(w, i).length = w.length - n /\ AckedWin(w, i).packs = packs
        /\ AckedWin(w, i).index = Plus(w.index, n)
    BY <1>4 DEF Windows
  <1>8. HeadThere(AckedWin(w, i))
    <2>1. w.length - n > 0 => n < w.length
      BY <1>1, <1>2
    <2> QED
      BY <1>2, <1>7, <2>1 DEF HeadThere
  <1> QED
    BY <1>3, <1>4, <1>5, <1>6, <1>8 DEF Windows

\* The whole of cavan_udp_win_ack.
LEMMA AckedType ==
    ASSUME NEW l \in Links, NEW m \in Datagrams
    PROVE  /\ Acked(l, m) \in Links
           /\ Acked(l, m).recv = l.recv
           /\ Acked(l, m).send.full => l.send.full /\ Acked(l, m).send.length = l.send.length
           /\ HeadThere(l.send) => HeadThere(Acked(l, m).send)
  <1> DEFINE limit == SetSequence(l.sequence, Plus(m.seq, m.val))
             more == l.acks < l.cwnd
             acks == IF more THEN l.acks + 1 ELSE 0
             cwnd == IF ~more /\ l.cwnd < MaxCwnd THEN l.cwnd + 1 ELSE l.cwnd
             s == AckedWin(l.send, Slot(m.seq))
  <1>1. limit \in Seqs
    <2>1. m.seq \in Nat /\ m.val \in Nat
      BY DEF Datagrams, Seqs
    <2>2. Plus(m.seq, m.val) \in Seqs
      BY <2>1, PlusType
    <2> QED
      BY <2>2 DEF SetSequence, Links
  <1>2. s \in Windows /\ HeadThere(s) /\ (s.full => l.send.full /\ s.length = l.send.length)
    BY AckedWinType DEF Links
  <1>3. acks \in 0..MaxCwnd /\ cwnd \in 1..MaxCwnd
    BY UdpAssumption DEF Links
  <1>4. \/ Acked(l, m) = l
        \/ Acked(l, m) = [l EXCEPT !.sequence = limit]
        \/ Acked(l, m) = [l EXCEPT !.sequence = limit, !.send = s, !.acks = acks, !.cwnd = cwnd]
    BY DEF Acked
  <1> HIDE DEF limit, acks, cwnd, s
  <1>5. CASE Acked(l, m) = l
    BY <1>5
  <1>6. CASE Acked(l, m) = [l EXCEPT !.sequence = limit]
    BY <1>1, <1>6 DEF Links
  <1>7. CASE Acked(l, m) = [l EXCEPT !.sequence = limit, !.send = s, !.acks = acks, !.cwnd = cwnd]
    BY <1>1, <1>2, <1>3, <1>7 DEF Links
  <1> QED
    BY <1>4, <1>5, <1>6, <1>7

\* cavan_udp_win_dequeue takes the first pack of a window that has one.
LEMMA PoppedType ==
    ASSUME NEW w \in Windows, InSequence(w), w.index # w.ready
    PROVE  Popped(w) \in Windows /\ InSequence(Popped(w))
  <1>1. w.index \in Seqs /\ w.length \in 0..WinSize
    BY DEF Windows
  <1>2. w.length # 0
    <2>1. Plus(w.index, 0) = w.index
      BY <1>1, WindowFits DEF Plus, Seqs
    <2> QED
      BY <2>1 DEF InSequence
  <1>3. w.length - 1 \in 0..WinSize /\ 1 \in 0..WinSize /\ 1 + (w.length - 1) = w.length
    BY <1>1, <1>2, WindowFits
  <1>4. Plus(w.index, 1) \in Seqs
    <2>1. w.index \in Nat
      BY <1>1 DEF Seqs
    <2> QED
      BY <2>1, PlusType
  <1>5. Plus(Plus(w.index, 1), w.length - 1) = Plus(w.index, w.length)
    <2>1. Plus(Plus(w.index, 1), w.length - 1) = Plus(w.index, 1 + (w.length - 1))
      BY <1>1, <1>3, PlusPlus
    <2> QED
      BY <1>3, <2>1
  <1>6. [w.packs EXCEPT ![Slot(w.index)] = NULL] \in [Slots -> Packs \cup {NULL}]
    BY DEF Windows
  <1>7. Popped(w) = [w EXCEPT !.packs = [w.packs EXCEPT ![Slot(w.index)] = NULL],
                              !.length = w.length - 1, !.index = Plus(w.index, 1)]
    BY DEF Popped, Windows
  <1> QED
    BY <1>3, <1>4, <1>5, <1>6, <1>7 DEF Windows, InSequence
-----------------------------------------------------------------------------
\* One end's struct cavan_udp_link changes, its receive window in order.
LEMMA OneLink ==
    ASSUME LinkTypes, RecvInSequence, SendHeads, NEW e \in Ends, NEW l \in Links,
           InSequence(l.recv), HeadThere(l.send), link' = [link EXCEPT ![e] = l]
    PROVE  /\ link' \in [Ends -> Links] /\ RecvInSequence' /\ SendHeads'
           /\ link'[e] = l /\ (e # Sender => link'[Sender] = link[Sender])
  <1>1. link' \in [Ends -> Links] /\ link'[e] = l /\ \A d \in Ends \ {e} : link'[d] = link[d]
    BY DEF LinkTypes
  <1>2. RecvInSequence'
    <2> SUFFICES ASSUME NEW d \in Ends PROVE InSequence(link'[d].recv)
      BY DEF RecvInSequence, InSequence, Plus
    <2> QED
      BY <1>1 DEF RecvInSequence
  <1>3. SendHeads'
    <2> SUFFICES ASSUME NEW d \in Ends PROVE HeadThere(link'[d].send)
      BY DEF SendHeads, HeadThere, Slot
    <2> QED
      BY <1>1 DEF SendHeads
  <1> QED
    BY <1>1, <1>2, <1>3 DEF Ends

\* The windows' changes that keep what a waiting sender waits for.
LEMMA WaitsKept ==
    ASSUME WaitsMarked, UNCHANGED blocked, woken => woken',
           link'[Sender].send.full = link[Sender].send.full,
           link'[Sender].send.length = link[Sender].send.length,
           blocked \in BOOLEAN, woken \in BOOLEAN, woken' \in BOOLEAN
    PROVE  WaitsMarked'
  BY DEF WaitsMarked

\* What is sent are datagrams.
LEMMA TransmitTyped ==
    ASSUME NEW base, base \subseteq Datagrams, NEW D, D \subseteq Datagrams, Transmit(base, D)
    PROVE  net' \subseteq Datagrams
  BY DEF Transmit

LEMMA RestTyped ==
    ASSUME LinkTypes, NEW m, NEW base \in Rest(m)
    PROVE  base \subseteq Datagrams
  BY DEF LinkTypes, Rest

LEMMA AckTyped ==
    ASSUME NEW e \in Ends, NEW w \in Windows, NEW m \in Datagrams
    PROVE  AckOf(e, w, m) \in Datagrams
  <1>1. AckWin(w.index, m.seq) \in Seqs
    <2>1. PICK W \in Nat : W = 4 * WinSize
      BY WindowFits
    <2>2. W > 0 /\ W <= Mod /\ Mod \in Nat
      BY <2>1, WindowFits
    <2>3. PICK x \in Int : x = w.index + WinSize - m.seq
      BY WindowFits DEF Windows, Datagrams, Seqs
    <2>4. x % W \in 0..(W - 1)
      BY <2>1, <2>2, <2>3
    <2>5. x % W \in Seqs
      BY <2>2, <2>4 DEF Seqs
    <2> QED
      BY <2>1, <2>3, <2>5 DEF AckWin
  <1> QED
    BY <1>1 DEF AckOf, Datagrams, Peer, Ends

-----------------------------------------------------------------------------
\* cavan_udp_sock_send.
LEMMA SendStep ==
    ASSUME LinkInv, cavan_udp_sock_send \/ SendBlocks
    PROVE  LinkInv'
  <1> USE DEF LinkInv
  <1>0. Sender \in Ends /\ link[Sender] \in Links
    BY DEF Ends, LinkTypes
  <1>1. CASE cavan_udp_sock_send
    <2> DEFINE l == Enqueued(link[Sender], "DATA", sent + 1)
    <2>1. /\ link[Sender].send.length < WinSize /\ sent < MaxMessages
          /\ link' = [link EXCEPT ![Sender] = AfterFlush(l)]
          /\ Transmit(net, FlushDatagrams(Sender, l))
          /\ sent' = sent + 1 /\ blocked' = FALSE /\ woken' = FALSE
      BY <1>1, Zenon DEF cavan_udp_sock_send
    <2>2. sent + 1 \in Seqs /\ sent' \in 0..MaxMessages
      BY <2>1, WindowFits DEF LinkTypes, Seqs
    <2>3. l \in Links /\ l.recv = link[Sender].recv /\ HeadThere(l.send)
      BY <1>0, <2>1, <2>2, EnqueueType DEF SendHeads
    <2> HIDE DEF l
    <2>4. /\ AfterFlush(l) \in Links /\ AfterFlush(l).recv = link[Sender].recv
          /\ HeadThere(AfterFlush(l).send)
      BY <2>3, FlushKeeps
    <2>5. InSequence(AfterFlush(l).recv)
      BY <1>0, <2>4 DEF RecvInSequence
    <2>6. link' \in [Ends -> Links] /\ RecvInSequence' /\ SendHeads'
      BY <1>0, <2>1, <2>4, <2>5, OneLink
    <2>7. net' \subseteq Datagrams
      BY <1>0, <2>1, <2>3, FlushSends, TransmitTyped DEF LinkTypes
    <2> QED
      BY <2>1, <2>2, <2>6, <2>7 DEF LinkTypes, WaitsMarked
  <1>2. CASE SendBlocks
    <2> DEFINE l == [link[Sender] EXCEPT !.send = [link[Sender].send EXCEPT !.full = TRUE]]
    <2>1. /\ link[Sender].send.length = WinSize
          /\ link' = [link EXCEPT ![Sender].send.full = TRUE]
          /\ blocked' = TRUE /\ woken' = FALSE /\ UNCHANGED <<net, sent>>
      BY <1>2 DEF SendBlocks
    <2>2. link' = [link EXCEPT ![Sender] = l]
      BY <2>1 DEF LinkTypes
    <2>3. /\ l \in Links /\ l.recv = link[Sender].recv
          /\ l.send.full = TRUE /\ l.send.length = WinSize
          /\ l.send.packs = link[Sender].send.packs /\ l.send.index = link[Sender].send.index
      BY <1>0, <2>1 DEF Links, Windows
    <2> HIDE DEF l
    <2>4. InSequence(l.recv) /\ HeadThere(l.send)
      BY <1>0, <2>1, <2>3 DEF RecvInSequence, SendHeads, HeadThere
    <2>5. link' \in [Ends -> Links] /\ RecvInSequence' /\ SendHeads' /\ link'[Sender] = l
      BY <1>0, <2>2, <2>3, <2>4, OneLink
    <2> QED
      BY <2>1, <2>3, <2>5 DEF LinkTypes, WaitsMarked
  <1> QED
    BY <1>1, <1>2

\* cavan_udp_sock_send_loop.
LEMMA SendLoopStep ==
    ASSUME LinkInv, NEW e \in Ends, SendLoop(e)
    PROVE  LinkInv'
  <1> USE DEF LinkInv
  <1>0. link[e] \in Links /\ InSequence(link[e].recv) /\ HeadThere(link[e].send)
    BY DEF LinkTypes, RecvInSequence, SendHeads
  <1>1. UNCHANGED <<blocked, woken, sent>>
    BY DEF SendLoop, SendLoopTake, Resend, ResendNothing, GiveUp
  <1>2. ASSUME NEW l \in Links, l.recv = link[e].recv, l.send.full = link[e].send.full,
               l.send.length = link[e].send.length, link' = [link EXCEPT ![e] = l],
               HeadThere(l.send), net' \subseteq Datagrams
        PROVE  LinkInv'
    <2>1. /\ link' \in [Ends -> Links] /\ RecvInSequence' /\ SendHeads'
          /\ link'[e] = l /\ (e # Sender => link'[Sender] = link[Sender])
      BY <1>0, <1>2, OneLink
    <2>2. WaitsMarked'
      BY <1>1, <1>2, <2>1, WaitsKept DEF LinkTypes
    <2> QED
      BY <1>1, <1>2, <2>1, <2>2 DEF LinkTypes
  <1>3. CASE SendLoopTake(e)
    <2> DEFINE l == [link[e] EXCEPT !.listed = FALSE, !.taken = TRUE]
    <2>1. link' = [link EXCEPT ![e] = l] /\ net' \subseteq Datagrams
      BY <1>3 DEF SendLoopTake, LinkTypes
    <2>2. l \in Links /\ l.recv = link[e].recv /\ l.send = link[e].send
      BY <1>0 DEF Links
    <2> QED
      BY <1>0, <1>2, <2>1, <2>2
  <1>4. CASE Resend(e)
    <2>1. /\ link' = [link EXCEPT ![e] = Resent(link[e])]
          /\ Transmit(net, {Datagram(e, link[e].send.packs[Slot(link[e].send.index)])})
          /\ link[e].send.length > 0
      BY <1>4, Zenon DEF Resend, HeadCounts
    <2>2. /\ Resent(link[e]) \in Links /\ Resent(link[e]).recv = link[e].recv
          /\ Resent(link[e]).send.full = link[e].send.full
          /\ Resent(link[e]).send.length = link[e].send.length
          /\ HeadThere(Resent(link[e]).send)
          /\ Datagram(e, link[e].send.packs[Slot(link[e].send.index)]) \in Datagrams
      BY <1>0, <2>1, ResentType
    <2>3. net' \subseteq Datagrams
      BY <2>1, <2>2, TransmitTyped DEF LinkTypes
    <2> QED
      BY <1>2, <2>1, <2>2, <2>3
  <1>5. CASE ResendNothing(e)
    <2> DEFINE l == [link[e] EXCEPT !.taken = FALSE]
    <2>1. link' = [link EXCEPT ![e] = l] /\ net' \subseteq Datagrams
      BY <1>5 DEF ResendNothing, LinkTypes
    <2>2. l \in Links /\ l.recv = link[e].recv /\ l.send = link[e].send
      BY <1>0 DEF Links
    <2> QED
      BY <1>0, <1>2, <2>1, <2>2
  <1>6. CASE GiveUp(e)
    <2> DEFINE l == [link[e] EXCEPT !.freed = TRUE]
    <2>1. link' = [link EXCEPT ![e] = l] /\ net' \subseteq Datagrams
      BY <1>6 DEF GiveUp, LinkTypes
    <2>2. l \in Links /\ l.recv = link[e].recv /\ l.send = link[e].send
      BY <1>0 DEF Links
    <2> QED
      BY <1>0, <1>2, <2>1, <2>2
  <1> QED
    BY <1>3, <1>4, <1>5, <1>6 DEF SendLoop
\* cavan_udp_sock_recv_loop.
LEMMA DeliverStep ==
    ASSUME LinkInv, NEW m \in net, Deliver(m)
    PROVE  LinkInv'
  <1> USE DEF LinkInv
  <1> DEFINE e == m.to
  <1>0. m \in Datagrams /\ e \in Ends
    BY DEF LinkTypes, Datagrams
  <1> HIDE DEF e
  <1>1. link[e] \in Links /\ link[e].recv \in Windows
    BY <1>0 DEF LinkTypes, Links
  <1>2. InSequence(link[e].recv) /\ HeadThere(link[e].send)
    BY <1>0 DEF RecvInSequence, SendHeads
  <1>3. \A base \in Rest(m) : base \subseteq Datagrams
    BY RestTyped
  <1>4. UNCHANGED <<blocked, sent>>
    BY DEF Deliver, RecvData, RecvWind, RecvAck, RecvOrphan, RecvError
  <1>5. ASSUME NEW l \in Links, InSequence(l.recv), HeadThere(l.send),
               l.send.full = link[e].send.full, l.send.length = link[e].send.length,
               link' = [link EXCEPT ![e] = l], net' \subseteq Datagrams, UNCHANGED woken
        PROVE  LinkInv'
    <2>1. /\ link' \in [Ends -> Links] /\ RecvInSequence' /\ SendHeads'
          /\ link'[e] = l /\ (e # Sender => link'[Sender] = link[Sender])
      BY <1>0, <1>5, OneLink
    <2>2. WaitsMarked'
      BY <1>4, <1>5, <2>1, WaitsKept DEF LinkTypes
    <2> QED
      BY <1>4, <1>5, <2>1, <2>2 DEF LinkTypes
  <1>6. CASE RecvData(e, m)
    <2> DEFINE w == Received(link[e].recv, m)
               l == [link[e] EXCEPT !.recv = w]
    <2>1. w \in Windows /\ InSequence(w)
      BY <1>0, <1>1, <1>2, <1>6, ReceivedType DEF RecvData
    <2>2. /\ link' = [link EXCEPT ![e].recv = w] /\ UNCHANGED woken
          /\ \E base \in Rest(m) : Transmit(base, {AckOf(e, w, m)})
      BY <1>6, Zenon DEF RecvData
    <2> HIDE DEF w
    <2>3. link' = [link EXCEPT ![e] = l]
      BY <2>2
    <2>4. l \in Links /\ l.recv = w /\ l.send = link[e].send
      BY <1>1, <2>1 DEF Links
    <2>5. {AckOf(e, w, m)} \subseteq Datagrams
      BY <1>0, <2>1, AckTyped
    <2>6. net' \subseteq Datagrams
      BY <1>3, <2>2, <2>5, TransmitTyped
    <2> HIDE DEF l
    <2> QED
      BY <1>2, <1>5, <2>1, <2>2, <2>3, <2>4, <2>6
  <1>7. CASE RecvWind(e, m)
    <2> DEFINE w == Received(link[e].recv, m)
               l == [link[e] EXCEPT !.recv = w, !.sequence = SetSequence(@, m.val)]
               grown == l.sequence # link[e].sequence
               r == IF grown THEN AfterFlush(l) ELSE l
               D == {AckOf(e, w, m)} \cup (IF grown THEN FlushDatagrams(e, l) ELSE {})
    <2>1. w \in Windows /\ InSequence(w)
      BY <1>0, <1>1, <1>2, <1>7, ReceivedType DEF RecvWind
    <2>2. /\ link' = [link EXCEPT ![e] = r] /\ UNCHANGED woken
          /\ \E base \in Rest(m) : Transmit(base, D)
      BY <1>7, Zenon DEF RecvWind
    <2>3. l \in Links /\ l.recv = w /\ l.send = link[e].send
      <3>1. SetSequence(link[e].sequence, m.val) \in Seqs
        BY <1>0, <1>1 DEF SetSequence, Links, Datagrams
      <3> HIDE DEF w
      <3> QED
        BY <1>1, <2>1, <3>1 DEF Links
    <2> HIDE DEF w, l, grown
    <2>4. /\ r \in Links /\ r.recv = w /\ r.send.full = link[e].send.full
          /\ r.send.length = link[e].send.length /\ HeadThere(r.send)
      BY <1>2, <2>3, FlushKeeps
    <2>5. D \subseteq Datagrams
      BY <1>0, <2>1, <2>3, AckTyped, FlushSends
    <2> HIDE DEF r, D
    <2>6. net' \subseteq Datagrams
      BY <1>3, <2>2, <2>5, TransmitTyped
    <2> QED
      BY <1>5, <2>1, <2>2, <2>4, <2>6
  <1>8. CASE RecvAck(e, m)
    <2> DEFINE l == Acked(link[e], m)
    <2>1. /\ link' = [link EXCEPT ![e] = l] /\ net' \in Rest(m)
          /\ woken' = (woken \/ (e = Sender /\ blocked /\ link[e].send.full /\ ~l.send.full))
      BY <1>8, Zenon DEF RecvAck
    <2>2. /\ l \in Links /\ l.recv = link[e].recv /\ HeadThere(l.send)
          /\ l.send.full => link[e].send.full /\ l.send.length = link[e].send.length
      BY <1>0, <1>1, <1>2, AckedType
    <2> HIDE DEF l
    <2>3. /\ link' \in [Ends -> Links] /\ RecvInSequence' /\ SendHeads'
          /\ link'[e] = l /\ (e # Sender => link'[Sender] = link[Sender])
      BY <1>0, <1>2, <2>1, <2>2, OneLink
    <2>4. net' \subseteq Datagrams
      BY <1>3, <2>1
    <2>5. woken' \in BOOLEAN
      BY <2>1
    <2>6. WaitsMarked'
      <3> SUFFICES ASSUME blocked', ~woken'
                   PROVE  link'[Sender].send.full /\ link'[Sender].send.length = WinSize
        BY DEF WaitsMarked
      <3>1. blocked /\ ~woken /\ ~(e = Sender /\ link[e].send.full /\ ~l.send.full)
        BY <1>4, <2>1
      <3>2. link[Sender].send.full /\ link[Sender].send.length = WinSize
        BY <3>1 DEF WaitsMarked
      <3> QED
        BY <2>2, <2>3, <3>1, <3>2
    <2> QED
      BY <1>4, <2>3, <2>4, <2>5, <2>6 DEF LinkTypes
  <1>9. CASE RecvOrphan(e, m)
    <2> DEFINE err == [to |-> Peer(e), type |-> "ERROR", seq |-> 0, val |-> 0]
    <2>1. UNCHANGED <<link, woken>> /\ \E base \in Rest(m) : Transmit(base, {err})
      BY <1>9 DEF RecvOrphan
    <2>2. {err} \subseteq Datagrams
      BY WindowFits DEF Datagrams, Peer, Ends, Seqs
    <2>3. net' \subseteq Datagrams
      BY <1>3, <2>1, <2>2, TransmitTyped
    <2>4. link' = [link EXCEPT ![e] = link[e]]
      BY <2>1 DEF LinkTypes
    <2> QED
      BY <1>1, <1>2, <1>5, <2>1, <2>3, <2>4
  <1>10. CASE RecvError(e, m)
    <2> DEFINE l == [link[e] EXCEPT !.freed = TRUE]
    <2>1. link' = [link EXCEPT ![e] = l] /\ UNCHANGED woken /\ net' \in Rest(m)
      BY <1>10 DEF RecvError
    <2>2. l \in Links /\ l.recv = link[e].recv /\ l.send = link[e].send
      BY <1>1 DEF Links
    <2>3. net' \subseteq Datagrams
      BY <1>3, <2>1
    <2> HIDE DEF l
    <2> QED
      BY <1>2, <1>5, <2>1, <2>2, <2>3
  <1> QED
    BY <1>6, <1>7, <1>8, <1>9, <1>10 DEF Deliver, e

\* cavan_udp_sock_recv.  The WIND pack goes into a send window with room, so that it
\* never makes up for a pack a waiting sender waits for.
LEMMA RecvStep ==
    ASSUME LinkInv, NEW e \in Ends, cavan_udp_sock_recv(e)
    PROVE  LinkInv'
  <1> USE DEF LinkInv
  <1> DEFINE w == Popped(link[e].recv)
             tell == w.full /\ w.length < WinSize \div 2 /\ link[e].send.length < WinSize
             k == [link[e] EXCEPT !.recv = [w EXCEPT !.full = FALSE]]
             wind == Enqueued(k, "WIND", Plus(w.index, WinSize))
             quiet == [link[e] EXCEPT !.recv = w]
             l == IF tell THEN wind ELSE quiet
             r == IF tell THEN AfterFlush(l) ELSE l
             D == IF tell THEN FlushDatagrams(e, l) ELSE {}
  <1>1. link[e] \in Links /\ link[e].recv \in Windows
    BY DEF LinkTypes, Links
  <1>2. InSequence(link[e].recv) /\ HeadThere(link[e].send)
    BY DEF RecvInSequence, SendHeads
  <1>3. /\ link' = [link EXCEPT ![e] = r] /\ Transmit(net, D)
        /\ link[e].recv.index # link[e].recv.ready
        /\ UNCHANGED <<blocked, woken, sent>>
    BY Zenon DEF cavan_udp_sock_recv, Dequeue
  <1>4. w \in Windows /\ InSequence(w)
    BY <1>1, <1>2, <1>3, PoppedType
  <1> HIDE DEF w
  <1>5. quiet \in Links /\ quiet.recv = w /\ quiet.send = link[e].send
    BY <1>1, <1>4 DEF Links
  <1>6. /\ k \in Links /\ k.send = link[e].send
        /\ InSequence(k.recv)
    <2>1. /\ [w EXCEPT !.full = FALSE] \in Windows
          /\ InSequence([w EXCEPT !.full = FALSE])
      BY <1>4 DEF Windows, InSequence
    <2> QED
      BY <1>1, <2>1 DEF Links
  <1> HIDE DEF k, quiet
  <1>7. ASSUME tell
        PROVE  wind \in Links /\ InSequence(wind.recv) /\ HeadThere(wind.send)
    <2>1. Plus(w.index, WinSize) \in Seqs
      <3>1. w.index \in Nat
        BY <1>4 DEF Windows, Seqs
      <3> QED
        BY <3>1, WindowFits, PlusType
    <2>2. k.send.length < WinSize
      BY <1>6, <1>7
    <2> QED
      BY <1>2, <1>6, <2>1, <2>2, EnqueueType
  <1> HIDE DEF wind
  <1>8. l \in Links /\ InSequence(l.recv) /\ HeadThere(l.send)
    BY <1>2, <1>4, <1>5, <1>7
  <1>9. r \in Links /\ InSequence(r.recv) /\ HeadThere(r.send)
    BY <1>8, FlushKeeps
  <1>10. net' \subseteq Datagrams
    <2>1. D \subseteq Datagrams
      BY <1>8, FlushSends
    <2> QED
      BY <1>3, <2>1, TransmitTyped DEF LinkTypes
  <1>11. /\ link' \in [Ends -> Links] /\ RecvInSequence' /\ SendHeads'
         /\ link'[e] = r /\ (e # Sender => link'[Sender] = link[Sender])
    <2> HIDE DEF r
    <2> QED
      BY <1>3, <1>9, OneLink
  <1>12. WaitsMarked'
    <2> SUFFICES ASSUME blocked', ~woken'
                 PROVE  link'[Sender].send.full /\ link'[Sender].send.length = WinSize
      BY DEF WaitsMarked
    <2>1. link[Sender].send.full /\ link[Sender].send.length = WinSize
      BY <1>3 DEF WaitsMarked
    <2>2. CASE e # Sender
      BY <1>11, <2>1, <2>2
    <2>3. CASE e = Sender
      <3>1. ~tell
        BY <2>1, <2>3, WindowFits
      <3>2. r = quiet
        BY <3>1
      <3> QED
        BY <1>5, <1>11, <2>1, <2>3, <3>2
    <2> QED
      BY <2>2, <2>3
  <1> QED
    BY <1>3, <1>10, <1>11, <1>12 DEF LinkTypes

-----------------------------------------------------------------------------
\* The invariant of the established link, for any windows, sequence numbers and network.
THEOREM LinkInvariant == UdpSpec => []LinkInv
  <1>1. UdpInit => LinkInv
    <2> SUFFICES ASSUME UdpInit PROVE LinkInv
      OBVIOUS
    <2>1. PICK i \in Starts, j \in Starts, c \in 1..MaxCwnd :
            link = [e \in Ends |->
                     [send |-> Win(IF e = Sender THEN i ELSE j),
                      recv |-> Win(IF e = Sender THEN j ELSE i),
                      sequence |-> ((IF e = Sender THEN i ELSE j) + WinSize) % Mod,
                      cwnd |-> c, acks |-> 0, listed |-> FALSE, taken |-> FALSE,
                      freed |-> FALSE]]
      BY DEF UdpInit
    <2>2. /\ net = {} /\ blocked = FALSE /\ woken = FALSE /\ sent = 0
      BY DEF UdpInit
    <2>3. \A s \in Starts : s \in Seqs /\ s \in Nat /\ s < Mod
      BY WindowFits, UdpAssumption DEF Seqs
    <2>4. \A s \in Starts : Win(s) \in Windows /\ InSequence(Win(s)) /\ HeadThere(Win(s))
      <3> TAKE s \in Starts
      <3>1. Plus(s, 0) = s
        BY <2>3, WindowFits DEF Plus
      <3> QED
        BY <2>3, <3>1, WindowFits DEF Win, Windows, InSequence, HeadThere
    <2>5. \A s \in Starts : (s + WinSize) % Mod \in Seqs
      BY <2>3, WindowFits, PlusType DEF Plus
    <2>6. ASSUME NEW e \in Ends
          PROVE  link[e] \in Links /\ InSequence(link[e].recv) /\ HeadThere(link[e].send)
      <3>1. PICK a \in Starts, b \in Starts :
               link[e] = [send |-> Win(a), recv |-> Win(b), sequence |-> (a + WinSize) % Mod,
                          cwnd |-> c, acks |-> 0, listed |-> FALSE, taken |-> FALSE,
                          freed |-> FALSE]
        BY <2>1
      <3>2. 0 \in 0..MaxCwnd
        BY UdpAssumption
      <3> QED
        BY <2>1, <2>4, <2>5, <3>1, <3>2 DEF Links
    <2>7. link \in [Ends -> Links]
      BY <2>1, <2>6
    <2>8. sent \in 0..MaxMessages
      BY <2>2, WindowFits
    <2> QED
      BY <2>2, <2>6, <2>7, <2>8
      DEF LinkInv, LinkTypes, RecvInSequence, SendHeads, WaitsMarked
  <1>2. LinkInv /\ [UdpNext]_vars => LinkInv'
    <2> SUFFICES ASSUME LinkInv, [UdpNext]_vars PROVE LinkInv'
      OBVIOUS
    <2>1. ASSUME NEW m \in net, Lose(m) PROVE LinkInv'
      BY <2>1 DEF Lose, LinkInv, LinkTypes, RecvInSequence, InSequence, Plus, SendHeads,
         HeadThere, Slot, WaitsMarked
    <2>2. CASE UNCHANGED vars
      BY <2>2 DEF vars, LinkInv, LinkTypes, RecvInSequence, InSequence, Plus, SendHeads,
         HeadThere, Slot, WaitsMarked
    <2> QED
      BY <2>1, <2>2, SendStep, SendLoopStep, RecvStep, DeliverStep DEF UdpNext
  <1> QED
    BY <1>1, <1>2, PTL DEF UdpSpec

\* A sender that sleeps until cavan_udp_win_ack makes room, and has not been signalled,
\* sleeps before a full window, however acknowledgements are lost, repeated and
\* reordered and whatever WIND packs its own receiving side sends.
THEOREM SenderRemembered == UdpSpec => []SenderNotForgotten
  <1>1. LinkInv => SenderNotForgotten
    BY DEF LinkInv, WaitsMarked, SenderNotForgotten
  <1> QED
    BY <1>1, LinkInvariant, PTL-----------------------------------------------------------------------------
(* What travels: each end's packs make up a stream, of which everything in  *)
(* the windows and on the network is a copy.                                *)

\* The packs an end has enqueued: the number of the first, how many there are, how many
\* of them the peer has dequeued, what each one is, and how many data packs precede it.
Streams == [start : Seqs, n : Nat, r : Nat, type : [Nat -> {"DATA", "WIND"}],
            val : [Nat -> Nat], cnt : [Nat -> Nat]]

\* p is the pack enqueued after o others.
Copy(g, o, p) ==
    /\ o < g.n /\ p.seq = Plus(g.start, o)
    /\ p.type = g.type[o] /\ p.val = g.val[o]

\* The data packs are numbered 1, 2, 3, ... in the order of the stream.
Numbered(g) ==
    /\ \A o \in Nat : o < g.n /\ g.type[o] = "DATA" =>
                         g.val[o] = g.cnt[o] + 1 /\ g.cnt[o + 1] = g.cnt[o] + 1
    /\ \A o \in Nat : o < g.n /\ g.type[o] = "WIND" => g.cnt[o + 1] = g.cnt[o]
    /\ \A a, o \in Nat : a <= o /\ o <= g.n => g.cnt[a] <= g.cnt[o]
    /\ \A v \in Nat : 0 < v /\ v <= g.cnt[g.n] =>
                         \E o \in Nat : o < g.n /\ g.type[o] = "DATA" /\ g.val[o] = v
    /\ g.r <= g.n

\* The send window ends where the stream does and holds copies of its packs.
SendFlow(g, w) ==
    /\ Plus(w.index, w.length) = Plus(g.start, g.n)
    /\ \A i \in Slots : w.packs[i] # NULL => \E o \in Nat : Copy(g, o, w.packs[i])

\* The receive window starts where the reader is, holds copies of the next WinSize packs
\* of the stream, each in its slot, and has no gap below ready.
RecvFlow(g, w) ==
    /\ w.index = Plus(g.start, g.r)
    /\ \A i \in Slots : w.packs[i] # NULL =>
          /\ Slot(w.packs[i].seq) = i
          /\ \E o \in Nat : g.r <= o /\ o < g.r + WinSize /\ Copy(g, o, w.packs[i])
    /\ \A k \in Nat : k < w.length => w.packs[Slot(Plus(w.index, k))] # NULL

\* So are the packs on the network to f.
NetFlow(g, f, N) ==
    \A m \in N : m.to = f /\ m.type \in {"DATA", "WIND"} => \E o \in Nat : Copy(g, o, m)

\* A WIND pack answers a window that was full and has emptied below half, so there are
\* at most half as many as packs dequeued: the streams end before the numbers come round.
Winds(g) == g.n - g.cnt[g.n]

Paced(g, w, back) ==
    /\ 2 * Winds(back) <= g.r
    /\ w.full => g.r + w.length >= 2 * Winds(back) + WinSize

Flow(h, e, L, N) ==
    /\ Numbered(h[e])
    /\ SendFlow(h[e], L[e].send)
    /\ RecvFlow(h[e], L[Peer(e)].recv)
    /\ NetFlow(h[e], Peer(e), N)
    /\ Paced(h[e], L[Peer(e)].recv, h[Peer(e)])

\* Only the Sender's stream has data; what has been got are the data packs dequeued.
Tally(h, S, G) ==
    /\ h[Sender].cnt[h[Sender].n] = S
    /\ h[Receiver].cnt[h[Receiver].n] = 0
    /\ G \in Seq(Nat) /\ Len(G) = h[Sender].cnt[h[Sender].r]
-----------------------------------------------------------------------------
(* How far the Sender has gone, while no resend has passed the receiver's   *)
(* limit and no late number has set the limit back.                         *)

\* The pack enqueued after o others has been dequeued or waits in its slot.
Arrived(g, w, o) ==
    o < g.r \/ (o < g.r + WinSize /\ w.packs[Slot(Plus(g.start, o))] # NULL)

\* How many packs have left the send window.
First(g, s) == g.n - s.length

\* ready stands after R packs and the limit after M; ready keeps behind the limit and
\* the congestion window, the limit within the receiver's window.
Placed(g, R, M, l) ==
    /\ l.send.length <= g.n
    /\ l.send.ready = Plus(g.start, R) /\ l.sequence = Plus(g.start, M)
    /\ R <= M /\ R <= g.n /\ R <= First(g, l.send) + l.cwnd
    /\ M <= g.r + WinSize

\* The numbers of the limit have wrapped and those of ready have not: cavan_udp_win_flush
\* returns at once until a resend moves ready.
Stuck(g, R, M) == Plus(g.start, M) < Plus(g.start, R) /\ Plus(g.start, M) > WinSize

\* A resend sets ready back, and acknowledgements may pass it; it never falls a whole
\* window behind, where the slots would stand for later packs.
Lag(g, R, M, l) ==
    R <= First(g, l.send) =>
        \/ g.n < R + WinSize
        \/ R = First(g, l.send) /\ M = First(g, l.send)
        \/ Stuck(g, R, M)

\* A pack that is no longer in the send window has arrived; the others are in their slots.
SendHolds(g, s, w) ==
    /\ \A o \in Nat : o < First(g, s) => Arrived(g, w, o)
    /\ \A o \in Nat : First(g, s) <= o /\ o < g.n /\ s.packs[Slot(Plus(g.start, o))] = NULL =>
                         Arrived(g, w, o)
    /\ \A i \in Slots : s.packs[i] # NULL =>
          \E o \in Nat : First(g, s) <= o /\ Slot(Plus(g.start, o)) = i /\ Copy(g, o, s.packs[i])

\* Nothing past the limit has been sent.
Below(g, M, p) == \E o \in Nat : Copy(g, o, p) /\ o < M

RecvBelow(g, M, w) ==
    g.r <= M /\ \A i \in Slots : w.packs[i] # NULL => Below(g, M, w.packs[i])

NetBelow(g, M, N) ==
    \A m \in N : m.to = Receiver /\ m.type \in {"DATA", "WIND"} => Below(g, M, m)

\* An acknowledgement is for a pack that has arrived; its limit, like that of a WIND
\* pack, lies within the receiver's window.
AckTrue(g, w, m) ==
    \E o, x \in Nat : /\ o < g.n /\ Arrived(g, w, o) /\ m.seq = Plus(g.start, o)
                      /\ x <= g.r + WinSize /\ Plus(m.seq, m.val) = Plus(g.start, x)

AcksTrue(g, w, N) == \A m \in N : m.to = Sender /\ m.type = "ACK" => AckTrue(g, w, m)

WindsTrue(g, b) ==
    \A o \in Nat : o < b.n => \E x \in Nat : x <= g.r + WinSize /\ b.val[o] = Plus(g.start, x)

NearAt(g, b, R, M, l, w, N) ==
    /\ Placed(g, R, M, l) /\ Lag(g, R, M, l) /\ SendHolds(g, l.send, w)
    /\ RecvBelow(g, M, w) /\ NetBelow(g, M, N)
    /\ AcksTrue(g, w, N) /\ WindsTrue(g, b)

Near(g, b, l, w, N) == \E R, M \in Nat : NearAt(g, b, R, M, l, w, N)

\* A stream of less than half a turn.
Short(g) ==
    /\ g.start \in Seqs /\ g.n \in Nat /\ g.r \in Nat
    /\ g.r <= g.n /\ 2 * (g.n + WinSize) + 1 < Mod

\* As long as no resend has passed the receiver's limit and no late number has set the
\* limit back, the Sender keeps within the Receiver's window.
Within(h, L, N, passed, back) ==
    passed \/ back \/ Near(h[Sender], h[Receiver], L[Sender], L[Receiver].recv, N)

FlowInv ==
    \E h \in [Ends -> Streams] :
        /\ \A e \in Ends : Flow(h, e, link, net)
        /\ Tally(h, sent, got) /\ Within(h, link, net, overrun, setback)

-----------------------------------------------------------------------------
\* Division with remainder.
LEMMA Divided ==
    ASSUME NEW x \in Nat, NEW w \in Nat, w > 0
    PROVE  \E q \in Nat, t \in Nat : t = x % w /\ t < w /\ x = w * q + t
  <1>1. x = w * (x \div w) + (x % w)
    BY Z3
  <1>2. x \div w \in Nat /\ x % w \in Nat /\ x % w < w
    OBVIOUS
  <1> QED
    BY <1>1, <1>2, Zenon

LEMMA RemainderIs ==
    ASSUME NEW w \in Nat, w > 0, NEW q \in Nat, NEW t \in Nat, t < w, NEW x \in Nat, x = w * q + t
    PROVE  x % w = t
  BY SMTT(30)

\* The slot of a number is the same whether or not the number has wrapped.
LEMMA WrapSlot ==
    ASSUME NEW x \in Nat, x >= Mod
    PROVE  (x - Mod) % WinSize = x % WinSize
  <1>1. WinSize \in Nat /\ WinSize > 0 /\ Mod \in Nat /\ Mod > 0
    BY WindowFits
  <1>2. PICK q \in Nat : Mod = WinSize * q
    <2>1. PICK W \in Nat : W = 4 * WinSize
      BY <1>1
    <2>2. W > 0 /\ Mod % W = 0
      BY <1>1, <2>1, UdpAssumption
    <2>3. PICK d \in Nat : Mod = W * d + 0
      BY <1>1, <2>2, Divided
    <2>4. Mod = WinSize * (4 * d)
      BY <1>1, <2>1, <2>3
    <2> QED
      BY <2>3, <2>4
  <1>3. PICK y \in Nat : y = x - Mod
    BY <1>1
  <1>4. PICK c \in Nat, u \in Nat : u = y % WinSize /\ u < WinSize /\ y = WinSize * c + u
    BY <1>1, Divided
  <1>5. x = WinSize * (c + q) + u
    BY <1>1, <1>2, <1>3, <1>4
  <1>6. x % WinSize = u
    <2>1. PICK a \in Nat : a = c + q
      BY <1>2, <1>4
    <2> QED
      BY <1>1, <1>4, <1>5, <2>1, RemainderIs
  <1> QED
    BY <1>3, <1>4, <1>6

\* Every number has a slot.
LEMMA SlotType ==
    ASSUME NEW s \in Seqs
    PROVE  Slot(s) \in Slots /\ Plus(s, 0) = s /\ \A n \in Nat : Slot(Plus(s, n)) \in Slots
  <1>1. s \in Nat /\ s < Mod /\ s \in 0..(2 * Mod - 1)
    BY WindowFits DEF Seqs
  <1>2. \A x \in Seqs : Slot(x) \in Slots
    BY WindowFits DEF Seqs, Slot, Slots
  <1>3. \A n \in Nat : Plus(s, n) \in Seqs
    BY <1>1, PlusType
  <1>4. Plus(s, 0) = s
    BY <1>1, WindowFits DEF Plus
  <1> QED
    BY <1>2, <1>3, <1>4

\* The slot of the pack enqueued after o others.
LEMMA SlotOf ==
    ASSUME NEW s \in Seqs, NEW o \in Nat, o < Mod
    PROVE  Slot(Plus(s, o)) = (s + o) % WinSize
  <1>1. s \in Nat /\ s < Mod /\ Mod \in Nat
    BY WindowFits DEF Seqs
  <1>2. PICK x \in Nat : x = s + o
    BY <1>1
  <1>3. x \in 0..(2 * Mod - 1)
    BY <1>1, <1>2
  <1>4. CASE x < Mod
    BY <1>2, <1>3, <1>4, OneTurn DEF Plus, Slot
  <1>5. CASE ~(x < Mod)
    <2>1. x % Mod = x - Mod
      BY <1>3, <1>5, OneTurn
    <2>2. (x - Mod) % WinSize = x % WinSize
      BY <1>1, <1>2, <1>5, WrapSlot
    <2> QED
      BY <1>2, <2>1, <2>2 DEF Plus, Slot
  <1> QED
    BY <1>4, <1>5

\* WinSize packs in a row have slots of their own.
LEMMA SlotsApart ==
    ASSUME NEW s \in Seqs, NEW a \in Nat, NEW b \in Nat, a < Mod, b < Mod,
           a <= b, b < a + WinSize, Slot(Plus(s, a)) = Slot(Plus(s, b))
    PROVE  a = b
  <1>1. s \in Nat /\ WinSize \in Nat /\ WinSize > 0
    BY WindowFits DEF Seqs
  <1>2. PICK x \in Nat, y \in Nat : x = s + a /\ y = s + b
    BY <1>1
  <1>3. x % WinSize = y % WinSize
    BY <1>2, SlotOf
  <1>4. PICK c \in Nat, t \in Nat : t = x % WinSize /\ t < WinSize /\ x = WinSize * c + t
    BY <1>1, Divided
  <1>5. PICK d \in Nat, u \in Nat : u = y % WinSize /\ u < WinSize /\ y = WinSize * d + u
    BY <1>1, Divided
  <1>6. t = u /\ x <= y /\ y < x + WinSize
    BY <1>1, <1>2, <1>3, <1>4, <1>5
  <1>7. ~(c < d)
    <2> SUFFICES ASSUME c < d PROVE FALSE
      OBVIOUS
    <2>1. PICK k \in Nat : d = c + 1 + k
      BY d - c - 1 \in Nat
    <2>2. WinSize * d = WinSize * c + WinSize + WinSize * k /\ WinSize * k >= 0
      BY <1>1, <2>1
    <2> QED
      BY <1>1, <1>4, <1>5, <1>6, <2>2
  <1>8. ~(d < c)
    <2> SUFFICES ASSUME d < c PROVE FALSE
      OBVIOUS
    <2>1. PICK k \in Nat : c = d + 1 + k
      BY c - d - 1 \in Nat
    <2>2. WinSize * c = WinSize * d + WinSize + WinSize * k /\ WinSize * k >= 0
      BY <1>1, <2>1
    <2> QED
      BY <1>1, <1>4, <1>5, <1>6, <2>2
  <1>9. c = d
    BY <1>7, <1>8
  <1>10. WinSize * c = WinSize * d
    BY <1>9
  <1>11. x = y
    BY <1>4, <1>5, <1>6, <1>10
  <1> QED
    BY <1>1, <1>2, <1>11

\* cavan_udp_win_invalid takes in the numbers of the window, while the stream is shorter
\* than a turn by a window.
LEMMA ValidIsNear ==
    ASSUME NEW s \in Seqs, NEW r \in Nat, NEW o \in Nat, r < Mod - WinSize, o < Mod - WinSize,
           ~Invalid(Plus(s, r), Plus(s, o))
    PROVE  r <= o /\ o < r + WinSize
  <1>1. s \in Nat /\ s < Mod /\ Mod \in Nat /\ WinSize \in Nat /\ WinSize > 1 /\ 4 * WinSize <= Mod
    BY WindowFits DEF Seqs
  <1>2. PICK x \in Nat, y \in Nat : x = Plus(s, r) /\ y = Plus(s, o) /\ x < Mod /\ y < Mod
    BY <1>1, PlusType DEF Seqs
  <1>3. (x = s + r /\ s + r < Mod) \/ (x = s + r - Mod /\ s + r >= Mod)
    <2>1. PICK z \in 0..(2 * Mod - 1) : z = s + r
      BY <1>1
    <2> QED
      BY <1>1, <1>2, <2>1, OneTurn DEF Plus
  <1>4. (y = s + o /\ s + o < Mod) \/ (y = s + o - Mod /\ s + o >= Mod)
    <2>1. PICK z \in 0..(2 * Mod - 1) : z = s + o
      BY <1>1
    <2> QED
      BY <1>1, <1>2, <2>1, OneTurn DEF Plus
  <1>5. PICK last \in Nat : /\ last = Plus(x, WinSize - 1)
                            /\ \/ last = x + (WinSize - 1) /\ x + (WinSize - 1) < Mod
                               \/ last = x + (WinSize - 1) - Mod /\ x + (WinSize - 1) >= Mod
    <2>1. PICK z \in 0..(2 * Mod - 1) : z = x + (WinSize - 1)
      BY <1>1, <1>2
    <2>2. z % Mod = Plus(x, WinSize - 1)
      BY <2>1 DEF Plus
    <2> QED
      BY <1>1, <1>2, <2>1, <2>2, OneTurn
  <1>6. ~(IF x < last THEN y < x \/ y > last ELSE y < x /\ y > last)
    BY <1>2, <1>5 DEF Invalid
  <1> QED
    BY <1>1, <1>2, <1>3, <1>4, <1>5, <1>6
-----------------------------------------------------------------------------
(* The operations on the windows.                                           *)

\* cavan_udp_win_flush sends copies and keeps them.
LEMMA FlushFlow ==
    ASSUME NEW l \in Links, NEW g, SendFlow(g, l.send)
    PROVE  SendFlow(g, AfterFlush(l).send)
  <1>1. /\ AfterFlush(l).send.index = l.send.index /\ AfterFlush(l).send.packs = Counted(l)
        /\ AfterFlush(l).send.length = l.send.length
    BY FlushKeeps
  <1>2. ASSUME NEW i \in Slots, Counted(l)[i] # NULL
        PROVE  \E o \in Nat : Copy(g, o, Counted(l)[i])
    <2>1. l.send.packs[i] # NULL
      BY <1>2 DEF Counted, Flushed
    <2>2. PICK o \in Nat : Copy(g, o, l.send.packs[i])
      BY <2>1 DEF SendFlow
    <2>3. Copy(g, o, Counted(l)[i])
      BY <2>1, <2>2, CountedPack DEF Copy
    <2> QED
      BY <2>3
  <1> QED
    BY <1>1, <1>2 DEF SendFlow

LEMMA FlushNet ==
    ASSUME NEW l \in Links, NEW g, SendFlow(g, l.send), NEW e \in Ends, NEW f
    PROVE  NetFlow(g, f, FlushDatagrams(e, l))
  <1>1. ASSUME NEW i \in Flushed(l)
        PROVE  \E o \in Nat : Copy(g, o, Datagram(e, l.send.packs[i]))
    <2>1. i \in Slots /\ l.send.packs[i] # NULL
      BY <1>1 DEF Flushed
    <2>2. PICK o \in Nat : Copy(g, o, l.send.packs[i])
      BY <2>1 DEF SendFlow
    <2>3. Copy(g, o, Datagram(e, l.send.packs[i]))
      BY <2>2 DEF Copy, Datagram
    <2> QED
      BY <2>3
  <1> QED
    BY <1>1 DEF FlushDatagrams, NetFlow

\* cavan_udp_win_resend: the first pack keeps its number and its contents.
LEMMA ResentFlow ==
    ASSUME NEW l \in Links, HeadThere(l.send), l.send.length > 0, NEW g, SendFlow(g, l.send),
           NEW e \in Ends, NEW f
    PROVE  /\ SendFlow(g, Resent(l).send)
           /\ NetFlow(g, f, {Datagram(e, l.send.packs[Slot(l.send.index)])})
  <1> DEFINE i == Slot(l.send.index)
             p == [l.send.packs[i] EXCEPT !.times = @ + 1]
             packs == [l.send.packs EXCEPT ![i] = p]
  <1>1. l.send.index \in Seqs /\ l.send.packs \in [Slots -> Packs \cup {NULL}]
    BY DEF Links, Windows
  <1>2. i \in Slots
    BY <1>1, WindowFits, SMTT(20) DEF Slot, Slots, Seqs
  <1>3. l.send.packs[i] \in Packs
    BY <1>1, <1>2 DEF HeadThere
  <1>4. Resent(l).send.index = l.send.index /\ Resent(l).send.length = l.send.length
    BY DEF Resent, Links, Windows
  <1>5. Resent(l).send.packs = packs
    <2>1. [l.send.packs EXCEPT ![i].times = @ + 1] = packs
      BY <1>1, <1>2
    <2>2. Resent(l).send.packs = [l.send.packs EXCEPT ![i].times = @ + 1]
      BY DEF Resent, Links, Windows
    <2> QED
      BY <2>1, <2>2
  <1>6. PICK o \in Nat : Copy(g, o, l.send.packs[i])
    BY <1>2, <1>3, NullNoPack DEF SendFlow
  <1>7. Copy(g, o, p)
    BY <1>3, <1>6 DEF Copy, Packs
  <1>8. Copy(g, o, Datagram(e, l.send.packs[i]))
    BY <1>6 DEF Copy, Datagram
  <1> HIDE DEF i, p
  <1>9. \A j \in Slots : packs[j] = IF j = i THEN p ELSE l.send.packs[j]
    BY <1>1
  <1> HIDE DEF packs
  <1>10. SendFlow(g, Resent(l).send)
    BY <1>4, <1>5, <1>7, <1>9 DEF SendFlow
  <1> QED
    BY <1>8, <1>10 DEF NetFlow, i

\* cavan_udp_win_ack: packs leave the window, which still ends where the stream does.
LEMMA AckedFlow ==
    ASSUME NEW l \in Links, NEW m \in Datagrams, NEW g, SendFlow(g, l.send)
    PROVE  SendFlow(g, Acked(l, m).send)
  <1>1. ASSUME NEW w \in Windows, NEW i, SendFlow(g, w) PROVE SendFlow(g, AckedWin(w, i))
    <2> DEFINE packs == [w.packs EXCEPT ![i] = NULL]
               clear == {k \in 0..w.length :
                           \A j \in 0..(k - 1) : packs[Slot(Plus(w.index, j))] = NULL}
               n == Max(clear)
    <2>1. w.length \in 0..WinSize /\ WinSize \in Nat /\ w.index \in Seqs
      BY WindowFits DEF Windows
    <2>2. n \in 0..w.length
      <3>1. clear \in SUBSET (0..w.length) /\ 0 \in clear /\ w.length \in Nat
        BY <2>1
      <3> HIDE DEF clear
      <3> QED
        BY <3>1, MaxIsThere
    <2>3. AckedWin(w, i) = [w EXCEPT !.packs = packs, !.length = @ - n, !.index = Plus(@, n),
                                     !.full = @ /\ n = 0]
      BY Zenon DEF AckedWin
    <2> HIDE DEF n
    <2>4. /\ AckedWin(w, i).length = w.length - n /\ AckedWin(w, i).packs = packs
          /\ AckedWin(w, i).index = Plus(w.index, n)
      BY <2>3 DEF Windows
    <2>5. Plus(Plus(w.index, n), w.length - n) = Plus(w.index, w.length)
      <3>1. n \in 0..WinSize /\ w.length - n \in 0..WinSize /\ n + (w.length - n) = w.length
        BY <2>1, <2>2
      <3>2. Plus(Plus(w.index, n), w.length - n) = Plus(w.index, n + (w.length - n))
        BY <2>1, <3>1, PlusPlus
      <3> QED
        BY <3>1, <3>2
    <2>6. \A j \in Slots : packs[j] # NULL => packs[j] = w.packs[j]
      BY DEF Windows
    <2> HIDE DEF packs
    <2>7. \A j \in Slots : packs[j] # NULL => \E o \in Nat : Copy(g, o, packs[j])
      BY <1>1, <2>6 DEF SendFlow
    <2>8. Plus(AckedWin(w, i).index, AckedWin(w, i).length) = Plus(g.start, g.n)
      BY <1>1, <2>4, <2>5 DEF SendFlow
    <2> QED
      BY <2>4, <2>7, <2>8 DEF SendFlow
  <1>2. Acked(l, m).send = l.send \/ Acked(l, m).send = AckedWin(l.send, Slot(m.seq))
    BY DEF Acked, Links
  <1>3. l.send \in Windows
    BY DEF Links
  <1> QED
    BY <1>1, <1>2, <1>3
\* The stream after one more pack.
Longer(g, t, v) ==
    [start |-> g.start, n |-> g.n + 1, r |-> g.r, type |-> [g.type EXCEPT ![g.n] = t],
     val |-> [g.val EXCEPT ![g.n] = v],
     cnt |-> [g.cnt EXCEPT ![g.n + 1] = g.cnt[g.n] + (IF t = "DATA" THEN 1 ELSE 0)]]

\* k is g and one more pack.
OneMore(g, t, v, k) ==
    /\ k.start = g.start /\ k.n = g.n + 1 /\ k.r = g.r
    /\ \A o \in Nat : o < g.n => k.type[o] = g.type[o] /\ k.val[o] = g.val[o]
    /\ \A o \in Nat : o <= g.n => k.cnt[o] = g.cnt[o]
    /\ k.type[g.n] = t /\ k.val[g.n] = v
    /\ t = "DATA" => k.cnt[g.n + 1] = g.cnt[g.n] + 1
    /\ t = "WIND" => k.cnt[g.n + 1] = g.cnt[g.n]

LEMMA LongerIs ==
    ASSUME NEW g \in Streams, NEW t \in {"DATA", "WIND"}, NEW v \in Nat
    PROVE  Longer(g, t, v) \in Streams /\ OneMore(g, t, v, Longer(g, t, v))
  <1>1. /\ g.n \in Nat /\ g.n + 1 \in Nat /\ g.start \in Seqs /\ g.r \in Nat
        /\ g.type \in [Nat -> {"DATA", "WIND"}] /\ g.val \in [Nat -> Nat] /\ g.cnt \in [Nat -> Nat]
    BY DEF Streams
  <1> DEFINE c == g.cnt[g.n] + (IF t = "DATA" THEN 1 ELSE 0)
  <1>2. /\ c \in Nat /\ g.cnt[g.n] \in Nat
        /\ t = "DATA" => c = g.cnt[g.n] + 1
        /\ t = "WIND" => c = g.cnt[g.n]
    BY <1>1
  <1> HIDE DEF c
  <1>3. Longer(g, t, v) = [start |-> g.start, n |-> g.n + 1, r |-> g.r,
                           type |-> [g.type EXCEPT ![g.n] = t],
                           val |-> [g.val EXCEPT ![g.n] = v],
                           cnt |-> [g.cnt EXCEPT ![g.n + 1] = c]]
    BY DEF Longer, c
  <1>4. /\ [g.type EXCEPT ![g.n] = t] \in [Nat -> {"DATA", "WIND"}]
        /\ [g.val EXCEPT ![g.n] = v] \in [Nat -> Nat]
        /\ [g.cnt EXCEPT ![g.n + 1] = c] \in [Nat -> Nat]
    BY <1>1, <1>2
  <1>5. Longer(g, t, v) \in Streams
    BY <1>1, <1>3, <1>4 DEF Streams
  <1>6. /\ Longer(g, t, v).type = [g.type EXCEPT ![g.n] = t]
        /\ Longer(g, t, v).val = [g.val EXCEPT ![g.n] = v]
        /\ Longer(g, t, v).cnt = [g.cnt EXCEPT ![g.n + 1] = c]
        /\ Longer(g, t, v).start = g.start /\ Longer(g, t, v).n = g.n + 1
        /\ Longer(g, t, v).r = g.r
    BY <1>3
  <1>7. \A o \in Nat : o < g.n => o # g.n
    BY <1>1
  <1>8. \A o \in Nat : o <= g.n => o # g.n + 1
    BY <1>1
  <1> QED
    BY <1>1, <1>2, <1>5, <1>6, <1>7, <1>8 DEF OneMore

LEMMA LongerNumbered ==
    ASSUME NEW g \in Streams, NEW t \in {"DATA", "WIND"}, NEW v \in Nat, Numbered(g),
           t = "DATA" => v = g.cnt[g.n] + 1
    PROVE  Numbered(Longer(g, t, v))
  <1> DEFINE k == Longer(g, t, v)
  <1>0. /\ g.n \in Nat /\ g.r \in Nat /\ g.cnt \in [Nat -> Nat] /\ g.cnt[g.n] \in Nat
    BY DEF Streams
  <1>1. k \in Streams /\ OneMore(g, t, v, k)
    BY LongerIs
  <1> HIDE DEF k
  <1>2. ASSUME NEW o \in Nat, o < k.n, k.type[o] = "DATA"
        PROVE  k.val[o] = k.cnt[o] + 1 /\ k.cnt[o + 1] = k.cnt[o] + 1
    <2>1. CASE o < g.n
      <3>1. o + 1 \in Nat /\ o + 1 <= g.n /\ o <= g.n
        BY <1>0, <1>1, <2>1 DEF OneMore
      <3>2. /\ k.type[o] = g.type[o] /\ k.val[o] = g.val[o]
            /\ k.cnt[o] = g.cnt[o] /\ k.cnt[o + 1] = g.cnt[o + 1]
        BY <1>1, <2>1, <3>1 DEF OneMore
      <3>3. g.type[o] = "DATA" => g.val[o] = g.cnt[o] + 1 /\ g.cnt[o + 1] = g.cnt[o] + 1
        BY <2>1 DEF Numbered
      <3> QED
        BY <1>2, <3>2, <3>3
    <2>2. CASE o = g.n
      BY <1>0, <1>1, <1>2, <2>2 DEF OneMore
    <2> QED
      BY <1>0, <1>1, <1>2, <2>1, <2>2 DEF OneMore
  <1>3. ASSUME NEW o \in Nat, o < k.n, k.type[o] = "WIND" PROVE k.cnt[o + 1] = k.cnt[o]
    <2>1. CASE o < g.n
      <3>1. o + 1 \in Nat /\ o + 1 <= g.n /\ o <= g.n
        BY <1>0, <1>1, <2>1 DEF OneMore
      <3>2. /\ k.type[o] = g.type[o]
            /\ k.cnt[o] = g.cnt[o] /\ k.cnt[o + 1] = g.cnt[o + 1]
        BY <1>1, <2>1, <3>1 DEF OneMore
      <3>3. g.type[o] = "WIND" => g.cnt[o + 1] = g.cnt[o]
        BY <2>1 DEF Numbered
      <3> QED
        BY <1>3, <3>2, <3>3
    <2>2. CASE o = g.n
      BY <1>0, <1>1, <1>3, <2>2 DEF OneMore
    <2> QED
      BY <1>0, <1>1, <1>3, <2>1, <2>2 DEF OneMore
  <1>4. k.cnt[k.n] >= g.cnt[g.n]
    BY <1>0, <1>1 DEF OneMore
  <1>5. ASSUME NEW a \in Nat, NEW o \in Nat, a <= o, o <= k.n PROVE k.cnt[a] <= k.cnt[o]
    <2>1. CASE o <= g.n
      <3>1. a <= g.n
        BY <1>0, <1>5, <2>1
      <3> QED
        BY <1>0, <1>1, <1>5, <2>1, <3>1 DEF Numbered, OneMore
    <2>2. CASE o = k.n
      <3>1. CASE a <= g.n
        <4>1. k.cnt[a] = g.cnt[a] /\ g.cnt[a] <= g.cnt[g.n] /\ g.cnt[a] \in Nat
          BY <1>0, <1>1, <3>1 DEF Numbered, OneMore
        <4>2. k.cnt[k.n] \in Nat
          BY <1>0, <1>1 DEF Streams, OneMore
        <4> QED
          BY <1>0, <1>4, <2>2, <4>1, <4>2
      <3>2. CASE a = k.n
        <4>1. k.cnt[k.n] \in Nat
          BY <1>0, <1>1 DEF Streams, OneMore
        <4> QED
          BY <2>2, <3>2, <4>1
      <3> QED
        BY <1>0, <1>1, <1>5, <2>2, <3>1, <3>2 DEF OneMore
    <2> QED
      BY <1>0, <1>1, <1>5, <2>1, <2>2 DEF OneMore
  <1>6. ASSUME NEW x \in Nat, 0 < x, x <= k.cnt[k.n]
        PROVE  \E o \in Nat : o < k.n /\ k.type[o] = "DATA" /\ k.val[o] = x
    <2>1. CASE x <= g.cnt[g.n]
      <3>1. PICK o \in Nat : o < g.n /\ g.type[o] = "DATA" /\ g.val[o] = x
        BY <1>6, <2>1 DEF Numbered
      <3>2. o < k.n /\ k.type[o] = "DATA" /\ k.val[o] = x
        BY <1>0, <1>1, <3>1 DEF OneMore
      <3> QED
        BY <3>2
    <2>2. CASE ~(x <= g.cnt[g.n])
      <3>1. t = "DATA" /\ x = g.cnt[g.n] + 1
        BY <1>0, <1>1, <1>6, <2>2 DEF OneMore
      <3>2. g.n < k.n /\ k.type[g.n] = "DATA" /\ k.val[g.n] = x
        BY <1>0, <1>1, <3>1 DEF OneMore
      <3> QED
        BY <1>0, <3>2
    <2> QED
      BY <2>1, <2>2
  <1>7. k.r <= k.n
    BY <1>0, <1>1 DEF Numbered, OneMore
  <1> QED
    BY <1>2, <1>3, <1>5, <1>6, <1>7 DEF Numbered, k

\* What is a copy stays one.
LEMMA LongerCopy ==
    ASSUME NEW g \in Streams, NEW t \in {"DATA", "WIND"}, NEW v \in Nat, NEW o \in Nat, NEW p,
           Copy(g, o, p)
    PROVE  Copy(Longer(g, t, v), o, p)
  <1> DEFINE k == Longer(g, t, v)
  <1>1. OneMore(g, t, v, k) /\ g.n \in Nat
    BY LongerIs DEF Streams
  <1> HIDE DEF k
  <1> QED
    BY <1>1 DEF Copy, OneMore, k

LEMMA LongerFlow ==
    ASSUME NEW g \in Streams, NEW t \in {"DATA", "WIND"}, NEW v \in Nat
    PROVE  /\ \A w : RecvFlow(g, w) => RecvFlow(Longer(g, t, v), w)
           /\ \A f, N : NetFlow(g, f, N) => NetFlow(Longer(g, t, v), f, N)
  <1>1. Longer(g, t, v).start = g.start /\ Longer(g, t, v).r = g.r
    BY LongerIs DEF OneMore
  <1>2. \A o \in Nat : \A p : Copy(g, o, p) => Copy(Longer(g, t, v), o, p)
    BY LongerCopy
  <1> QED
    BY <1>1, <1>2 DEF RecvFlow, NetFlow

\* cavan_udp_win_enqueue lengthens the stream.
LEMMA EnqueueFlow ==
    ASSUME NEW l \in Links, NEW t \in {"DATA", "WIND"}, NEW v \in Nat, l.send.length < WinSize,
           NEW g \in Streams, SendFlow(g, l.send), g.n + 1 < Mod
    PROVE  SendFlow(Longer(g, t, v), Enqueued(l, t, v).send)
  <1> DEFINE k == Longer(g, t, v)
             seq == Plus(l.send.index, l.send.length)
             p == [type |-> t, seq |-> seq, val |-> v, times |-> 0]
             packs == [l.send.packs EXCEPT ![Slot(seq)] = p]
  <1>1. /\ Enqueued(l, t, v).send.packs = packs /\ Enqueued(l, t, v).send.index = l.send.index
        /\ Enqueued(l, t, v).send.length = l.send.length + 1
    BY DEF Enqueued, Links, Windows
  <1>2. seq = Plus(g.start, g.n)
    BY DEF SendFlow
  <1>3. Copy(k, g.n, p) /\ g.n \in Nat
    <2>1. OneMore(g, t, v, k) /\ g.n \in Nat
      BY LongerIs DEF Streams
    <2> HIDE DEF k, seq
    <2> QED
      BY <1>2, <2>1 DEF Copy, OneMore
  <1>4. \A j \in Slots : packs[j] = p \/ packs[j] = l.send.packs[j]
    BY DEF Links, Windows
  <1>5. \A o \in Nat : \A q : Copy(g, o, q) => Copy(k, o, q)
    BY LongerCopy
  <1>6. Plus(l.send.index, l.send.length + 1) = Plus(k.start, k.n)
    <2>1. /\ l.send.index \in Seqs /\ l.send.length \in 0..WinSize /\ l.send.length \in Nat
          /\ 1 \in 0..WinSize
      BY WindowFits DEF Links, Windows
    <2>2. Plus(seq, 1) = Plus(l.send.index, l.send.length + 1)
      BY <2>1, PlusPlus
    <2>3. Plus(Plus(g.start, g.n), 1) = Plus(g.start, g.n + 1)
      <3>1. g.start \in Seqs /\ g.n \in Nat
        BY DEF Streams
      <3> QED
        BY <3>1, PlusSum
    <2>4. OneMore(g, t, v, k)
      BY LongerIs
    <2> HIDE DEF k, seq
    <2> QED
      BY <1>2, <2>2, <2>3, <2>4 DEF OneMore
  <1> HIDE DEF k, p, packs, seq
  <1>7. \A j \in Slots : packs[j] # NULL => \E o \in Nat : Copy(k, o, packs[j])
    BY <1>3, <1>4, <1>5 DEF SendFlow
  <1> QED
    BY <1>1, <1>6, <1>7 DEF SendFlow, k
\* cavan_udp_win_receive keeps a copy of a pack of the next WinSize ones, in its slot, and
\* counts what has no gap before it.
LEMMA ReceivedFlow ==
    ASSUME NEW w \in Windows, InSequence(w), NEW m \in Datagrams, m.type \in {"DATA", "WIND"},
           NEW g \in Streams, RecvFlow(g, w), g.r <= g.n, g.n < Mod - WinSize,
           NEW o \in Nat, Copy(g, o, m)
    PROVE  /\ RecvFlow(g, Received(w, m))
           /\ Received(w, m).length >= w.length
           /\ Received(w, m).full => w.full \/ Received(w, m).length = WinSize
  <1>1. CASE Invalid(w.index, m.seq) \/ w.packs[Slot(m.seq)] # NULL
    <2>1. Received(w, m) = w
      BY <1>1 DEF Received
    <2>2. w.length \in Nat
      BY DEF Windows
    <2> QED
      BY <2>1, <2>2
  <1>2. CASE ~(Invalid(w.index, m.seq) \/ w.packs[Slot(m.seq)] # NULL)
    <2> DEFINE p == [type |-> m.type, seq |-> m.seq, val |-> m.val, times |-> 0]
               packs == [w.packs EXCEPT ![Slot(m.seq)] = p]
               n == Max(Runs(w, packs))
               v == Received(w, m)
    <2>1. v = [w EXCEPT !.packs = packs, !.length = @ + n, !.ready = Plus(@, n),
                        !.full = @ \/ w.length + n = WinSize]
      BY <1>2, Zenon DEF Received
    <2>2. p \in Packs /\ p # NULL
      <3>1. p \in Packs
        BY DEF Packs, Datagrams
      <3> QED
        BY <3>1, NullNoPack
    <2>3. Copy(g, o, p) /\ p.seq = m.seq
      BY DEF Copy
    <2>4. m.seq \in Seqs /\ Slot(m.seq) \in Slots
      BY WindowFits DEF Datagrams, Seqs, Slot, Slots
    <2> HIDE DEF p
    <2>5. \A i \in Slots : packs[i] = IF i = Slot(m.seq) THEN p ELSE w.packs[i]
      BY DEF Windows
    <2> HIDE DEF packs
    <2>6. n \in Runs(w, packs)
      <3>1. WinSize - w.length \in Nat
        BY WindowFits DEF Windows
      <3>2. Runs(w, packs) \in SUBSET (0..(WinSize - w.length)) /\ 0 \in Runs(w, packs)
        BY <3>1 DEF Runs
      <3> QED
        BY <3>1, <3>2, MaxIsThere
    <2> HIDE DEF n
    <2>7. /\ n \in Nat /\ w.length \in Nat /\ w.length + n <= WinSize /\ w.length <= WinSize
          /\ WinSize \in Nat /\ w.index \in Seqs
          /\ \A j \in 0..(n - 1) : packs[Slot(Plus(w.ready, j))] # NULL
      <3>1. /\ n \in 0..(WinSize - w.length)
            /\ \A j \in 0..(n - 1) : packs[Slot(Plus(w.ready, j))] # NULL
        BY <2>6 DEF Runs
      <3>2. w.length \in 0..WinSize /\ WinSize \in Nat /\ w.index \in Seqs
        BY WindowFits DEF Windows
      <3> QED
        BY <3>1, <3>2
    <2>8. /\ v.packs = packs /\ v.length = w.length + n /\ v.index = w.index
          /\ v.full => w.full \/ w.length + n = WinSize
      <3> HIDE DEF v
      <3> QED
        BY <2>1 DEF Windows
    <2> HIDE DEF v
    <2>9. g.r <= o /\ o < g.r + WinSize
      <3>1. ~Invalid(Plus(g.start, g.r), Plus(g.start, o))
        BY <1>2 DEF RecvFlow, Copy
      <3>2. g.start \in Seqs /\ g.r \in Nat /\ g.n \in Nat
        BY DEF Streams
      <3>3. g.r < Mod - WinSize /\ o < Mod - WinSize
        BY <3>2, WindowFits DEF Copy
      <3> QED
        BY <3>1, <3>2, <3>3, ValidIsNear
    <2>10. ASSUME NEW i \in Slots, packs[i] # NULL
           PROVE  /\ Slot(packs[i].seq) = i
                  /\ \E c \in Nat : g.r <= c /\ c < g.r + WinSize /\ Copy(g, c, packs[i])
      <3>1. CASE i = Slot(m.seq)
        BY <2>3, <2>5, <2>9, <3>1
      <3>2. CASE i # Slot(m.seq)
        BY <2>5, <2>10, <3>2 DEF RecvFlow
      <3> QED
        BY <3>1, <3>2
    <2>11. ASSUME NEW k \in Nat, k < w.length + n PROVE packs[Slot(Plus(w.index, k))] # NULL
      <3>1. Slot(Plus(w.index, k)) \in Slots
        BY <2>7, SlotType
      <3>2. CASE k < w.length
        BY <2>2, <2>5, <3>1, <3>2 DEF RecvFlow
      <3>3. CASE ~(k < w.length)
        <4>1. PICK j \in Nat : k = w.length + j
          BY <2>7, <3>3, k - w.length \in Nat
        <4>2. j \in 0..(n - 1) /\ j \in 0..WinSize /\ w.length \in 0..WinSize
          BY <2>7, <2>11, <4>1
        <4>3. Plus(w.ready, j) = Plus(w.index, k)
          BY <2>7, <4>1, <4>2, PlusPlus DEF InSequence
        <4> QED
          BY <2>7, <4>2, <4>3
      <3> QED
        BY <3>2, <3>3
    <2>12. RecvFlow(g, v)
      <3>1. v.index = Plus(g.start, g.r)
        BY <2>8 DEF RecvFlow
      <3> QED
        BY <2>8, <2>10, <2>11, <3>1 DEF RecvFlow
    <2> QED
      BY <2>7, <2>8, <2>12 DEF v
  <1> QED
    BY <1>1, <1>2

\* cavan_udp_win_dequeue takes the next pack of the stream.
Further(g) == [start |-> g.start, n |-> g.n, r |-> g.r + 1, type |-> g.type, val |-> g.val, cnt |-> g.cnt]

LEMMA PoppedFlow ==
    ASSUME NEW w \in Windows, InSequence(w), w.index # w.ready,
           NEW g \in Streams, RecvFlow(g, w), g.r <= g.n, g.n < Mod - WinSize
    PROVE  /\ Copy(g, g.r, w.packs[Slot(w.index)])
           /\ RecvFlow(Further(g), Popped(w))
           /\ w.length > 0 /\ Popped(w).length = w.length - 1 /\ Popped(w).full = w.full
  <1> DEFINE p == w.packs[Slot(w.index)]
             packs == [w.packs EXCEPT ![Slot(w.index)] = NULL]
             v == Popped(w)
             k == Further(g)
  <1>1. /\ w.index \in Seqs /\ w.length \in 0..WinSize /\ w.length \in Nat
        /\ WinSize \in Nat /\ WinSize > 1 /\ Mod \in Nat
        /\ g.start \in Seqs /\ g.r \in Nat /\ g.n \in Nat
    BY WindowFits DEF Windows, Streams
  <1>2. Plus(w.index, 0) = w.index /\ Slot(w.index) \in Slots
    BY <1>1, SlotType
  <1>3. w.length > 0
    BY <1>1, <1>2 DEF InSequence
  <1>4. p # NULL
    BY <1>2, <1>3 DEF RecvFlow
  <1>5. PICK o \in Nat : g.r <= o /\ o < g.r + WinSize /\ Copy(g, o, p)
    BY <1>2, <1>4 DEF RecvFlow
  <1>6. o = g.r
    <2>1. Slot(Plus(g.start, g.r)) = Slot(Plus(g.start, o))
      <3>1. Slot(p.seq) = Slot(w.index)
        BY <1>2, <1>4 DEF RecvFlow
      <3> HIDE DEF p
      <3> QED
        BY <1>5, <3>1 DEF Copy, RecvFlow
    <2>2. g.r < Mod /\ o < Mod
      BY <1>1, <1>5 DEF Copy
    <2> QED
      BY <1>1, <1>5, <2>1, <2>2, SlotsApart
  <1>7. v.packs = packs /\ v.length = w.length - 1 /\ v.index = Plus(w.index, 1) /\ v.full = w.full
    BY DEF Popped, Windows
  <1>8. \A i \in Slots : packs[i] = IF i = Slot(w.index) THEN NULL ELSE w.packs[i]
    BY DEF Windows
  <1>9. /\ k.start = g.start /\ k.r = g.r + 1 /\ k.n = g.n /\ k.type = g.type /\ k.val = g.val
    BY DEF Further
  <1> HIDE DEF p, packs, v, k
  <1>10. v.index = Plus(k.start, k.r)
    <2>1. g.r + 1 < Mod
      BY <1>1
    <2>2. Plus(Plus(g.start, g.r), 1) = Plus(g.start, g.r + 1)
      BY <1>1, <2>1, PlusSum
    <2> QED
      BY <1>7, <1>9, <2>2 DEF RecvFlow
  <1>11. ASSUME NEW i \in Slots, packs[i] # NULL
         PROVE  /\ Slot(packs[i].seq) = i
                /\ \E c \in Nat : k.r <= c /\ c < k.r + WinSize /\ Copy(k, c, packs[i])
    <2>1. i # Slot(w.index) /\ packs[i] = w.packs[i]
      BY <1>8, <1>11
    <2>2. Slot(packs[i].seq) = i
      BY <1>11, <2>1 DEF RecvFlow
    <2>3. PICK c \in Nat : g.r <= c /\ c < g.r + WinSize /\ Copy(g, c, packs[i])
      BY <1>11, <2>1 DEF RecvFlow
    <2>4. c # g.r
      BY <2>1, <2>2, <2>3 DEF Copy, RecvFlow
    <2>5. k.r <= c /\ c < k.r + WinSize
      BY <1>1, <1>9, <2>3, <2>4
    <2>6. Copy(k, c, packs[i])
      BY <1>9, <2>3 DEF Copy
    <2> QED
      BY <2>2, <2>5, <2>6
  <1>12. ASSUME NEW j \in Nat, j < v.length PROVE packs[Slot(Plus(v.index, j))] # NULL
    <2>1. j + 1 < w.length /\ j + 1 \in Nat /\ j \in 0..WinSize /\ 1 \in 0..WinSize
      BY <1>1, <1>7, <1>12
    <2>2. Plus(v.index, j) = Plus(w.index, j + 1)
      <3>1. Plus(Plus(w.index, 1), j) = Plus(w.index, 1 + j)
        BY <1>1, <2>1, PlusPlus
      <3> QED
        BY <1>7, <3>1
    <2>3. w.packs[Slot(Plus(w.index, j + 1))] # NULL
      BY <2>1 DEF RecvFlow
    <2>4. Slot(Plus(w.index, j + 1)) \in Slots
      BY <1>1, <2>1, SlotType
    <2>5. Slot(Plus(w.index, j + 1)) # Slot(w.index)
      <3> SUFFICES ASSUME Slot(Plus(w.index, j + 1)) = Slot(w.index) PROVE FALSE
        OBVIOUS
      <3>1. PICK b \in Nat : b = j + 1
        BY <2>1
      <3>2. b < Mod /\ 0 < Mod /\ 0 <= b /\ b < 0 + WinSize /\ 0 \in Nat
        BY <1>1, <2>1, <3>1, WindowFits
      <3>3. Slot(Plus(w.index, 0)) = Slot(Plus(w.index, b))
        BY <1>2, <3>1
      <3>4. 0 = b
        BY <1>1, <3>2, <3>3, SlotsApart
      <3> QED
        BY <3>1, <3>4
    <2> QED
      BY <1>8, <2>2, <2>3, <2>4, <2>5
  <1>13. RecvFlow(k, v)
    BY <1>7, <1>10, <1>11, <1>12 DEF RecvFlow
  <1> QED
    BY <1>3, <1>5, <1>6, <1>7, <1>13 DEF p, v, k
-----------------------------------------------------------------------------
(* Numbers less than half a turn apart.                                     *)

\* A number that is less than a turn on has wrapped once or not at all.
LEMMA PlusAt ==
    ASSUME NEW s \in Seqs, NEW a \in Nat, a < Mod
    PROVE  /\ Plus(s, a) \in Nat /\ Plus(s, a) < Mod /\ s \in Nat /\ s < Mod
           /\ (Plus(s, a) = s + a /\ s + a < Mod) \/ (Plus(s, a) = s + a - Mod /\ s + a >= Mod)
  <1>1. s \in Nat /\ s < Mod /\ Mod \in Nat
    BY WindowFits DEF Seqs
  <1>2. PICK z \in 0..(2 * Mod - 1) : z = s + a
    BY <1>1
  <1>3. z % Mod = Plus(s, a)
    BY <1>2 DEF Plus
  <1>4. Plus(s, a) \in Seqs
    BY <1>1, PlusType
  <1>5. Plus(s, a) \in Nat /\ Plus(s, a) < Mod
    BY <1>1, <1>4 DEF Seqs
  <1> QED
    BY <1>1, <1>2, <1>3, <1>5, OneTurn

\* Less than a turn apart is apart.
LEMMA PlusOnce ==
    ASSUME NEW s \in Seqs, NEW a \in Nat, NEW b \in Nat, a < Mod, b < Mod, Plus(s, a) = Plus(s, b)
    PROVE  a = b
  <1>1. Mod \in Nat
    BY WindowFits
  <1> QED
    BY <1>1, PlusAt

\* How far one number is from an earlier one, and from a later one.
LEMMA Apart ==
    ASSUME NEW s \in Seqs, NEW a \in Nat, NEW b \in Nat, a <= b, b < Mod
    PROVE  /\ (Plus(s, b) - Plus(s, a)) % Mod = b - a
           /\ a < b => (Plus(s, a) - Plus(s, b)) % Mod = Mod - (b - a)
  <1>1. Mod \in Nat /\ Mod > 0 /\ a < Mod
    BY WindowFits
  <1>2. PICK x \in Nat, y \in Nat : x = Plus(s, a) /\ y = Plus(s, b)
    BY <1>1, PlusAt
  <1>3. PICK z \in Int : z = y - x /\ (z = b - a \/ z = b - a - Mod)
    BY <1>1, <1>2, PlusAt
  <1>4. z % Mod = b - a
    BY <1>1, <1>3
  <1>5. ASSUME a < b PROVE (x - y) % Mod = Mod - (b - a)
    <2>1. PICK u \in Int : u = x - y /\ (u = a - b \/ u = Mod - (b - a))
      BY <1>1, <1>2, <1>3
    <2>2. u % Mod = Mod - (b - a)
      BY <1>1, <1>5, <2>1
    <2> QED
      BY <2>1, <2>2
  <1> QED
    BY <1>2, <1>3, <1>4, <1>5

\* cavan_udp_win_invalid refuses no number of the window.
LEMMA NearIsValid ==
    ASSUME NEW s \in Seqs, NEW r \in Nat, NEW o \in Nat, r + WinSize < Mod, r <= o, o < r + WinSize
    PROVE  ~Invalid(Plus(s, r), Plus(s, o))
  <1>1. /\ s \in Nat /\ s < Mod /\ Mod \in Nat /\ WinSize \in Nat /\ WinSize > 1
        /\ 4 * WinSize <= Mod /\ r < Mod /\ o < Mod
    BY WindowFits DEF Seqs
  <1>2. PICK x \in Nat, y \in Nat : x = Plus(s, r) /\ y = Plus(s, o) /\ x < Mod /\ y < Mod
    BY <1>1, PlusAt
  <1>3. (x = s + r /\ s + r < Mod) \/ (x = s + r - Mod /\ s + r >= Mod)
    BY <1>1, <1>2, PlusAt
  <1>4. (y = s + o /\ s + o < Mod) \/ (y = s + o - Mod /\ s + o >= Mod)
    BY <1>1, <1>2, PlusAt
  <1>5. PICK last \in Nat : /\ last = Plus(x, WinSize - 1)
                            /\ \/ last = x + (WinSize - 1) /\ x + (WinSize - 1) < Mod
                               \/ last = x + (WinSize - 1) - Mod /\ x + (WinSize - 1) >= Mod
    <2>1. x \in Seqs /\ WinSize - 1 \in Nat /\ WinSize - 1 < Mod
      BY <1>1, <1>2 DEF Seqs
    <2> QED
      BY <2>1, PlusAt
  <1>6. ~(IF x < last THEN y < x \/ y > last ELSE y < x /\ y > last)
    BY <1>1, <1>2, <1>3, <1>4, <1>5
  <1> QED
    BY <1>2, <1>5, <1>6 DEF Invalid

\* Where cavan_udp_win_flush stops, however the numbers wrap: at the end of the window or
\* of the congestion window, or at the limit; or it returns at once.
LEMMA FlushLands ==
    ASSUME NEW l \in Links, NEW g, Short(g), NEW R \in Nat, NEW M \in Nat, Placed(g, R, M, l),
           Plus(l.send.index, l.send.length) = Plus(g.start, g.n),
           l.send.index = Plus(g.start, First(g, l.send))
    PROVE  \E F \in Nat :
              /\ FlushTo(l) = Plus(g.start, F)
              /\ R <= F /\ F <= M /\ F <= g.n /\ F <= First(g, l.send) + l.cwnd
              /\ \/ F = M \/ F = g.n \/ F = First(g, l.send) + l.cwnd
                 \/ F = R /\ Stuck(g, R, M)
              /\ Stuck(g, R, M) => F = R
  <1> DEFINE s == g.start
             I == First(g, l.send)
             c == IF l.send.length > l.cwnd THEN l.cwnd ELSE l.send.length
             E == I + c
  <1>1. /\ s \in Seqs /\ Mod \in Nat /\ WinSize \in Nat /\ WinSize > 1
        /\ g.n \in Nat /\ g.r \in Nat /\ g.r <= g.n /\ 2 * (g.n + WinSize) + 1 < Mod
        /\ R <= M /\ R <= g.n /\ M <= g.r + WinSize
    BY WindowFits DEF Short, Placed
  <1>2. /\ l.send.length \in 0..WinSize /\ l.cwnd \in Nat /\ l.send.length <= g.n
        /\ l.send.ready = Plus(s, R) /\ l.sequence = Plus(s, M) /\ R <= I + l.cwnd
    <2>1. l.send.length \in 0..WinSize /\ l.cwnd \in 1..MaxCwnd
      BY DEF Links, Windows
    <2> QED
      BY <2>1, UdpAssumption DEF Placed
  <1>3. I \in Nat /\ I + l.send.length = g.n /\ c \in Nat /\ c \in 0..WinSize
    BY <1>1, <1>2 DEF First
  <1>4. /\ E \in Nat /\ R <= E /\ E <= g.n /\ E <= I + l.cwnd
        /\ E = g.n \/ E = I + l.cwnd
        /\ ~(l.send.length > l.cwnd) => E = g.n
    BY <1>1, <1>2, <1>3
  <1>5. PICK end \in Nat : end = Plus(l.send.index, c) /\ end = Plus(s, E)
    <2>1. I + c < Mod
      BY <1>1, <1>3, <1>4
    <2>2. Plus(Plus(s, I), c) = Plus(s, I + c)
      BY <1>1, <1>3, <2>1, PlusSum
    <2>3. Plus(s, E) \in Nat
      BY <1>1, <1>4, <2>1, PlusAt
    <2> QED
      BY <2>2, <2>3
  <1>6. PICK rd \in Nat, seq \in Nat : rd = Plus(s, R) /\ seq = Plus(s, M)
    <2>1. R < Mod /\ M < Mod
      BY <1>1
    <2> QED
      BY <1>1, <2>1, PlusAt
  <1>7. FlushTo(l) =
          LET rests == \/ (l.send.length > l.cwnd) /\ rd >= end /\ rd - end < WinSize
                       \/ seq < rd /\ (seq > WinSize \/ rd - seq < WinSize)
              ends == \/ seq < rd /\ (seq > end \/ rd <= end)
                      \/ seq > end /\ rd <= end
          IN  IF rests THEN rd ELSE IF ends THEN end ELSE seq
    <2>1. c = IF l.send.length > l.cwnd THEN l.cwnd ELSE l.send.length
      OBVIOUS
    <2> HIDE DEF c, s, E, I
    <2> QED
      BY <1>2, <1>5, <1>6, <2>1 DEF FlushTo
  <1> HIDE DEF I, c, E, s
  <1>8. /\ (rd = s + R /\ s + R < Mod) \/ (rd = s + R - Mod /\ s + R >= Mod)
        /\ (seq = s + M /\ s + M < Mod) \/ (seq = s + M - Mod /\ s + M >= Mod)
        /\ (end = s + E /\ s + E < Mod) \/ (end = s + E - Mod /\ s + E >= Mod)
        /\ s \in Nat /\ s < Mod /\ rd < Mod /\ seq < Mod /\ end < Mod
    <2>1. R < Mod /\ M < Mod /\ E < Mod
      BY <1>1, <1>4
    <2> QED
      BY <1>1, <1>4, <1>5, <1>6, <2>1, PlusAt
  <1>9. Stuck(g, R, M) <=> (seq < rd /\ seq > WinSize)
    BY <1>6 DEF Stuck, s
  <1>10. /\ ~(seq < rd /\ rd - seq < WinSize)
         /\ (rd >= end /\ rd - end < WinSize) => R = E
    BY <1>1, <1>4, <1>5, <1>6, <1>8
  <1>11. /\ (seq < rd /\ (seq > end \/ rd <= end)) => E <= M
         /\ (seq > end /\ rd <= end) => E <= M
         /\ ~(seq < rd /\ (seq > end \/ rd <= end)) /\ ~(seq > end /\ rd <= end) => M <= E
    BY <1>1, <1>4, <1>5, <1>6, <1>8
  <1>12. CASE Stuck(g, R, M)
    <2>1. FlushTo(l) = Plus(s, R)
      BY <1>6, <1>7, <1>9, <1>12
    <2> QED
      BY <1>1, <1>2, <1>12, <2>1 DEF s, I
  <1>13. CASE ~Stuck(g, R, M) /\ (FlushTo(l) = rd)
    <2>1. CASE R = E
      BY <1>1, <1>2, <1>4, <1>6, <1>13, <2>1 DEF s, I
    <2>2. CASE R # E
      <3>1. ~(\/ (l.send.length > l.cwnd) /\ rd >= end /\ rd - end < WinSize
              \/ seq < rd /\ (seq > WinSize \/ rd - seq < WinSize))
        BY <1>9, <1>10, <1>13, <2>2
      <3>2. (rd = end /\ E <= M) \/ (rd = seq /\ M <= E)
        BY <1>7, <1>11, <1>13, <3>1
      <3>3. R = M
        <4>1. R < Mod /\ M < Mod /\ E < Mod
          BY <1>1, <1>4
        <4>2. rd # end
          BY <1>1, <1>4, <1>5, <1>6, <2>2, <4>1, PlusOnce
        <4>3. rd = seq
          BY <3>2, <4>2
        <4> QED
          BY <1>1, <1>6, <4>1, <4>3, PlusOnce
      <3> QED
        BY <1>1, <1>2, <1>6, <1>13, <3>3 DEF s, I
    <2> QED
      BY <2>1, <2>2
  <1>14. CASE ~Stuck(g, R, M) /\ (FlushTo(l) # rd)
    <2>1. (FlushTo(l) = end /\ E <= M) \/ (FlushTo(l) = seq /\ M <= E)
      BY <1>7, <1>11, <1>14
    <2>2. CASE FlushTo(l) = end /\ E <= M
      BY <1>4, <1>5, <1>14, <2>2 DEF s, I
    <2>3. CASE FlushTo(l) = seq /\ M <= E
      BY <1>1, <1>2, <1>3, <1>4, <1>6, <1>14, <2>3 DEF s, I
    <2> QED
      BY <2>1, <2>2, <2>3
  <1> QED
    BY <1>12, <1>13, <1>14

\* The send window starts after the packs that have left it.
LEMMA IndexAt ==
    ASSUME NEW s \in Windows, NEW g, Short(g), SendFlow(g, s), s.length <= g.n
    PROVE  /\ s.index = Plus(g.start, First(g, s))
           /\ First(g, s) \in Nat /\ First(g, s) + s.length = g.n /\ s.length \in Nat
           /\ First(g, s) <= g.n /\ g.n <= First(g, s) + WinSize
  <1>1. /\ g.start \in Seqs /\ g.n \in Nat /\ s.index \in Seqs /\ s.length \in Nat
        /\ s.length <= WinSize /\ Mod \in Nat /\ WinSize \in Nat /\ 2 * (g.n + WinSize) + 1 < Mod
    BY WindowFits DEF Short, Windows
  <1>2. PICK f \in Nat : f = g.n - s.length
    BY <1>1
  <1>3. f < Mod /\ s.length < Mod /\ g.n < Mod
    BY <1>1, <1>2
  <1>4. Plus(s.index, s.length) = Plus(g.start, g.n)
    BY DEF SendFlow
  <1>5. s.index = Plus(g.start, f)
    <2>1. PICK x \in Nat, y \in Nat, a \in Nat :
             x = Plus(s.index, s.length) /\ y = Plus(g.start, f) /\ a = s.index
      BY <1>1, <1>3, PlusAt DEF Seqs
    <2>2. /\ (x = a + s.length /\ a + s.length < Mod) \/ (x = a + s.length - Mod /\ a + s.length >= Mod)
          /\ a < Mod
      BY <1>1, <1>3, <2>1, PlusAt
    <2>3. (x = g.start + g.n /\ g.start + g.n < Mod) \/ (x = g.start + g.n - Mod /\ g.start + g.n >= Mod)
      BY <1>1, <1>3, <1>4, <2>1, PlusAt
    <2>4. /\ (y = g.start + f /\ g.start + f < Mod) \/ (y = g.start + f - Mod /\ g.start + f >= Mod)
          /\ y < Mod /\ g.start \in Nat /\ g.start < Mod
      BY <1>1, <1>3, <2>1, PlusAt
    <2>5. a = y
      BY <1>1, <1>2, <2>2, <2>3, <2>4
    <2> QED
      BY <2>1, <2>5
  <1> QED
    BY <1>1, <1>2, <1>5 DEF First

\* What has arrived lies below the limit.
LEMMA ArrivedBelow ==
    ASSUME NEW g, Short(g), NEW w, RecvFlow(g, w), NEW M \in Nat, RecvBelow(g, M, w),
           NEW o \in Nat, Arrived(g, w, o)
    PROVE  o < M
  <1>1. /\ g.start \in Seqs /\ g.n \in Nat /\ g.r \in Nat /\ g.r <= g.n /\ g.r <= M
        /\ Mod \in Nat /\ WinSize \in Nat /\ 2 * (g.n + WinSize) + 1 < Mod
    BY WindowFits DEF Short, RecvBelow
  <1>2. CASE o < g.r
    BY <1>1, <1>2
  <1>3. CASE ~(o < g.r)
    <2> DEFINE i == Slot(Plus(g.start, o))
    <2>1. o < g.r + WinSize /\ w.packs[i] # NULL /\ g.r <= o
      BY <1>1, <1>3 DEF Arrived
    <2>2. i \in Slots
      BY <1>1, SlotType
    <2>3. PICK c \in Nat : g.r <= c /\ c < g.r + WinSize /\ Copy(g, c, w.packs[i])
      BY <2>1, <2>2 DEF RecvFlow
    <2>4. PICK d \in Nat : d < M /\ Copy(g, d, w.packs[i])
      BY <2>1, <2>2 DEF RecvBelow, Below
    <2>5. Slot(w.packs[i].seq) = i
      BY <2>1, <2>2 DEF RecvFlow
    <2>6. c < Mod /\ d < Mod /\ o < Mod /\ Plus(g.start, c) = Plus(g.start, d)
      BY <1>1, <2>1, <2>3, <2>4 DEF Copy
    <2>7. Slot(Plus(g.start, c)) = Slot(Plus(g.start, o))
      BY <2>3, <2>5 DEF Copy
    <2> HIDE DEF i
    <2>8. c = o
      <3>1. CASE c <= o
        BY <1>1, <2>1, <2>3, <2>6, <2>7, <3>1, SlotsApart
      <3>2. CASE o <= c
        BY <1>1, <2>1, <2>3, <2>6, <2>7, <3>2, SlotsApart
      <3> QED
        BY <1>1, <3>1, <3>2
    <2>9. c = d
      BY <1>1, <2>6, PlusOnce
    <2> QED
      BY <2>4, <2>8, <2>9
  <1> QED
    BY <1>2, <1>3

\* The window never starts past the limit.
LEMMA FirstBelow ==
    ASSUME NEW g, Short(g), NEW s \in Windows, SendFlow(g, s), s.length <= g.n,
           NEW w, RecvFlow(g, w), NEW M \in Nat, RecvBelow(g, M, w), SendHolds(g, s, w)
    PROVE  First(g, s) <= M
  <1>1. First(g, s) \in Nat
    BY IndexAt
  <1>2. CASE First(g, s) = 0
    BY <1>2
  <1>3. CASE First(g, s) # 0
    <2>1. PICK o \in Nat : First(g, s) = o + 1
      BY <1>1, <1>3, First(g, s) - 1 \in Nat
    <2>2. Arrived(g, w, o)
      BY <2>1 DEF SendHolds
    <2>3. o < M
      BY <2>2, ArrivedBelow
    <2> QED
      BY <2>1, <2>3
  <1> QED
    BY <1>2, <1>3

\* cavan_udp_link_set_sequence, unless it sets the limit back.
LEMMA LimitMoves ==
    ASSUME NEW g, Short(g), NEW M \in Nat, NEW x \in Nat, M <= g.r + WinSize, x <= g.r + WinSize,
           NEW seq, seq = SetSequence(Plus(g.start, M), Plus(g.start, x)),
           ~((seq - Plus(g.start, M)) % Mod > Mod \div 2)
    PROVE  \E K \in Nat : M <= K /\ K <= g.r + WinSize /\ seq = Plus(g.start, K)
  <1>1. /\ g.start \in Seqs /\ g.n \in Nat /\ g.r \in Nat /\ g.r <= g.n
        /\ Mod \in Nat /\ WinSize \in Nat /\ 2 * (g.n + WinSize) + 1 < Mod
    BY WindowFits DEF Short
  <1>2. seq = Plus(g.start, M) \/ seq = Plus(g.start, x)
    BY DEF SetSequence
  <1>3. CASE seq = Plus(g.start, M)
    BY <1>1, <1>3
  <1>4. CASE seq = Plus(g.start, x)
    <2>1. ~(x < M)
      <3> SUFFICES ASSUME x < M PROVE FALSE
        OBVIOUS
      <3>1. x <= M /\ M < Mod
        BY <1>1
      <3>2. (Plus(g.start, x) - Plus(g.start, M)) % Mod = Mod - (M - x)
        BY <1>1, <3>1, Apart
      <3>3. Mod \div 2 \in Nat /\ 2 * (Mod \div 2) <= Mod
        BY <1>1
      <3>4. Mod - (M - x) > Mod \div 2
        BY <1>1, <3>3
      <3> QED
        BY <1>4, <3>2, <3>4
    <2> QED
      BY <1>4, <2>1
  <1> QED
    BY <1>2, <1>3, <1>4

\* The numbers stay apart as the limit grows.
LEMMA StuckGrows ==
    ASSUME NEW g, Short(g), NEW R \in Nat, NEW M \in Nat, NEW K \in Nat, R <= M, M <= K,
           K <= g.r + WinSize, Stuck(g, R, M)
    PROVE  Stuck(g, R, K)
  <1>1. /\ g.start \in Seqs /\ g.n \in Nat /\ g.r \in Nat /\ g.r <= g.n
        /\ Mod \in Nat /\ WinSize \in Nat /\ 2 * (g.n + WinSize) + 1 < Mod
    BY WindowFits DEF Short
  <1>2. R < Mod /\ M < Mod /\ K < Mod
    BY <1>1
  <1>3. PICK a \in Nat, x \in Nat, y \in Nat, z \in Nat :
           a = g.start /\ x = Plus(a, R) /\ y = Plus(a, M) /\ z = Plus(a, K)
    BY <1>1, <1>2, PlusAt DEF Seqs
  <1>4. /\ (x = a + R /\ a + R < Mod) \/ (x = a + R - Mod /\ a + R >= Mod)
        /\ (y = a + M /\ a + M < Mod) \/ (y = a + M - Mod /\ a + M >= Mod)
        /\ (z = a + K /\ a + K < Mod) \/ (z = a + K - Mod /\ a + K >= Mod)
        /\ a < Mod
    BY <1>1, <1>2, <1>3, PlusAt
  <1>5. y < x /\ y > WinSize
    BY <1>3 DEF Stuck
  <1>6. z < x /\ z > WinSize
    BY <1>1, <1>2, <1>4, <1>5
  <1> QED
    BY <1>3, <1>6 DEF Stuck

-----------------------------------------------------------------------------
(* Keeping within the receiver's window.                                    *)

\* Datagrams that tell the Sender nothing about its own packs.
Aside(m) ==
    \/ m.type = "ERROR"
    \/ m.to = Sender /\ m.type \in {"DATA", "WIND"}
    \/ m.to = Receiver /\ m.type = "ACK"

LEMMA NearNet ==
    ASSUME NEW g, NEW M, NEW w, NEW N, NetBelow(g, M, N), AcksTrue(g, w, N),
           NEW E, NetBelow(g, M, E), AcksTrue(g, w, E),
           NEW D, \A m \in D : m \in N \/ m \in E \/ Aside(m)
    PROVE  NetBelow(g, M, D) /\ AcksTrue(g, w, D)
  <1>1. Sender # Receiver
    BY UdpAssumption
  <1> QED
    BY <1>1 DEF NetBelow, AcksTrue, Aside

\* A send window with the same packs in the same slots.
SamePacks(s, v) ==
    /\ v.length = s.length
    /\ \A i \in Slots : v.packs[i] = NULL <=> s.packs[i] = NULL
    /\ \A i \in Slots : s.packs[i] # NULL =>
          /\ v.packs[i].type = s.packs[i].type /\ v.packs[i].seq = s.packs[i].seq
          /\ v.packs[i].val = s.packs[i].val

LEMMA SameHolds ==
    ASSUME NEW g, g.start \in Seqs, NEW s, NEW v, SamePacks(s, v), NEW w, SendHolds(g, s, w)
    PROVE  SendHolds(g, v, w)
  <1>1. First(g, v) = First(g, s)
    BY DEF SamePacks, First
  <1>2. \A o \in Nat : Slot(Plus(g.start, o)) \in Slots
    BY SlotType
  <1>3. ASSUME NEW o \in Nat, First(g, s) <= o, o < g.n, v.packs[Slot(Plus(g.start, o))] = NULL
        PROVE  Arrived(g, w, o)
    BY <1>2, <1>3 DEF SamePacks, SendHolds
  <1>4. ASSUME NEW i \in Slots, v.packs[i] # NULL
        PROVE  \E o \in Nat : First(g, s) <= o /\ Slot(Plus(g.start, o)) = i /\ Copy(g, o, v.packs[i])
    <2>1. s.packs[i] # NULL
      BY <1>4 DEF SamePacks
    <2>2. PICK o \in Nat : First(g, s) <= o /\ Slot(Plus(g.start, o)) = i /\ Copy(g, o, s.packs[i])
      BY <2>1 DEF SendHolds
    <2>3. Copy(g, o, v.packs[i])
      BY <2>1, <2>2 DEF Copy, SamePacks
    <2> QED
      BY <2>2, <2>3
  <1>5. \A o \in Nat : o < First(g, s) => Arrived(g, w, o)
    BY DEF SendHolds
  <1> QED
    BY <1>1, <1>3, <1>4, <1>5 DEF SendHolds

\* The pack in the slot of a number within the window, or within a window from ready, is
\* the one with that number.
LEMMA HeldAt ==
    ASSUME NEW g, Short(g), NEW s, NEW w, SendHolds(g, s, w), First(g, s) \in Nat,
           NEW a \in Nat, a <= First(g, s), g.n <= a + WinSize, NEW x \in Nat, a <= x, x < g.n,
           s.packs[Slot(Plus(g.start, x))] # NULL
    PROVE  First(g, s) <= x /\ Copy(g, x, s.packs[Slot(Plus(g.start, x))])
  <1> DEFINE i == Slot(Plus(g.start, x))
  <1>1. /\ g.start \in Seqs /\ g.n \in Nat /\ Mod \in Nat /\ WinSize \in Nat
        /\ 2 * (g.n + WinSize) + 1 < Mod
    BY WindowFits DEF Short
  <1>2. i \in Slots
    BY <1>1, SlotType
  <1>3. PICK o \in Nat : First(g, s) <= o /\ Slot(Plus(g.start, o)) = i /\ Copy(g, o, s.packs[i])
    BY <1>2 DEF SendHolds
  <1>4. o < g.n
    BY <1>3 DEF Copy
  <1> HIDE DEF i
  <1>5. Slot(Plus(g.start, o)) = Slot(Plus(g.start, x))
    BY <1>3 DEF i
  <1>6. o < Mod /\ x < Mod /\ o < x + WinSize /\ x < o + WinSize
    BY <1>1, <1>3, <1>4
  <1>7. o = x
    <2>1. CASE o <= x
      BY <1>1, <1>5, <1>6, <2>1, SlotsApart
    <2>2. CASE x <= o
      BY <1>1, <1>5, <1>6, <2>2, SlotsApart
    <2> QED
      BY <2>1, <2>2
  <1> QED
    BY <1>3, <1>7 DEF i

\* What a flush relies on: ready has not fallen more than a window behind the end.
Close(g, R, M, s) == R < First(g, s) => g.n <= R + WinSize \/ Stuck(g, R, M)

\* cavan_udp_win_flush sends nothing past the limit.
LEMMA FlushBelow ==
    ASSUME NEW l \in Links, NEW g, Short(g), SendFlow(g, l.send), NEW w, SendHolds(g, l.send, w),
           NEW R \in Nat, NEW M \in Nat, Placed(g, R, M, l), Close(g, R, M, l.send),
           NEW F \in Nat, FlushTo(l) = Plus(g.start, F), R <= F, F <= M, F <= g.n,
           Stuck(g, R, M) => F = R
    PROVE  NetBelow(g, M, FlushDatagrams(Sender, l)) /\ AcksTrue(g, w, FlushDatagrams(Sender, l))
  <1>1. /\ g.start \in Seqs /\ g.n \in Nat /\ Mod \in Nat /\ WinSize \in Nat
        /\ 2 * (g.n + WinSize) + 1 < Mod
    BY WindowFits DEF Short
  <1>2. l.send \in Windows /\ l.send.length <= g.n /\ l.send.ready = Plus(g.start, R)
    BY DEF Links, Placed
  <1>3. First(g, l.send) \in Nat /\ g.n <= First(g, l.send) + WinSize /\ First(g, l.send) <= g.n
    BY <1>2, IndexAt
  <1>4. (FlushTo(l) - l.send.ready) % Mod = F - R
    <2>1. F < Mod
      BY <1>1
    <2> QED
      BY <1>1, <1>2, <2>1, Apart
  <1>5. ASSUME NEW i \in Flushed(l) PROVE Below(g, M, Datagram(Sender, l.send.packs[i]))
    <2>1. i \in Slots /\ l.send.packs[i] # NULL /\ \E s \in FlushRange(l) : Slot(s) = i
      BY <1>5 DEF Flushed
    <2>2. PICK k \in 0..((F - R) - 1) : Slot(Plus(l.send.ready, k)) = i
      BY <1>4, <2>1 DEF FlushRange
    <2>3. k \in Nat /\ k < F - R
      BY <2>2
    <2>4. PICK x \in Nat : x = R + k
      BY <2>3
    <2>5. R <= x /\ x < F /\ x < g.n /\ x < Mod /\ ~Stuck(g, R, M)
      BY <1>1, <2>3, <2>4
    <2>6. Plus(l.send.ready, k) = Plus(g.start, x)
      BY <1>1, <1>2, <2>3, <2>4, <2>5, PlusSum
    <2>7. PICK a \in Nat : a <= First(g, l.send) /\ g.n <= a + WinSize /\ a <= x
      <3>1. CASE R < First(g, l.send)
        BY <1>3, <2>5, <3>1 DEF Close
      <3>2. CASE ~(R < First(g, l.send))
        BY <1>3, <2>5, <3>2
      <3> QED
        BY <3>1, <3>2
    <2>8. Copy(g, x, l.send.packs[i])
      <3>1. Slot(Plus(g.start, x)) = i
        BY <2>2, <2>6
      <3>2. l.send.packs[Slot(Plus(g.start, x))] # NULL
        BY <2>1, <3>1
      <3>3. Copy(g, x, l.send.packs[Slot(Plus(g.start, x))])
        BY <1>3, <2>5, <2>7, <3>2, HeldAt
      <3> QED
        BY <3>1, <3>3
    <2>9. Copy(g, x, Datagram(Sender, l.send.packs[i]))
      BY <2>8 DEF Copy, Datagram
    <2> QED
      BY <2>5, <2>9 DEF Below
  <1>6. \A m \in FlushDatagrams(Sender, l) : m.to = Receiver
    BY DEF FlushDatagrams, Datagram, Peer
  <1>7. Sender # Receiver
    BY UdpAssumption
  <1> QED
    BY <1>5, <1>6, <1>7 DEF NetBelow, AcksTrue, FlushDatagrams

\* After it, ready stands at the end, at the limit or past the first pack.
LEMMA FlushNear ==
    ASSUME NEW l \in Links, NEW g, Short(g), SendFlow(g, l.send), NEW b, NEW w, RecvFlow(g, w),
           NEW R \in Nat, NEW M \in Nat, Placed(g, R, M, l), Close(g, R, M, l.send),
           SendHolds(g, l.send, w), RecvBelow(g, M, w), WindsTrue(g, b),
           NEW N, NetBelow(g, M, N), AcksTrue(g, w, N),
           NEW D, \A m \in D : m \in N \/ m \in FlushDatagrams(Sender, l) \/ Aside(m)
    PROVE  Near(g, b, AfterFlush(l), w, D)
  <1> DEFINE I == First(g, l.send)
             v == AfterFlush(l)
  <1>1. /\ g.start \in Seqs /\ g.n \in Nat /\ Mod \in Nat /\ WinSize \in Nat /\ WinSize > 1
        /\ 2 * (g.n + WinSize) + 1 < Mod
    BY WindowFits DEF Short
  <1>2. l.send \in Windows /\ l.send.length <= g.n /\ l.cwnd \in Nat /\ l.cwnd > 0
    BY DEF Links, Placed
  <1>3. I \in Nat /\ g.n <= I + WinSize /\ I <= g.n /\ l.send.index = Plus(g.start, I)
    BY <1>2, IndexAt
  <1>4. PICK F \in Nat :
           /\ FlushTo(l) = Plus(g.start, F)
           /\ R <= F /\ F <= M /\ F <= g.n /\ F <= I + l.cwnd
           /\ \/ F = M \/ F = g.n \/ F = I + l.cwnd
              \/ F = R /\ Stuck(g, R, M)
           /\ Stuck(g, R, M) => F = R
    <2>1. Plus(l.send.index, l.send.length) = Plus(g.start, g.n)
      BY DEF SendFlow
    <2> QED
      BY <1>3, <2>1, FlushLands
  <1>5. /\ v.send.packs = Counted(l) /\ v.send.length = l.send.length
        /\ v.send.ready = FlushTo(l) /\ v.sequence = l.sequence /\ v.cwnd = l.cwnd
    <2>1. v.send.packs = Counted(l) /\ v.send.length = l.send.length
      BY FlushKeeps
    <2>2. v.send.ready = FlushTo(l) /\ v.sequence = l.sequence /\ v.cwnd = l.cwnd
      BY DEF AfterFlush, Links, Windows
    <2> QED
      BY <2>1, <2>2
  <1>6. I <= M
    BY <1>2, FirstBelow
  <1> HIDE DEF v
  <1>7. First(g, v.send) = I
    BY <1>5 DEF First
  <1> HIDE DEF I
  <1>8. Placed(g, F, M, v)
    BY <1>4, <1>5, <1>7 DEF Placed, I
  <1>9. Lag(g, F, M, v)
    <2> SUFFICES ASSUME F <= I
                 PROVE  \/ g.n < F + WinSize
                        \/ F = I /\ M = I
                        \/ Stuck(g, F, M)
      BY <1>7 DEF Lag
    <2> QED
      BY <1>1, <1>2, <1>3, <1>4, <1>6
  <1>10. SendHolds(g, v.send, w)
    <2>1. \A i \in Slots : Counted(l)[i] = NULL <=> l.send.packs[i] = NULL
      <3>1. \A i \in Slots : l.send.packs[i] # NULL => Counted(l)[i] # NULL
        BY CountedPack, NullNoPack
      <3>2. \A i \in Slots : l.send.packs[i] = NULL => Counted(l)[i] = NULL
        BY DEF Counted, Flushed
      <3> QED
        BY <3>1, <3>2
    <2>2. SamePacks(l.send, v.send)
      BY <1>5, <2>1, CountedPack DEF SamePacks
    <2> QED
      BY <1>1, <2>2, SameHolds
  <1>11. NetBelow(g, M, D) /\ AcksTrue(g, w, D)
    <2>1. /\ NetBelow(g, M, FlushDatagrams(Sender, l))
          /\ AcksTrue(g, w, FlushDatagrams(Sender, l))
      BY <1>4, FlushBelow
    <2> QED
      BY <2>1, NearNet
  <1>12. NearAt(g, b, F, M, v, w, D)
    BY <1>8, <1>9, <1>10, <1>11 DEF NearAt
  <1> QED
    BY <1>12 DEF Near, v

\* Near looks at the send window, the limit, the packs that have arrived and what travels.
LEMMA NearSame ==
    ASSUME NEW g, g.start \in Seqs, NEW b, NEW l, NEW w, NEW N, Near(g, b, l, w, N),
           NEW c, c.n = b.n, c.val = b.val,
           NEW k, k.send.length = l.send.length, k.send.packs = l.send.packs,
           k.send.ready = l.send.ready, k.sequence = l.sequence, k.cwnd = l.cwnd,
           NEW v, v.packs = w.packs, NEW D, \A m \in D : m \in N \/ Aside(m)
    PROVE  Near(g, c, k, v, D)
  <1>1. PICK R \in Nat, M \in Nat : NearAt(g, b, R, M, l, w, N)
    BY DEF Near
  <1>2. First(g, k.send) = First(g, l.send)
    BY DEF First
  <1>3. \A o : Arrived(g, v, o) <=> Arrived(g, w, o)
    BY DEF Arrived
  <1>4. Placed(g, R, M, k) /\ Lag(g, R, M, k)
    BY <1>1, <1>2 DEF NearAt, Placed, Lag
  <1>5. SendHolds(g, k.send, v)
    BY <1>1, <1>2, <1>3 DEF NearAt, SendHolds
  <1>6. RecvBelow(g, M, v) /\ WindsTrue(g, c)
    BY <1>1 DEF NearAt, RecvBelow, WindsTrue
  <1>7. NetBelow(g, M, N) /\ AcksTrue(g, v, N)
    BY <1>1, <1>3 DEF NearAt, AcksTrue, AckTrue
  <1>8. NetBelow(g, M, D) /\ AcksTrue(g, v, D)
    <2>1. NetBelow(g, M, {}) /\ AcksTrue(g, v, {})
      BY DEF NetBelow, AcksTrue
    <2> QED
      BY <1>7, <2>1, NearNet
  <1>9. NearAt(g, c, R, M, k, v, D)
    BY <1>4, <1>5, <1>6, <1>8 DEF NearAt
  <1> QED
    BY <1>9 DEF Near

\* cavan_udp_win_enqueue: the new pack is in its slot, and ready may be a whole window
\* behind the end until the flush that follows.
LEMMA EnqueueHolds ==
    ASSUME NEW l \in Links, NEW t \in {"DATA", "WIND"}, NEW x \in Nat, l.send.length < WinSize,
           NEW g \in Streams, Short(g), SendFlow(g, l.send), l.send.length <= g.n,
           NEW w, SendHolds(g, l.send, w), Short(Longer(g, t, x))
    PROVE  /\ SendHolds(Longer(g, t, x), Enqueued(l, t, x).send, w)
           /\ First(Longer(g, t, x), Enqueued(l, t, x).send) = First(g, l.send)
           /\ Enqueued(l, t, x).send.length = l.send.length + 1
           /\ Enqueued(l, t, x).send.ready = l.send.ready
           /\ Enqueued(l, t, x).sequence = l.sequence /\ Enqueued(l, t, x).cwnd = l.cwnd
  <1> DEFINE k == Longer(g, t, x)
             seq == Plus(l.send.index, l.send.length)
             p == [type |-> t, seq |-> seq, val |-> x, times |-> 0]
             packs == [l.send.packs EXCEPT ![Slot(seq)] = p]
             s == Enqueued(l, t, x).send
             I == First(g, l.send)
  <1>1. /\ s.packs = packs /\ s.length = l.send.length + 1 /\ s.ready = l.send.ready
        /\ Enqueued(l, t, x).sequence = l.sequence /\ Enqueued(l, t, x).cwnd = l.cwnd
    BY DEF Enqueued, Links, Windows
  <1>2. /\ g.start \in Seqs /\ g.n \in Nat /\ Mod \in Nat /\ WinSize \in Nat
        /\ 2 * (g.n + WinSize) + 1 < Mod /\ g.r \in Nat
    BY WindowFits DEF Short
  <1>3. seq = Plus(g.start, g.n) /\ seq \in Seqs /\ Slot(seq) \in Slots
    <2>1. Plus(g.start, g.n) \in Seqs
      <3>1. g.start \in Nat
        BY <1>2 DEF Seqs
      <3> QED
        BY <1>2, <3>1, PlusType
    <2>2. Slot(Plus(g.start, g.n)) \in Slots
      BY <1>2, SlotType
    <2> QED
      BY <2>1, <2>2 DEF SendFlow
  <1>4. l.send \in Windows
    BY DEF Links
  <1>5. /\ I \in Nat /\ I + l.send.length = g.n /\ l.send.length \in Nat /\ I <= g.n
    BY <1>4, IndexAt
  <1>6. OneMore(g, t, x, k)
    BY LongerIs
  <1>7. p.type = t /\ p.seq = seq /\ p.val = x /\ p # NULL
    BY <1>3 DEF NULL
  <1> HIDE DEF p, seq, k, s
  <1>8. \A i \in Slots : packs[i] = IF i = Slot(seq) THEN p ELSE l.send.packs[i]
    BY DEF Links, Windows
  <1>9. k.start = g.start /\ k.r = g.r /\ k.n = g.n + 1
    BY <1>6 DEF OneMore
  <1>10. First(k, s) = I
    BY <1>1, <1>2, <1>5, <1>9 DEF First
  <1> HIDE DEF packs, I
  <1>11. \A o : Arrived(k, w, o) <=> Arrived(g, w, o)
    BY <1>9 DEF Arrived
  <1>12. ASSUME NEW o \in Nat, o < I PROVE Arrived(k, w, o)
    BY <1>11, <1>12 DEF SendHolds, I
  <1>13. ASSUME NEW o \in Nat, I <= o, o < k.n, packs[Slot(Plus(g.start, o))] = NULL
         PROVE  Arrived(k, w, o)
    <2>1. Slot(Plus(g.start, o)) \in Slots
      BY <1>2, SlotType
    <2>2. Slot(Plus(g.start, o)) # Slot(seq)
      BY <1>7, <1>8, <1>13, <2>1
    <2>3. o # g.n
      BY <1>3, <2>2
    <2>4. o < g.n
      BY <1>2, <1>9, <1>13, <2>3
    <2>5. l.send.packs[Slot(Plus(g.start, o))] = NULL
      BY <1>8, <1>13, <2>1, <2>2
    <2>6. Arrived(g, w, o)
      BY <1>13, <2>4, <2>5 DEF SendHolds, I
    <2> QED
      BY <1>11, <2>6
  <1>14. ASSUME NEW i \in Slots, packs[i] # NULL
         PROVE  \E o \in Nat : I <= o /\ Slot(Plus(g.start, o)) = i /\ Copy(k, o, packs[i])
    <2>1. CASE i = Slot(seq)
      <3>1. packs[i] = p
        BY <1>8, <2>1
      <3>2. Copy(k, g.n, p)
        BY <1>2, <1>3, <1>6, <1>7, <1>9 DEF Copy, OneMore
      <3> QED
        BY <1>2, <1>3, <1>5, <2>1, <3>1, <3>2
    <2>2. CASE i # Slot(seq)
      <3>1. packs[i] = l.send.packs[i]
        BY <1>8, <2>2
      <3>2. PICK o \in Nat : I <= o /\ Slot(Plus(g.start, o)) = i /\ Copy(g, o, packs[i])
        BY <1>14, <3>1 DEF SendHolds, I
      <3>3. Copy(k, o, packs[i])
        BY <3>2, LongerCopy DEF k
      <3> QED
        BY <3>2, <3>3
    <2> QED
      BY <2>1, <2>2
  <1>15. SendHolds(k, s, w)
    BY <1>1, <1>9, <1>10, <1>12, <1>13, <1>14 DEF SendHolds
  <1> QED
    BY <1>1, <1>10, <1>15 DEF k, s, I

LEMMA EnqueueNear ==
    ASSUME NEW l \in Links, NEW t \in {"DATA", "WIND"}, NEW x \in Seqs, l.send.length < WinSize,
           NEW g \in Streams, Short(g), SendFlow(g, l.send), Short(Longer(g, t, x)),
           NEW b, NEW w, RecvFlow(g, w), NEW N, Near(g, b, l, w, N),
           NEW D, \A m \in D : m \in N \/ m \in FlushDatagrams(Sender, Enqueued(l, t, x)) \/ Aside(m)
    PROVE  Near(Longer(g, t, x), b, AfterFlush(Enqueued(l, t, x)), w, D)
  <1> DEFINE k == Longer(g, t, x)
             v == Enqueued(l, t, x)
  <1>1. PICK R \in Nat, M \in Nat : NearAt(g, b, R, M, l, w, N)
    BY DEF Near
  <1>2. x \in Nat
    BY DEF Seqs
  <1>3. /\ Placed(g, R, M, l) /\ Lag(g, R, M, l) /\ SendHolds(g, l.send, w)
        /\ RecvBelow(g, M, w) /\ NetBelow(g, M, N) /\ AcksTrue(g, w, N) /\ WindsTrue(g, b)
    BY <1>1 DEF NearAt
  <1>4. /\ g.start \in Seqs /\ g.n \in Nat /\ Mod \in Nat /\ WinSize \in Nat
        /\ 2 * (g.n + WinSize) + 1 < Mod /\ g.r \in Nat
    BY WindowFits DEF Short
  <1>5. l.send \in Windows /\ l.send.length <= g.n
    BY <1>3 DEF Links, Placed
  <1>6. /\ SendHolds(k, v.send, w) /\ First(k, v.send) = First(g, l.send)
        /\ v.send.length = l.send.length + 1 /\ v.send.ready = l.send.ready
        /\ v.sequence = l.sequence /\ v.cwnd = l.cwnd
    BY <1>2, <1>3, <1>5, EnqueueHolds
  <1>7. First(g, l.send) \in Nat /\ l.send.length \in Nat
    BY <1>5, IndexAt
  <1>8. v \in Links
    BY EnqueueType
  <1>9. OneMore(g, t, x, k)
    BY <1>2, LongerIs
  <1>10. SendFlow(k, v.send) /\ RecvFlow(k, w)
    <2>1. g.n + 1 < Mod
      BY <1>4
    <2> QED
      BY <1>2, <2>1, EnqueueFlow, LongerFlow
  <1>11. \A o \in Nat : \A p : Copy(g, o, p) => Copy(k, o, p)
    BY <1>2, LongerCopy
  <1> HIDE DEF k, v
  <1>12. k.start = g.start /\ k.r = g.r /\ k.n = g.n + 1
    BY <1>9 DEF OneMore
  <1>13. Placed(k, R, M, v)
    BY <1>3, <1>4, <1>6, <1>7, <1>12 DEF Placed
  <1>14. Close(k, R, M, v.send)
    <2>1. Stuck(g, R, M) => Stuck(k, R, M)
      BY <1>12 DEF Stuck
    <2> QED
      BY <1>3, <1>4, <1>6, <1>7, <1>12, <2>1 DEF Close, Lag
  <1>15. \A p : Below(g, M, p) => Below(k, M, p)
    BY <1>11 DEF Below
  <1>16. RecvBelow(k, M, w) /\ NetBelow(k, M, N) /\ WindsTrue(k, b)
    BY <1>3, <1>12, <1>15 DEF RecvBelow, NetBelow, WindsTrue
  <1>17. AcksTrue(k, w, N)
    <2>1. \A o : Arrived(g, w, o) => Arrived(k, w, o)
      BY <1>12 DEF Arrived
    <2>2. \A m : AckTrue(g, w, m) => AckTrue(k, w, m)
      <3>1. \A o \in Nat : o < g.n => o < k.n
        BY <1>4, <1>12
      <3> QED
        BY <1>12, <2>1, <3>1 DEF AckTrue
    <2> QED
      BY <1>3, <2>2 DEF AcksTrue
  <1>18. \A m \in D : m \in N \/ m \in FlushDatagrams(Sender, v) \/ Aside(m)
    BY DEF v
  <1>19. Short(k)
    BY DEF k
  <1>20. Near(k, b, AfterFlush(v), w, D)
    BY <1>6, <1>8, <1>10, <1>13, <1>14, <1>16, <1>17, <1>18, <1>19, FlushNear
  <1> QED
    BY <1>20 DEF k, v

\* cavan_udp_win_ack: what leaves the window has arrived.
LEMMA AckedHolds ==
    ASSUME NEW s \in Windows, NEW g, Short(g), SendFlow(g, s), s.length <= g.n,
           NEW w, SendHolds(g, s, w), NEW o \in Nat, First(g, s) <= o, o < g.n, Arrived(g, w, o)
    PROVE  LET v == AckedWin(s, Slot(Plus(g.start, o)))
           IN  /\ SendHolds(g, v, w) /\ v.length <= s.length /\ v.length \in Nat
               /\ v.ready = s.ready
  <1> DEFINE i == Slot(Plus(g.start, o))
             packs == [s.packs EXCEPT ![i] = NULL]
             clear == {k \in 0..s.length :
                         \A j \in 0..(k - 1) : packs[Slot(Plus(s.index, j))] = NULL}
             n == Max(clear)
             v == AckedWin(s, i)
             I == First(g, s)
  <1>1. /\ g.start \in Seqs /\ g.n \in Nat /\ Mod \in Nat /\ WinSize \in Nat
        /\ 2 * (g.n + WinSize) + 1 < Mod /\ s.length \in 0..WinSize
    BY WindowFits DEF Short, Windows
  <1>2. /\ I \in Nat /\ I + s.length = g.n /\ s.length \in Nat /\ I <= g.n
        /\ g.n <= I + WinSize /\ s.index = Plus(g.start, I)
    BY IndexAt
  <1>3. n \in clear
    <2>1. clear \in SUBSET (0..s.length) /\ 0 \in clear
      BY <1>2
    <2> HIDE DEF clear
    <2> QED
      BY <1>2, <2>1, MaxIsThere
  <1>4. v = [s EXCEPT !.packs = packs, !.length = @ - n, !.index = Plus(@, n),
                      !.full = @ /\ n = 0]
    BY Zenon DEF AckedWin
  <1>5. /\ n \in 0..s.length /\ n \in Nat
        /\ \A j \in 0..(n - 1) : packs[Slot(Plus(s.index, j))] = NULL
    <2> HIDE DEF n
    <2> QED
      BY <1>2, <1>3
  <1>6. i \in Slots /\ s.packs \in [Slots -> Packs \cup {NULL}]
    BY <1>1, SlotType DEF Windows
  <1> HIDE DEF n, clear, v, i
  <1>7. \A q \in Slots : packs[q] = IF q = i THEN NULL ELSE s.packs[q]
    BY <1>6
  <1> HIDE DEF packs
  <1>8. v.length = s.length - n /\ v.packs = packs /\ v.ready = s.ready
    BY <1>4 DEF Windows
  <1>9. v.length \in Nat /\ v.length <= s.length
    BY <1>2, <1>5, <1>8
  <1>10. First(g, v) = I + n
    BY <1>1, <1>2, <1>5, <1>8 DEF First
  <1> HIDE DEF I
  <1>11. \A x \in Nat : Slot(Plus(g.start, x)) \in Slots
    BY <1>1, SlotType
  <1>12. ASSUME NEW x \in Nat, I <= x, x < g.n, packs[Slot(Plus(g.start, x))] = NULL
         PROVE  Arrived(g, w, x)
    <2>1. CASE Slot(Plus(g.start, x)) = i
      <3>1. x < Mod /\ o < Mod /\ x < o + WinSize /\ o < x + WinSize
        BY <1>1, <1>2, <1>12 DEF I
      <3>2. x = o
        <4>1. CASE x <= o
          BY <1>1, <2>1, <3>1, <4>1, SlotsApart DEF i
        <4>2. CASE o <= x
          BY <1>1, <2>1, <3>1, <4>2, SlotsApart DEF i
        <4> QED
          BY <4>1, <4>2
      <3> QED
        BY <3>2
    <2>2. CASE Slot(Plus(g.start, x)) # i
      BY <1>7, <1>11, <1>12, <2>2 DEF SendHolds, I
    <2> QED
      BY <2>1, <2>2
  <1>13. ASSUME NEW x \in Nat, I <= x, x < I + n
         PROVE  packs[Slot(Plus(g.start, x))] = NULL /\ x < g.n
    <2>1. PICK j \in Nat : x = I + j
      BY <1>2, <1>13, x - I \in Nat
    <2>2. j \in 0..(n - 1) /\ x < g.n /\ x < Mod
      BY <1>1, <1>2, <1>5, <1>13, <2>1
    <2>3. Plus(s.index, j) = Plus(g.start, x)
      BY <1>1, <1>2, <2>1, <2>2, PlusSum
    <2> QED
      BY <1>5, <2>2, <2>3
  <1>14. ASSUME NEW x \in Nat, x < I + n PROVE Arrived(g, w, x)
    <2>1. CASE x < I
      BY <2>1 DEF SendHolds, I
    <2>2. CASE I <= x
      BY <1>12, <1>13, <1>14, <2>2
    <2> QED
      BY <1>2, <2>1, <2>2
  <1>15. ASSUME NEW x \in Nat, I + n <= x, x < g.n, packs[Slot(Plus(g.start, x))] = NULL
         PROVE  Arrived(g, w, x)
    <2>1. I <= x
      BY <1>2, <1>5, <1>15
    <2> QED
      BY <1>12, <1>15, <2>1
  <1>16. ASSUME NEW q \in Slots, packs[q] # NULL
         PROVE  \E x \in Nat : I + n <= x /\ Slot(Plus(g.start, x)) = q /\ Copy(g, x, packs[q])
    <2>1. packs[q] = s.packs[q]
      BY <1>7, <1>16
    <2>2. PICK x \in Nat : I <= x /\ Slot(Plus(g.start, x)) = q /\ Copy(g, x, packs[q])
      BY <1>16, <2>1 DEF SendHolds, I
    <2>3. ~(x < I + n)
      BY <1>13, <1>16, <2>2
    <2> QED
      BY <1>2, <1>5, <2>2, <2>3
  <1>17. SendHolds(g, v, w)
    BY <1>8, <1>10, <1>14, <1>15, <1>16 DEF SendHolds
  <1> QED
    BY <1>8, <1>9, <1>17 DEF v, i

\* CAVAN_UDP_DATA_ACK at the Sender, unless its limit sets the old one back.
LEMMA AckNear ==
    ASSUME NEW l \in Links, NEW g, Short(g), SendFlow(g, l.send), NEW b, NEW w, RecvFlow(g, w),
           NEW N, Near(g, b, l, w, N), NEW m \in N, m.to = Sender, m.type = "ACK",
           ~((Acked(l, m).sequence - l.sequence) % Mod > Mod \div 2),
           NEW D, D \subseteq N
    PROVE  Near(g, b, Acked(l, m), w, D)
  <1> DEFINE I == First(g, l.send)
             k == Acked(l, m)
  <1>1. PICK R \in Nat, M \in Nat : NearAt(g, b, R, M, l, w, N)
    BY DEF Near
  <1>2. /\ Placed(g, R, M, l) /\ Lag(g, R, M, l) /\ SendHolds(g, l.send, w)
        /\ RecvBelow(g, M, w) /\ NetBelow(g, M, N) /\ AcksTrue(g, w, N) /\ WindsTrue(g, b)
    BY <1>1 DEF NearAt
  <1>3. /\ g.start \in Seqs /\ g.n \in Nat /\ Mod \in Nat /\ WinSize \in Nat /\ WinSize > 1
        /\ 2 * (g.n + WinSize) + 1 < Mod /\ g.r \in Nat /\ g.r <= g.n
    BY WindowFits DEF Short
  <1>4. l.send \in Windows /\ l.send.length <= g.n /\ l.cwnd \in Nat /\ R <= M /\ M <= g.r + WinSize
        /\ R <= g.n /\ l.sequence = Plus(g.start, M) /\ R <= I + l.cwnd
        /\ l.send.ready = Plus(g.start, R)
    BY <1>2 DEF Links, Placed
  <1>5. /\ I \in Nat /\ I + l.send.length = g.n /\ l.send.length \in Nat /\ I <= g.n
        /\ g.n <= I + WinSize /\ l.send.index = Plus(g.start, I)
    BY <1>4, IndexAt
  <1>6. NetBelow(g, M, D) /\ AcksTrue(g, w, D)
    BY <1>2 DEF NetBelow, AcksTrue
  <1>7. CASE Invalid(l.send.index, m.seq)
    <2>1. Acked(l, m) = l
      BY <1>7, Zenon DEF Acked
    <2> QED
      BY <1>2, <1>6, <2>1 DEF NearAt, Near
  <1>8. CASE ~Invalid(l.send.index, m.seq)
    <2>1. PICK o \in Nat, x \in Nat :
             /\ o < g.n /\ Arrived(g, w, o) /\ m.seq = Plus(g.start, o)
             /\ x <= g.r + WinSize /\ Plus(m.seq, m.val) = Plus(g.start, x)
      BY <1>2 DEF AcksTrue, AckTrue
    <2>2. I <= o
      <3>1. I < Mod - WinSize /\ o < Mod - WinSize
        BY <1>3, <1>5, <2>1
      <3> HIDE DEF I
      <3> QED
        BY <1>3, <1>5, <1>8, <2>1, <3>1, ValidIsNear
    <2>3. o < M
      BY <1>2, <2>1, ArrivedBelow
    <2> DEFINE seq == SetSequence(l.sequence, Plus(m.seq, m.val))
               i == Slot(m.seq)
               s == AckedWin(l.send, i)
    <2>4. /\ k.sequence = seq
          /\ k.send = l.send \/ k.send = s
          /\ k.cwnd = l.cwnd \/ k.cwnd = l.cwnd + 1
      <3>1. CASE l.send.packs[i] = NULL
        <4>1. k = [l EXCEPT !.sequence = seq]
          BY <1>8, <3>1, Zenon DEF Acked
        <4> QED
          BY <4>1 DEF Links
      <3>2. CASE l.send.packs[i] # NULL
        <4> DEFINE more == l.acks < l.cwnd
        <4>1. k = [l EXCEPT !.sequence = seq, !.send = AckedWin(@, i),
                            !.acks = IF more THEN @ + 1 ELSE 0,
                            !.cwnd = IF ~more /\ @ < MaxCwnd THEN @ + 1 ELSE @]
          BY <1>8, <3>2, Zenon DEF Acked
        <4> HIDE DEF more, seq, i, k
        <4> QED
          BY <4>1 DEF Links
      <3> QED
        BY <3>1, <3>2
    <2> HIDE DEF seq
    <2>5. PICK K \in Nat : M <= K /\ K <= g.r + WinSize /\ k.sequence = Plus(g.start, K)
      <3>1. k.sequence = SetSequence(Plus(g.start, M), Plus(g.start, x))
        BY <1>4, <2>1, <2>4 DEF seq
      <3>2. ~((k.sequence - Plus(g.start, M)) % Mod > Mod \div 2)
        BY <1>4
      <3> HIDE DEF k
      <3> QED
        BY <1>4, <2>1, <3>1, <3>2, LimitMoves
    <2>6. /\ SendHolds(g, s, w) /\ s.length <= l.send.length /\ s.length \in Nat
          /\ s.ready = l.send.ready
      BY <1>2, <1>4, <2>1, <2>2, AckedHolds
    <2> HIDE DEF k, s, i
    <2>7. /\ SendHolds(g, k.send, w) /\ k.send.length <= l.send.length /\ k.send.length \in Nat
          /\ k.send.ready = l.send.ready
      BY <1>2, <1>5, <2>4, <2>6
    <2>8. First(g, k.send) \in Nat /\ I <= First(g, k.send)
      BY <1>3, <1>5, <2>7 DEF First
    <2> HIDE DEF I
    <2>9. Placed(g, R, K, k)
      <3>1. k.send.length <= g.n /\ R <= K
        BY <1>3, <1>4, <1>5, <2>5, <2>7
      <3>2. R <= First(g, k.send) + k.cwnd
        BY <1>4, <1>5, <2>4, <2>8
      <3> QED
        BY <1>4, <2>5, <2>7, <3>1, <3>2 DEF Placed
    <2>10. Lag(g, R, K, k)
      <3>1. CASE R <= I
        <4>1. g.n < R + WinSize \/ (R = I /\ M = I) \/ Stuck(g, R, M)
          BY <1>2, <3>1 DEF Lag, I
        <4>2. M # I
          BY <1>5, <2>2, <2>3
        <4>3. Stuck(g, R, M) => Stuck(g, R, K)
          BY <1>4, <2>5, StuckGrows
        <4> QED
          BY <4>1, <4>2, <4>3 DEF Lag
      <3>2. CASE ~(R <= I)
        <4>1. g.n < R + WinSize
          BY <1>3, <1>5, <3>2
        <4> QED
          BY <4>1 DEF Lag
      <3> QED
        BY <3>1, <3>2
    <2>11. RecvBelow(g, K, w) /\ NetBelow(g, K, D)
      <3>1. \A p : Below(g, M, p) => Below(g, K, p)
        BY <2>5 DEF Below
      <3> QED
        BY <1>2, <1>3, <1>6, <2>5, <3>1 DEF RecvBelow, NetBelow
    <2>12. NearAt(g, b, R, K, k, w, D)
      BY <1>2, <1>6, <2>7, <2>9, <2>10, <2>11 DEF NearAt
    <2> QED
      BY <2>12 DEF Near, k
  <1> QED
    BY <1>7, <1>8

\* CAVAN_UDP_WIND at the Sender, unless its limit sets the old one back: the new limit, then
\* a flush.
LEMMA WindNear ==
    ASSUME NEW l \in Links, NEW k \in Links, NEW g, Short(g), SendFlow(g, l.send),
           NEW b, NEW w, RecvFlow(g, w), NEW N, Near(g, b, l, w, N),
           k.send = l.send, k.cwnd = l.cwnd, NEW x \in Nat, x <= g.r + WinSize,
           k.sequence = SetSequence(l.sequence, Plus(g.start, x)),
           ~((k.sequence - l.sequence) % Mod > Mod \div 2),
           NEW D, \A m \in D : m \in N \/ m \in FlushDatagrams(Sender, k) \/ Aside(m)
    PROVE  Near(g, b, AfterFlush(k), w, D)
  <1> DEFINE I == First(g, l.send)
  <1>1. PICK R \in Nat, M \in Nat : NearAt(g, b, R, M, l, w, N)
    BY DEF Near
  <1>2. /\ Placed(g, R, M, l) /\ Lag(g, R, M, l) /\ SendHolds(g, l.send, w)
        /\ RecvBelow(g, M, w) /\ NetBelow(g, M, N) /\ AcksTrue(g, w, N) /\ WindsTrue(g, b)
    BY <1>1 DEF NearAt
  <1>3. /\ g.start \in Seqs /\ g.n \in Nat /\ Mod \in Nat /\ WinSize \in Nat /\ WinSize > 1
        /\ 2 * (g.n + WinSize) + 1 < Mod /\ g.r \in Nat /\ g.r <= g.n
    BY WindowFits DEF Short
  <1>4. /\ l.send \in Windows /\ l.send.length <= g.n /\ R <= M /\ M <= g.r + WinSize
        /\ l.sequence = Plus(g.start, M)
    BY <1>2 DEF Links, Placed
  <1>5. I \in Nat /\ g.n <= I + WinSize
    BY <1>4, IndexAt
  <1>6. PICK K \in Nat : M <= K /\ K <= g.r + WinSize /\ k.sequence = Plus(g.start, K)
    <2>1. k.sequence = SetSequence(Plus(g.start, M), Plus(g.start, x))
      BY <1>4
    <2>2. ~((k.sequence - Plus(g.start, M)) % Mod > Mod \div 2)
      BY <1>4
    <2> QED
      BY <1>4, <2>1, <2>2, LimitMoves
  <1>7. Placed(g, R, K, k)
    BY <1>2, <1>4, <1>6 DEF Placed
  <1>8. Close(g, R, K, k.send)
    <2>1. Stuck(g, R, M) => Stuck(g, R, K)
      BY <1>4, <1>6, StuckGrows
    <2> QED
      BY <1>2, <1>3, <1>5, <2>1 DEF Close, Lag
  <1>9. RecvBelow(g, K, w) /\ NetBelow(g, K, N)
    <2>1. \A p : Below(g, M, p) => Below(g, K, p)
      BY <1>6 DEF Below
    <2> QED
      BY <1>2, <1>3, <1>6, <2>1 DEF RecvBelow, NetBelow
  <1>10. SendFlow(g, k.send) /\ SendHolds(g, k.send, w)
    BY <1>2
  <1> QED
    BY <1>2, <1>7, <1>8, <1>9, <1>10, FlushNear

\* cavan_udp_win_resend of a pack below the limit.
LEMMA ResendNear ==
    ASSUME NEW l \in Links, HeadThere(l.send), l.send.length > 0, ~PastLimit(l),
           NEW g, Short(g), SendFlow(g, l.send),
           NEW b, NEW w, RecvFlow(g, w), NEW N, Near(g, b, l, w, N),
           NEW D, \A m \in D : m \in N \/ m = Datagram(Sender, l.send.packs[Slot(l.send.index)])
    PROVE  Near(g, b, Resent(l), w, D)
  <1> DEFINE I == First(g, l.send)
             i == Slot(l.send.index)
             p == [l.send.packs[i] EXCEPT !.times = @ + 1]
             packs == [l.send.packs EXCEPT ![i] = p]
             k == Resent(l)
             d == Datagram(Sender, l.send.packs[i])
  <1>1. PICK R \in Nat, M \in Nat : NearAt(g, b, R, M, l, w, N)
    BY DEF Near
  <1>2. /\ Placed(g, R, M, l) /\ Lag(g, R, M, l) /\ SendHolds(g, l.send, w)
        /\ RecvBelow(g, M, w) /\ NetBelow(g, M, N) /\ AcksTrue(g, w, N) /\ WindsTrue(g, b)
    BY <1>1 DEF NearAt
  <1>3. /\ g.start \in Seqs /\ g.n \in Nat /\ Mod \in Nat /\ WinSize \in Nat /\ WinSize > 1
        /\ 2 * (g.n + WinSize) + 1 < Mod /\ g.r \in Nat /\ g.r <= g.n /\ 4 * WinSize <= Mod
    BY WindowFits DEF Short
  <1>4. /\ l.send \in Windows /\ l.send.length <= g.n /\ R <= M /\ M <= g.r + WinSize
        /\ l.sequence = Plus(g.start, M)
    BY <1>2 DEF Links, Placed
  <1>5. /\ I \in Nat /\ g.n <= I + WinSize /\ I + l.send.length = g.n /\ l.send.length \in Nat
        /\ l.send.index = Plus(g.start, I)
    BY <1>4, IndexAt
  <1>6. I < g.n
    BY <1>3, <1>5
  <1>7. I < M
    <2>1. I <= M
      BY <1>2, <1>4, FirstBelow
    <2>2. I # M
      <3> SUFFICES ASSUME I = M PROVE FALSE
        OBVIOUS
      <3>1. l.send.index - l.sequence = 0
        <4>1. l.send.index = l.sequence /\ l.sequence \in Nat
          BY <1>4, <1>5 DEF Links, Seqs
        <4> QED
          BY <4>1
      <3>2. 0 % Mod = 0 /\ 0 < Mod \div 2
        BY <1>3
      <3> QED
        BY <3>1, <3>2 DEF PastLimit
    <2> QED
      BY <1>5, <2>1, <2>2
  <1>8. i \in Slots /\ l.send.packs \in [Slots -> Packs \cup {NULL}] /\ l.send.packs[i] \in Packs
    <2>1. i \in Slots
      BY <1>3, <1>5, SlotType
    <2> QED
      BY <2>1 DEF Links, Windows, HeadThere
  <1>9. /\ k.send.ready = Plus(l.send.index, 1) /\ k.send.length = l.send.length
        /\ k.sequence = l.sequence /\ k.cwnd = 1 /\ k.send.packs = packs
    <2>1. [l.send.packs EXCEPT ![i].times = @ + 1] = packs
      BY <1>8
    <2>2. /\ k.send.ready = Plus(l.send.index, 1) /\ k.send.length = l.send.length
          /\ k.sequence = l.sequence /\ k.cwnd = 1
          /\ k.send.packs = [l.send.packs EXCEPT ![i].times = @ + 1]
      BY DEF Resent, Links, Windows
    <2> QED
      BY <2>1, <2>2
  <1>10. SamePacks(l.send, k.send)
    <2>1. /\ p \in Packs /\ p # NULL /\ p.type = l.send.packs[i].type
          /\ p.seq = l.send.packs[i].seq /\ p.val = l.send.packs[i].val
      <3>1. /\ p \in Packs /\ p.type = l.send.packs[i].type
            /\ p.seq = l.send.packs[i].seq /\ p.val = l.send.packs[i].val
        BY <1>8 DEF Packs
      <3> QED
        BY <3>1, NullNoPack
    <2> HIDE DEF p, i, k
    <2>2. \A j \in Slots : packs[j] = IF j = i THEN p ELSE l.send.packs[j]
      BY <1>8
    <2>3. l.send.packs[i] # NULL
      BY <1>8, NullNoPack
    <2> HIDE DEF packs
    <2> QED
      BY <1>9, <2>1, <2>2, <2>3 DEF SamePacks
  <1>11. SendHolds(g, k.send, w)
    BY <1>2, <1>3, <1>10, SameHolds
  <1>12. Copy(g, I, d)
    <2>1. l.send.packs[Slot(Plus(g.start, I))] # NULL
      BY <1>5, <1>8, NullNoPack
    <2>2. Copy(g, I, l.send.packs[Slot(Plus(g.start, I))])
      <3>1. I <= I
        BY <1>5
      <3> HIDE DEF I
      <3> QED
        BY <1>2, <1>5, <1>6, <2>1, <3>1, HeldAt DEF I
    <2> QED
      BY <1>5, <2>2 DEF Copy, Datagram
  <1>13. NetBelow(g, M, {d}) /\ AcksTrue(g, w, {d})
    <2>1. Below(g, M, d)
      BY <1>5, <1>7, <1>12 DEF Below
    <2>2. d.to = Receiver /\ Sender # Receiver
      BY UdpAssumption DEF Datagram, Peer
    <2> HIDE DEF d
    <2> QED
      BY <2>1, <2>2 DEF NetBelow, AcksTrue
  <1> HIDE DEF k, d
  <1>14. NetBelow(g, M, D) /\ AcksTrue(g, w, D)
    <2>1. \A m \in D : m \in N \/ m \in {d} \/ Aside(m)
      BY DEF d
    <2> QED
      BY <1>2, <1>13, <2>1, NearNet
  <1>15. PICK F \in Nat : F = I + 1
    BY <1>5
  <1>16. First(g, k.send) = I
    BY <1>9 DEF First
  <1>17. k.send.ready = Plus(g.start, F)
    <2>1. I + 1 < Mod
      BY <1>3, <1>5
    <2> QED
      BY <1>3, <1>5, <1>9, <1>15, <2>1, PlusSum
  <1> HIDE DEF I
  <1>18. Placed(g, F, M, k) /\ Lag(g, F, M, k)
    BY <1>3, <1>4, <1>5, <1>6, <1>7, <1>9, <1>15, <1>16, <1>17 DEF Placed, Lag
  <1>19. NearAt(g, b, F, M, k, w, D)
    BY <1>2, <1>11, <1>14, <1>18 DEF NearAt
  <1> QED
    BY <1>19 DEF Near, k

\* The window field of an acknowledgement reaches no further than the receiver's window,
\* however the numbers wrap.
LEMMA AckWinIs ==
    ASSUME NEW s \in Seqs, NEW r \in Nat, NEW o \in Nat, r + WinSize < Mod, o < r + WinSize
    PROVE  /\ AckWin(Plus(s, r), Plus(s, o)) \in Nat
           /\ o + AckWin(Plus(s, r), Plus(s, o)) <= r + WinSize
  <1>1. WinSize \in Nat /\ WinSize > 1 /\ Mod \in Nat /\ Mod > 0 /\ r < Mod /\ o < Mod
    BY WindowFits
  <1>2. PICK W \in Nat : W = 4 * WinSize /\ W > 0
    BY <1>1
  <1>3. PICK q \in Nat : Mod = W * q
    <2>1. Mod % W = 0
      BY <1>2, UdpAssumption
    <2>2. PICK e \in Nat, u \in Nat : u = Mod % W /\ Mod = W * e + u
      BY <1>1, <1>2, Divided
    <2> QED
      BY <1>2, <2>1, <2>2
  <1>4. PICK d \in Nat : d = r + WinSize - o
    BY <1>1
  <1>5. PICK c \in Nat, t \in Nat : t = d % W /\ t < W /\ d = W * c + t
    BY <1>2, Divided
  <1>6. PICK x \in Nat, y \in Nat : x = Plus(s, r) /\ y = Plus(s, o)
    BY <1>1, PlusAt
  <1>7. PICK z \in Int : z = x + WinSize - y
    BY <1>1
  <1>8. z = d \/ z = d + Mod \/ z = d - Mod
    <2>1. /\ (x = s + r /\ s + r < Mod) \/ (x = s + r - Mod /\ s + r >= Mod)
          /\ (y = s + o /\ s + o < Mod) \/ (y = s + o - Mod /\ s + o >= Mod)
          /\ s \in Nat
      BY <1>1, <1>6, PlusAt
    <2> QED
      BY <1>1, <1>4, <1>7, <2>1
  <1>9. PICK e \in Int : z = W * e + t
    <2>1. CASE z = d
      <3>1. PICK e \in Int : e = c
        BY <1>5
      <3>2. z = W * e + t
        BY <1>5, <2>1, <3>1
      <3> QED
        BY <3>2, Zenon
    <2>2. CASE z = d + Mod
      <3>1. PICK e \in Int : e = c + q
        BY <1>3, <1>5
      <3>2. z = W * e + t
        BY <1>2, <1>3, <1>5, <2>2, <3>1
      <3> QED
        BY <3>2, Zenon
    <2>3. CASE z = d - Mod
      <3>1. PICK e \in Int : e = c - q
        BY <1>3, <1>5
      <3>2. z = W * e + t
        BY <1>2, <1>3, <1>5, <2>3, <3>1
      <3> QED
        BY <3>2, Zenon
    <2> QED
      BY <1>8, <2>1, <2>2, <2>3
  <1>10. z % W = t
    <2>1. W > 0 /\ t < W
      BY <1>2, <1>5
    <2>2. z = W * e + t
      BY <1>9
    <2> QED
      BY <2>1, <2>2, SMTT(30)
  <1>11. t <= d
    <2>1. W * c >= 0 /\ W * c \in Nat
      BY <1>2
    <2> QED
      BY <1>5, <2>1
  <1>12. AckWin(Plus(s, r), Plus(s, o)) = t
    BY <1>2, <1>6, <1>7, <1>10 DEF AckWin
  <1> QED
    BY <1>1, <1>4, <1>11, <1>12

\* cavan_udp_win_receive keeps what has arrived, and what it is given has then arrived.
LEMMA ReceivedHolds ==
    ASSUME NEW w \in Windows, NEW m \in Datagrams, m.type \in {"DATA", "WIND"},
           NEW g, Short(g), RecvFlow(g, w), NEW M \in Nat, M <= g.r + WinSize,
           RecvBelow(g, M, w), NEW o \in Nat, Copy(g, o, m), o < M
    PROVE  /\ \A x : Arrived(g, w, x) => Arrived(g, Received(w, m), x)
           /\ Arrived(g, Received(w, m), o)
           /\ RecvBelow(g, M, Received(w, m))
           /\ Received(w, m).index = w.index
  <1>1. /\ g.start \in Seqs /\ g.n \in Nat /\ Mod \in Nat /\ WinSize \in Nat /\ WinSize > 1
        /\ 2 * (g.n + WinSize) + 1 < Mod /\ g.r \in Nat /\ g.r <= g.n
    BY WindowFits DEF Short
  <1>2. w.index = Plus(g.start, g.r) /\ m.seq = Plus(g.start, o) /\ o < g.n
    BY DEF RecvFlow, Copy
  <1>3. CASE Invalid(w.index, m.seq) \/ w.packs[Slot(m.seq)] # NULL
    <2>1. Received(w, m) = w
      BY <1>3 DEF Received
    <2>2. Arrived(g, w, o)
      <3>1. CASE o < g.r
        BY <3>1 DEF Arrived
      <3>2. CASE ~(o < g.r)
        <4>1. g.r <= o /\ o < g.r + WinSize /\ g.r + WinSize < Mod
          BY <1>1, <3>2
        <4>2. ~Invalid(w.index, m.seq)
          BY <1>1, <1>2, <4>1, NearIsValid
        <4> QED
          BY <1>2, <1>3, <4>1, <4>2 DEF Arrived
      <3> QED
        BY <3>1, <3>2
    <2> QED
      BY <2>1, <2>2
  <1>4. CASE ~(Invalid(w.index, m.seq) \/ w.packs[Slot(m.seq)] # NULL)
    <2> DEFINE p == [type |-> m.type, seq |-> m.seq, val |-> m.val, times |-> 0]
               packs == [w.packs EXCEPT ![Slot(m.seq)] = p]
               n == Max(Runs(w, packs))
               v == Received(w, m)
    <2>1. v = [w EXCEPT !.packs = packs, !.length = @ + n, !.ready = Plus(@, n),
                        !.full = @ \/ w.length + n = WinSize]
      BY <1>4, Zenon DEF Received
    <2>2. p # NULL
      <3>1. p \in Packs
        BY DEF Packs, Datagrams
      <3> QED
        BY <3>1, NullNoPack
    <2>3. Copy(g, o, p)
      BY DEF Copy
    <2>4. Slot(m.seq) \in Slots
      BY <1>1, <1>2, SlotType
    <2> HIDE DEF p
    <2>5. \A i \in Slots : packs[i] = IF i = Slot(m.seq) THEN p ELSE w.packs[i]
      BY DEF Windows
    <2> HIDE DEF packs, n, v
    <2>6. v.packs = packs /\ v.index = w.index
      BY <2>1 DEF Windows
    <2>7. \A i \in Slots : w.packs[i] # NULL => packs[i] # NULL
      BY <2>2, <2>5
    <2>8. g.r <= o /\ o < g.r + WinSize
      <3>1. g.r < Mod - WinSize /\ o < Mod - WinSize
        BY <1>1, <1>2
      <3>2. ~Invalid(Plus(g.start, g.r), Plus(g.start, o))
        BY <1>2, <1>4
      <3> QED
        BY <1>1, <3>1, <3>2, ValidIsNear
    <2>9. Arrived(g, v, o)
      BY <1>2, <2>2, <2>4, <2>5, <2>6, <2>8 DEF Arrived
    <2>10. ASSUME NEW x, Arrived(g, w, x) PROVE Arrived(g, v, x)
      <3>1. CASE x < g.r
        BY <3>1 DEF Arrived
      <3>2. CASE x < g.r + WinSize /\ w.packs[Slot(Plus(g.start, x))] # NULL
        <4>1. CASE Slot(Plus(g.start, x)) = Slot(m.seq)
          BY <2>2, <2>4, <2>5, <2>6, <3>2, <4>1 DEF Arrived
        <4>2. CASE Slot(Plus(g.start, x)) # Slot(m.seq)
          <5>1. packs[Slot(Plus(g.start, x))] = w.packs[Slot(Plus(g.start, x))]
            BY <4>2 DEF packs, Windows
          <5> QED
            BY <2>6, <3>2, <5>1 DEF Arrived
        <4> QED
          BY <4>1, <4>2
      <3> QED
        BY <2>10, <3>1, <3>2 DEF Arrived
    <2>11. RecvBelow(g, M, v)
      <3>1. Below(g, M, p)
        BY <2>3 DEF Below
      <3> QED
        BY <2>5, <2>6, <3>1 DEF RecvBelow
    <2> QED
      BY <2>6, <2>9, <2>10, <2>11 DEF v
  <1> QED
    BY <1>3, <1>4

\* cavan_udp_sock_receive at the Receiver: the acknowledgement is true.
LEMMA ReceiveNear ==
    ASSUME NEW w \in Windows, NEW m \in Datagrams, m.type \in {"DATA", "WIND"}, m.to = Receiver,
           NEW g, Short(g), RecvFlow(g, w), NEW b, NEW l, NEW N, Near(g, b, l, w, N), m \in N,
           NEW D, \A d \in D : d \in N \/ d = AckOf(Receiver, Received(w, m), m) \/ Aside(d)
    PROVE  Near(g, b, l, Received(w, m), D)
  <1> DEFINE v == Received(w, m)
             a == AckOf(Receiver, v, m)
  <1>1. PICK R \in Nat, M \in Nat : NearAt(g, b, R, M, l, w, N)
    BY DEF Near
  <1>2. /\ Placed(g, R, M, l) /\ Lag(g, R, M, l) /\ SendHolds(g, l.send, w)
        /\ RecvBelow(g, M, w) /\ NetBelow(g, M, N) /\ AcksTrue(g, w, N) /\ WindsTrue(g, b)
    BY <1>1 DEF NearAt
  <1>3. /\ g.start \in Seqs /\ g.n \in Nat /\ Mod \in Nat /\ WinSize \in Nat /\ WinSize > 1
        /\ 2 * (g.n + WinSize) + 1 < Mod /\ g.r \in Nat /\ g.r <= g.n /\ M <= g.r + WinSize
    BY <1>2, WindowFits DEF Short, Placed
  <1>4. PICK o \in Nat : Copy(g, o, m) /\ o < M
    BY <1>2 DEF NetBelow, Below
  <1>5. /\ \A x : Arrived(g, w, x) => Arrived(g, v, x)
        /\ Arrived(g, v, o) /\ RecvBelow(g, M, v) /\ v.index = w.index
    BY <1>2, <1>3, <1>4, ReceivedHolds
  <1> HIDE DEF v
  <1>6. o < g.n /\ m.seq = Plus(g.start, o) /\ v.index = Plus(g.start, g.r)
    BY <1>4, <1>5 DEF Copy, RecvFlow
  <1>7. a.seq = m.seq /\ a.val = AckWin(v.index, m.seq) /\ a.type = "ACK"
    BY DEF AckOf
  <1>8. AckTrue(g, v, a)
    <2>1. g.r + WinSize < Mod /\ o < g.r + WinSize
      BY <1>3, <1>4
    <2>2. a.val \in Nat /\ o + a.val <= g.r + WinSize
      BY <1>3, <1>6, <1>7, <2>1, AckWinIs
    <2> HIDE DEF a
    <2>3. PICK x \in Nat : x = o + a.val
      BY <2>2
    <2>4. Plus(a.seq, a.val) = Plus(g.start, x)
      <3>1. o + a.val < Mod
        BY <1>3, <2>1, <2>2
      <3> QED
        BY <1>3, <1>6, <1>7, <2>2, <2>3, <3>1, PlusSum
    <2> QED
      BY <1>5, <1>6, <1>7, <2>2, <2>3, <2>4 DEF AckTrue
  <1> HIDE DEF a
  <1>9. NetBelow(g, M, {a}) /\ AcksTrue(g, v, {a})
    BY <1>7, <1>8 DEF NetBelow, AcksTrue
  <1>10. AcksTrue(g, v, N)
    BY <1>2, <1>5 DEF AcksTrue, AckTrue
  <1>11. NetBelow(g, M, D) /\ AcksTrue(g, v, D)
    <2>1. \A d \in D : d \in N \/ d \in {a} \/ Aside(d)
      BY DEF a, v
    <2> QED
      BY <1>2, <1>9, <1>10, <2>1, NearNet
  <1>12. SendHolds(g, l.send, v)
    BY <1>2, <1>5 DEF SendHolds
  <1>13. NearAt(g, b, R, M, l, v, D)
    BY <1>2, <1>5, <1>11, <1>12 DEF NearAt
  <1> QED
    BY <1>13 DEF Near, v

\* cavan_udp_win_dequeue at the Receiver: the window moves on, and with it what a WIND pack
\* may tell.
LEMMA DequeueNear ==
    ASSUME NEW w \in Windows, InSequence(w), w.index # w.ready, NEW g \in Streams, Short(g),
           RecvFlow(g, w), NEW b \in Streams, NEW l, NEW N, Near(g, b, l, w, N),
           NEW v, v.packs = Popped(w).packs,
           NEW c, c = b \/ OneMore(b, "WIND", Plus(Popped(w).index, WinSize), c),
           NEW D, \A m \in D : m \in N \/ Aside(m)
    PROVE  Near(Further(g), c, l, v, D)
  <1> DEFINE k == Further(g)
             u == Popped(w)
             i == Slot(w.index)
  <1>1. PICK R \in Nat, M \in Nat : NearAt(g, b, R, M, l, w, N)
    BY DEF Near
  <1>2. /\ Placed(g, R, M, l) /\ Lag(g, R, M, l) /\ SendHolds(g, l.send, w)
        /\ RecvBelow(g, M, w) /\ NetBelow(g, M, N) /\ AcksTrue(g, w, N) /\ WindsTrue(g, b)
    BY <1>1 DEF NearAt
  <1>3. /\ g.start \in Seqs /\ g.n \in Nat /\ Mod \in Nat /\ WinSize \in Nat /\ WinSize > 1
        /\ 2 * (g.n + WinSize) + 1 < Mod /\ g.r \in Nat /\ g.r <= g.n /\ M <= g.r + WinSize
        /\ g.r <= M
    BY <1>2, WindowFits DEF Short, Placed, RecvBelow
  <1>4. Copy(g, g.r, w.packs[i]) /\ RecvFlow(k, u) /\ w.length > 0
    <2>1. g.n < Mod - WinSize
      BY <1>3
    <2> QED
      BY <1>3, <2>1, PoppedFlow
  <1>5. w.index = Plus(g.start, g.r) /\ i \in Slots /\ w.packs[i] # NULL
    <2>1. w.index = Plus(g.start, g.r)
      BY DEF RecvFlow
    <2>2. i \in Slots
      BY <1>3, <2>1, SlotType
    <2>3. Plus(w.index, 0) = w.index
      BY SlotType DEF Windows
    <2>4. w.packs[i] # NULL
      BY <1>4, <2>3 DEF RecvFlow
    <2> QED
      BY <2>1, <2>2, <2>4
  <1>6. g.r < M
    <2>1. PICK d \in Nat : Copy(g, d, w.packs[i]) /\ d < M
      BY <1>2, <1>5 DEF RecvBelow, Below
    <2>2. d = g.r
      <3>1. Plus(g.start, d) = Plus(g.start, g.r) /\ d < Mod /\ g.r < Mod
        BY <1>3, <1>4, <2>1 DEF Copy
      <3> QED
        BY <1>3, <3>1, PlusOnce
    <2> QED
      BY <2>1, <2>2
  <1>7. k.start = g.start /\ k.r = g.r + 1 /\ k.n = g.n /\ k.type = g.type /\ k.val = g.val
    BY DEF Further
  <1>8. \A j \in Slots : v.packs[j] = IF j = i THEN NULL ELSE w.packs[j]
    BY DEF Popped, Windows
  <1>9. u.index = Plus(k.start, k.r)
    BY <1>4 DEF RecvFlow
  <1> HIDE DEF k, u
  <1>10. ASSUME NEW o \in Nat, Arrived(g, w, o) PROVE Arrived(k, v, o)
    <2>1. CASE o < g.r + 1
      BY <1>7, <2>1 DEF Arrived
    <2>2. CASE ~(o < g.r + 1)
      <3>1. o < g.r + WinSize /\ w.packs[Slot(Plus(g.start, o))] # NULL /\ g.r < o
        BY <1>3, <1>10, <2>2 DEF Arrived
      <3>2. Slot(Plus(g.start, o)) # i
        <4> SUFFICES ASSUME Slot(Plus(g.start, o)) = i PROVE FALSE
          OBVIOUS
        <4>1. g.r < Mod /\ o < Mod /\ g.r <= o
          BY <1>3, <3>1
        <4>2. g.r = o
          BY <1>3, <1>5, <3>1, <4>1, SlotsApart
        <4> QED
          BY <1>3, <3>1, <4>2
      <3>3. Slot(Plus(g.start, o)) \in Slots
        BY <1>3, SlotType
      <3>4. v.packs[Slot(Plus(g.start, o))] # NULL
        BY <1>8, <3>1, <3>2, <3>3
      <3>5. o < k.r + WinSize
        BY <1>3, <1>7, <3>1
      <3> QED
        BY <1>7, <3>4, <3>5 DEF Arrived
    <2> QED
      BY <2>1, <2>2
  <1>11. \A o, p : Copy(g, o, p) <=> Copy(k, o, p)
    BY <1>7 DEF Copy
  <1>12. RecvBelow(k, M, v) /\ NetBelow(k, M, N)
    <2>1. \A p : Below(g, M, p) => Below(k, M, p)
      BY <1>11 DEF Below
    <2>2. k.r <= M
      BY <1>3, <1>6, <1>7
    <2> QED
      BY <1>2, <1>8, <2>1, <2>2 DEF RecvBelow, NetBelow
  <1>13. AcksTrue(k, v, N)
    <2>1. ASSUME NEW m, AckTrue(g, w, m) PROVE AckTrue(k, v, m)
      <3>1. PICK o \in Nat, x \in Nat :
               /\ o < g.n /\ Arrived(g, w, o) /\ m.seq = Plus(g.start, o)
               /\ x <= g.r + WinSize /\ Plus(m.seq, m.val) = Plus(g.start, x)
        BY <2>1 DEF AckTrue
      <3>2. x <= k.r + WinSize
        BY <1>3, <1>7, <3>1
      <3> QED
        BY <1>7, <1>10, <3>1, <3>2 DEF AckTrue
    <2> QED
      BY <1>2, <2>1 DEF AcksTrue
  <1>14. WindsTrue(k, c)
    <2>1. ASSUME NEW o \in Nat, o < b.n
          PROVE  \E x \in Nat : x <= k.r + WinSize /\ b.val[o] = Plus(k.start, x)
      <3>1. PICK x \in Nat : x <= g.r + WinSize /\ b.val[o] = Plus(g.start, x)
        BY <1>2, <2>1 DEF WindsTrue
      <3>2. x <= k.r + WinSize
        BY <1>3, <1>7, <3>1
      <3> QED
        BY <1>7, <3>1, <3>2
    <2>2. CASE c = b
      BY <2>1, <2>2 DEF WindsTrue
    <2>3. CASE OneMore(b, "WIND", Plus(u.index, WinSize), c)
      <3>1. PICK x \in Nat : x = g.r + 1 + WinSize
        BY <1>3
      <3>2. Plus(u.index, WinSize) = Plus(k.start, x)
        <4>1. k.r \in Nat /\ k.r + WinSize < Mod /\ k.r + WinSize = x
          BY <1>3, <1>7, <3>1
        <4> QED
          BY <1>3, <1>7, <1>9, <4>1, PlusSum
      <3>3. x <= k.r + WinSize
        BY <1>3, <1>7, <3>1
      <3>4. b.n \in Nat
        BY DEF Streams
      <3>5. /\ c.n = b.n + 1 /\ c.val[b.n] = Plus(k.start, x)
            /\ \A o \in Nat : o < b.n => c.val[o] = b.val[o]
        BY <2>3, <3>2 DEF OneMore
      <3>6. ASSUME NEW o \in Nat, o < c.n
            PROVE  \E y \in Nat : y <= k.r + WinSize /\ c.val[o] = Plus(k.start, y)
        <4>1. CASE o < b.n
          BY <2>1, <3>5, <4>1
        <4>2. CASE o = b.n
          BY <3>3, <3>5, <4>2
        <4> QED
          BY <3>4, <3>5, <3>6, <4>1, <4>2
      <3> QED
        BY <3>6 DEF WindsTrue
    <2> QED
      BY <2>2, <2>3 DEF u
  <1>15. First(k, l.send) = First(g, l.send)
    BY <1>7 DEF First
  <1>16. Placed(k, R, M, l)
    <2>1. M <= k.r + WinSize
      BY <1>3, <1>7
    <2> QED
      BY <1>2, <1>7, <1>15, <2>1 DEF Placed
  <1>17. Lag(k, R, M, l)
    BY <1>2, <1>7, <1>15 DEF Lag, Stuck
  <1>18. SendHolds(k, l.send, v)
    BY <1>2, <1>7, <1>10, <1>11, <1>15 DEF SendHolds
  <1>19. NetBelow(k, M, D) /\ AcksTrue(k, v, D)
    <2>1. NetBelow(k, M, {}) /\ AcksTrue(k, v, {})
      BY DEF NetBelow, AcksTrue
    <2> QED
      BY <1>12, <1>13, <2>1, NearNet
  <1>20. NearAt(k, c, R, M, l, v, D)
    BY <1>12, <1>14, <1>16, <1>17, <1>18, <1>19 DEF NearAt
  <1> QED
    BY <1>20 DEF Near, k

-----------------------------------------------------------------------------
(* The steps of the link.                                                   *)

LEMMA PeerIs ==
    ASSUME NEW e \in Ends
    PROVE  /\ Peer(e) \in Ends /\ Peer(e) # e /\ Peer(Peer(e)) = e
           /\ \A d \in Ends : d = e \/ d = Peer(e)
  BY UdpAssumption DEF Ends, Peer

\* The streams end before the numbers have come round: every WIND pack takes two packs to
\* be dequeued on the other side.
LEMMA StreamsShort ==
    ASSUME NEW h \in [Ends -> Streams], \A e \in Ends : Flow(h, e, link, net),
           Tally(h, sent, got), LinkTypes
    PROVE  /\ \A e \in Ends : h[e].n < Mod - WinSize - 1 /\ h[e].r <= h[e].n
           /\ 2 * (h[Sender].n + WinSize) + 3 < Mod
  <1> DEFINE g == h[Sender]
             b == h[Receiver]
  <1>1. Sender \in Ends /\ Receiver \in Ends /\ Peer(Sender) = Receiver /\ Peer(Receiver) = Sender
    BY UdpAssumption DEF Ends, Peer
  <1>2. g \in Streams /\ b \in Streams
    BY <1>1
  <1>3. /\ g.n \in Nat /\ g.r \in Nat /\ g.cnt[g.n] \in Nat
        /\ b.n \in Nat /\ b.r \in Nat /\ b.cnt[b.n] \in Nat
    BY <1>2 DEF Streams
  <1>4. g.r <= g.n /\ b.r <= b.n
    BY <1>1 DEF Flow, Numbered
  <1>5. 2 * (b.n - b.cnt[b.n]) <= g.r /\ 2 * (g.n - g.cnt[g.n]) <= b.r
    BY <1>1 DEF Flow, Paced, Winds
  <1>6. g.cnt[g.n] = sent /\ b.cnt[b.n] = 0 /\ sent \in 0..MaxMessages
    BY DEF Tally, LinkTypes
  <1> HIDE DEF g, b
  <1>7. /\ g.n < Mod - WinSize - 1 /\ b.n < Mod - WinSize - 1
        /\ 2 * (g.n + WinSize) + 3 < Mod
    BY <1>3, <1>4, <1>5, <1>6, WindowFits
  <1> QED
    BY <1>4, <1>7 DEF Ends, g, b

\* What the lemmas on the Sender's window start from.
LEMMA SenderFacts ==
    ASSUME NEW h \in [Ends -> Streams], \A e \in Ends : Flow(h, e, link, net),
           Tally(h, sent, got), LinkInv
    PROVE  /\ link[Sender] \in Links /\ link[Receiver] \in Links
           /\ HeadThere(link[Sender].send) /\ InSequence(link[Receiver].recv)
           /\ link[Receiver].recv \in Windows
           /\ h[Sender] \in Streams /\ h[Receiver] \in Streams
           /\ Short(h[Sender]) /\ 2 * (h[Sender].n + WinSize) + 3 < Mod
           /\ SendFlow(h[Sender], link[Sender].send)
           /\ RecvFlow(h[Sender], link[Receiver].recv)
           /\ Sender \in Ends /\ Receiver \in Ends /\ Sender # Receiver
           /\ Peer(Sender) = Receiver /\ Peer(Receiver) = Sender
  <1>1. /\ Sender \in Ends /\ Receiver \in Ends /\ Peer(Sender) = Receiver
        /\ Peer(Receiver) = Sender /\ Sender # Receiver
    BY UdpAssumption DEF Ends, Peer
  <1>2. /\ link[Sender] \in Links /\ link[Receiver] \in Links /\ LinkTypes
        /\ HeadThere(link[Sender].send) /\ InSequence(link[Receiver].recv)
    BY <1>1 DEF LinkInv, LinkTypes, SendHeads, RecvInSequence
  <1>3. link[Receiver].recv \in Windows
    BY <1>2 DEF Links
  <1>4. h[Sender] \in Streams /\ h[Receiver] \in Streams
    BY <1>1
  <1>5. 2 * (h[Sender].n + WinSize) + 3 < Mod /\ h[Sender].r <= h[Sender].n
    BY <1>1, <1>2, StreamsShort
  <1>6. Short(h[Sender])
    <2>1. h[Sender].start \in Seqs /\ h[Sender].n \in Nat /\ h[Sender].r \in Nat
      BY <1>4 DEF Streams
    <2>2. 2 * (h[Sender].n + WinSize) + 1 < Mod
      BY <1>5, <2>1, WindowFits
    <2> QED
      BY <1>5, <2>1, <2>2 DEF Short
  <1>7. SendFlow(h[Sender], link[Sender].send) /\ RecvFlow(h[Sender], link[Receiver].recv)
    BY <1>1 DEF Flow
  <1> QED
    BY <1>1, <1>2, <1>3, <1>4, <1>5, <1>6, <1>7

\* A stream that is short stays so with one more pack.
LEMMA ShortLonger ==
    ASSUME NEW g \in Streams, Short(g), 2 * (g.n + WinSize) + 3 < Mod,
           NEW t \in {"DATA", "WIND"}, NEW v \in Nat
    PROVE  Short(Longer(g, t, v))
  <1> DEFINE k == Longer(g, t, v)
  <1>1. OneMore(g, t, v, k)
    BY LongerIs
  <1> HIDE DEF k
  <1>2. k.start = g.start /\ k.n = g.n + 1 /\ k.r = g.r
    BY <1>1 DEF OneMore
  <1> QED
    BY <1>2, WindowFits DEF Short, k

\* What has been sent comes from the network or the sender of the datagrams.
LEMMA SentNet ==
    ASSUME NEW base, base \subseteq net, NEW D, Transmit(base, D)
    PROVE  \A m \in net' : m \in net \/ m \in D
  BY DEF Transmit

\* The packs the Receiver sends are WIND packs for the Sender.
LEMMA FlushAside ==
    ASSUME NEW l \in Links
    PROVE  \A m \in FlushDatagrams(Receiver, l) : Aside(m)
  <1>1. ASSUME NEW i \in Flushed(l) PROVE Aside(Datagram(Receiver, l.send.packs[i]))
    <2>1. l.send.packs[i] \in Packs
      BY <1>1 DEF Flushed, Links, Windows
    <2> QED
      BY <2>1, UdpAssumption DEF Datagram, Peer, Packs, Aside
  <1> QED
    BY <1>1 DEF FlushDatagrams

\* A step that leaves alone what Near looks at.
LEMMA WithinSame ==
    ASSUME NEW h \in [Ends -> Streams], \A d \in Ends : Flow(h, d, link, net),
           Tally(h, sent, got), LinkInv, Within(h, link, net, overrun, setback),
           overrun => overrun', setback => setback',
           NEW e \in Ends, NEW l, link' = [link EXCEPT ![e] = l],
           e = Sender => /\ l.send.length = link[e].send.length
                         /\ l.send.packs = link[e].send.packs
                         /\ l.send.ready = link[e].send.ready
                         /\ l.sequence = link[e].sequence /\ l.cwnd = link[e].cwnd,
           e = Receiver => l.recv.packs = link[e].recv.packs,
           \A m \in net' : m \in net \/ Aside(m)
    PROVE  Within(h, link', net', overrun', setback')
  <1>1. /\ Sender \in Ends /\ Receiver \in Ends /\ Sender # Receiver
        /\ Short(h[Sender])
    BY SenderFacts
  <1>2. /\ link'[Sender] = IF e = Sender THEN l ELSE link[Sender]
        /\ link'[Receiver] = IF e = Receiver THEN l ELSE link[Receiver]
    BY <1>1 DEF LinkInv, LinkTypes
  <1>3. ASSUME Near(h[Sender], h[Receiver], link[Sender], link[Receiver].recv, net)
        PROVE  Near(h[Sender], h[Receiver], link'[Sender], link'[Receiver].recv, net')
    <2>1. h[Sender].start \in Seqs
      BY <1>1 DEF Short
    <2>2. link'[Receiver].recv.packs = link[Receiver].recv.packs
      BY <1>2
    <2>3. /\ link'[Sender].send.length = link[Sender].send.length
          /\ link'[Sender].send.packs = link[Sender].send.packs
          /\ link'[Sender].send.ready = link[Sender].send.ready
          /\ link'[Sender].sequence = link[Sender].sequence
          /\ link'[Sender].cwnd = link[Sender].cwnd
      BY <1>2
    <2> QED
      BY <1>3, <2>1, <2>2, <2>3, NearSame
  <1> QED
    BY <1>3 DEF Within

\* cavan_udp_sock_send.
LEMMA SendWithin ==
    ASSUME NEW h \in [Ends -> Streams], \A d \in Ends : Flow(h, d, link, net),
           Tally(h, sent, got), LinkInv, Within(h, link, net, overrun, setback),
           cavan_udp_sock_send,
           NEW k, k[Sender] = Longer(h[Sender], "DATA", sent + 1), k[Receiver] = h[Receiver]
    PROVE  Within(k, link', net', overrun', setback')
  <1> DEFINE l == Enqueued(link[Sender], "DATA", sent + 1)
             g == h[Sender]
  <1>1. /\ link[Sender] \in Links /\ link[Receiver] \in Links /\ g \in Streams
        /\ Short(g) /\ 2 * (g.n + WinSize) + 3 < Mod
        /\ SendFlow(g, link[Sender].send) /\ RecvFlow(g, link[Receiver].recv)
        /\ Sender \in Ends /\ Receiver \in Ends /\ Sender # Receiver
    BY SenderFacts
  <1>2. /\ link[Sender].send.length < WinSize /\ sent < MaxMessages
        /\ link' = [link EXCEPT ![Sender] = AfterFlush(l)]
        /\ Transmit(net, FlushDatagrams(Sender, l))
        /\ UNCHANGED <<overrun, setback>>
    BY Zenon DEF cavan_udp_sock_send
  <1>3. sent + 1 \in Seqs /\ sent + 1 \in Nat
    BY <1>2, WindowFits DEF LinkInv, LinkTypes, Seqs
  <1>4. link'[Sender] = AfterFlush(l) /\ link'[Receiver] = link[Receiver]
    BY <1>1, <1>2 DEF LinkInv, LinkTypes
  <1>5. Short(Longer(g, "DATA", sent + 1))
    BY <1>1, <1>3, ShortLonger
  <1>6. \A m \in net' : m \in net \/ m \in FlushDatagrams(Sender, l) \/ Aside(m)
    BY <1>2, SentNet
  <1>7. ASSUME Near(g, h[Receiver], link[Sender], link[Receiver].recv, net)
        PROVE  Near(Longer(g, "DATA", sent + 1), h[Receiver], AfterFlush(l), link[Receiver].recv, net')
    BY <1>1, <1>2, <1>3, <1>5, <1>6, <1>7, EnqueueNear
  <1> QED
    BY <1>2, <1>4, <1>7 DEF Within

\* SendBlocks and cavan_udp_sock_send_loop.
LEMMA LoopWithin ==
    ASSUME NEW h \in [Ends -> Streams], \A d \in Ends : Flow(h, d, link, net),
           Tally(h, sent, got), LinkInv, Within(h, link, net, overrun, setback),
           NEW e \in Ends, SendLoop(e) \/ (e = Sender /\ SendBlocks)
    PROVE  Within(h, link', net', overrun', setback')
  <1>1. /\ link[Sender] \in Links /\ link[Receiver] \in Links /\ HeadThere(link[Sender].send)
        /\ h[Sender] \in Streams /\ Short(h[Sender])
        /\ SendFlow(h[Sender], link[Sender].send) /\ RecvFlow(h[Sender], link[Receiver].recv)
        /\ Sender \in Ends /\ Receiver \in Ends /\ Sender # Receiver
        /\ Peer(Sender) = Receiver /\ Peer(Receiver) = Sender
    BY SenderFacts
  <1>2. link[e] \in Links /\ link \in [Ends -> Links]
    BY DEF LinkInv, LinkTypes
  <1>3. ASSUME NEW l, link' = [link EXCEPT ![e] = l], l.recv = link[e].recv,
               l.send.length = link[e].send.length, l.send.packs = link[e].send.packs,
               l.send.ready = link[e].send.ready, l.sequence = link[e].sequence,
               l.cwnd = link[e].cwnd, UNCHANGED <<net, overrun, setback>>
        PROVE  Within(h, link', net', overrun', setback')
    BY <1>3, WithinSame
  <1>4. CASE SendLoopTake(e)
    <2> DEFINE l == [link[e] EXCEPT !.listed = FALSE, !.taken = TRUE]
    <2>1. link' = [link EXCEPT ![e] = l] /\ UNCHANGED <<net, overrun, setback>>
      BY <1>2, <1>4 DEF SendLoopTake
    <2>2. /\ l.recv = link[e].recv /\ l.send = link[e].send /\ l.sequence = link[e].sequence
          /\ l.cwnd = link[e].cwnd
      BY <1>2 DEF Links
    <2> HIDE DEF l
    <2> QED
      BY <1>3, <2>1, <2>2
  <1>5. CASE ResendNothing(e)
    <2> DEFINE l == [link[e] EXCEPT !.taken = FALSE]
    <2>1. link' = [link EXCEPT ![e] = l] /\ UNCHANGED <<net, overrun, setback>>
      BY <1>2, <1>5 DEF ResendNothing
    <2>2. /\ l.recv = link[e].recv /\ l.send = link[e].send /\ l.sequence = link[e].sequence
          /\ l.cwnd = link[e].cwnd
      BY <1>2 DEF Links
    <2> HIDE DEF l
    <2> QED
      BY <1>3, <2>1, <2>2
  <1>6. CASE GiveUp(e)
    <2> DEFINE l == [link[e] EXCEPT !.freed = TRUE]
    <2>1. link' = [link EXCEPT ![e] = l] /\ UNCHANGED <<net, overrun, setback>>
      BY <1>2, <1>6 DEF GiveUp
    <2>2. /\ l.recv = link[e].recv /\ l.send = link[e].send /\ l.sequence = link[e].sequence
          /\ l.cwnd = link[e].cwnd
      BY <1>2 DEF Links
    <2> HIDE DEF l
    <2> QED
      BY <1>3, <2>1, <2>2
  <1>7. CASE e = Sender /\ SendBlocks
    <2> DEFINE l == [link[e] EXCEPT !.send = [link[e].send EXCEPT !.full = TRUE]]
    <2>1. link' = [link EXCEPT ![e] = l] /\ UNCHANGED <<net, overrun, setback>>
      BY <1>2, <1>7 DEF SendBlocks
    <2>2. /\ l.recv = link[e].recv /\ l.send.length = link[e].send.length
          /\ l.send.packs = link[e].send.packs /\ l.send.ready = link[e].send.ready
          /\ l.sequence = link[e].sequence /\ l.cwnd = link[e].cwnd
      BY <1>2 DEF Links, Windows
    <2> HIDE DEF l
    <2> QED
      BY <1>3, <2>1, <2>2
  <1>8. CASE Resend(e)
    <2> DEFINE p == Datagram(e, link[e].send.packs[Slot(link[e].send.index)])
    <2>1. /\ link' = [link EXCEPT ![e] = Resent(link[e])] /\ Transmit(net, {p})
          /\ link[e].send.length > 0 /\ UNCHANGED setback
          /\ overrun' = (overrun \/ (e = Sender /\ PastLimit(link[e])))
      BY <1>8, Zenon DEF Resend, HeadCounts
    <2>2. \A m \in net' : m \in net \/ m = p
      <3> HIDE DEF p
      <3>1. \A m \in net' : m \in net \/ m \in {p}
        BY <2>1, SentNet
      <3> QED
        BY <3>1
    <2>3. CASE e = Sender
      <3>1. link'[Sender] = Resent(link[Sender]) /\ link'[Receiver] = link[Receiver]
        BY <1>1, <1>2, <2>1, <2>3
      <3>2. ASSUME Near(h[Sender], h[Receiver], link[Sender], link[Receiver].recv, net),
                   ~PastLimit(link[Sender])
            PROVE  Near(h[Sender], h[Receiver], Resent(link[Sender]), link[Receiver].recv, net')
        <4>1. \A m \in net' : \/ m \in net
                              \/ m = Datagram(Sender, link[Sender].send.packs[Slot(link[Sender].send.index)])
          BY <2>2, <2>3
        <4> QED
          BY <1>1, <2>1, <2>3, <3>2, <4>1, ResendNear
      <3> QED
        BY <2>1, <2>3, <3>1, <3>2 DEF Within
    <2>4. CASE e = Receiver
      <3>1. HeadThere(link[e].send)
        BY DEF LinkInv, SendHeads
      <3>2. Resent(link[e]).recv = link[e].recv
        BY <1>2, <2>1, <3>1, ResentType
      <3>3. Aside(p)
        <4>1. p \in Datagrams /\ p.to = Sender
          BY <1>1, <1>2, <2>1, <2>4, <3>1, ResentType DEF Datagram
        <4>2. p.type = link[e].send.packs[Slot(link[e].send.index)].type
          BY DEF Datagram
        <4>3. link[e].send.packs[Slot(link[e].send.index)] \in Packs
          <5>1. link[e].send.index \in Seqs
            BY <1>2 DEF Links, Windows
          <5>2. Slot(link[e].send.index) \in Slots
            BY <5>1, SlotType
          <5> QED
            BY <1>2, <2>1, <3>1, <5>2 DEF HeadThere, Links, Windows
        <4>4. p.type \in {"DATA", "WIND"}
          BY <4>2, <4>3 DEF Packs
        <4> HIDE DEF p
        <4> QED
          BY <4>1, <4>4, Zenon DEF Aside
      <3> HIDE DEF p
      <3>4. \A m \in net' : m \in net \/ Aside(m)
        BY <2>2, <3>3
      <3> QED
        BY <1>1, <2>1, <2>4, <3>2, <3>4, WithinSame
    <2> QED
      BY <2>3, <2>4 DEF Ends
  <1> QED
    BY <1>4, <1>5, <1>6, <1>7, <1>8 DEF SendLoop

\* cavan_udp_sock_recv_loop.
LEMMA DeliverWithin ==
    ASSUME NEW h \in [Ends -> Streams], \A d \in Ends : Flow(h, d, link, net),
           Tally(h, sent, got), LinkInv, Within(h, link, net, overrun, setback),
           NEW m \in net, Deliver(m)
    PROVE  Within(h, link', net', overrun', setback')
  <1> DEFINE e == m.to
             g == h[Sender]
             b == h[Receiver]
             w == link[Receiver].recv
  <1>1. /\ link[Sender] \in Links /\ link[Receiver] \in Links
        /\ w \in Windows /\ InSequence(w)
        /\ g \in Streams /\ b \in Streams /\ Short(g)
        /\ SendFlow(g, link[Sender].send) /\ RecvFlow(g, w)
        /\ Sender \in Ends /\ Receiver \in Ends /\ Sender # Receiver
        /\ Peer(Sender) = Receiver /\ Peer(Receiver) = Sender
    BY SenderFacts
  <1>2. link \in [Ends -> Links] /\ m \in Datagrams /\ e \in Ends /\ link[e] \in Links
    BY DEF LinkInv, LinkTypes, Datagrams
  <1>3. e = m.to /\ \A base \in Rest(m) : base \subseteq net
    BY DEF Rest
  <1> HIDE DEF e
  <1>4. ASSUME NEW u PROVE Aside(AckOf(Sender, u, m))
    BY <1>1 DEF AckOf, Aside
  <1>5. CASE RecvData(e, m)
    <2> DEFINE u == Received(link[e].recv, m)
               l == [link[e] EXCEPT !.recv = u]
    <2>1. PICK base \in Rest(m) :
             /\ link' = [link EXCEPT ![e].recv = u] /\ Transmit(base, {AckOf(e, u, m)})
             /\ UNCHANGED <<overrun, setback>> /\ m.type = "DATA"
      BY <1>5, Zenon DEF RecvData
    <2> HIDE DEF u
    <2>2. link' = [link EXCEPT ![e] = l]
      BY <2>1
    <2>3. /\ l.recv = u /\ l.send = link[e].send /\ l.sequence = link[e].sequence
          /\ l.cwnd = link[e].cwnd
      BY <1>2 DEF Links
    <2> HIDE DEF l
    <2>4. \A d \in net' : d \in net \/ d = AckOf(e, u, m)
      <3>1. \A d \in net' : d \in net \/ d \in {AckOf(e, u, m)}
        BY <1>3, <2>1, SentNet
      <3> QED
        BY <3>1
    <2>5. CASE e = Sender
      <3>1. \A d \in net' : d \in net \/ Aside(d)
        BY <1>4, <2>4, <2>5
      <3> QED
        BY <1>1, <2>1, <2>2, <2>3, <2>5, <3>1, WithinSame
    <2>6. CASE e = Receiver
      <3>1. link'[Sender] = link[Sender] /\ link'[Receiver].recv = u
        BY <1>1, <1>2, <2>2, <2>3, <2>6
      <3>2. u = Received(w, m)
        BY <2>6 DEF u
      <3>3. ASSUME Near(g, b, link[Sender], w, net)
            PROVE  Near(g, b, link[Sender], Received(w, m), net')
        <4>1. \A d \in net' : d \in net \/ d = AckOf(Receiver, Received(w, m), m) \/ Aside(d)
          BY <2>4, <2>6, <3>2
        <4> HIDE DEF g, b, w
        <4> QED
          BY <1>1, <1>2, <1>3, <2>1, <2>6, <3>3, <4>1, ReceiveNear
      <3> QED
        BY <2>1, <3>1, <3>2, <3>3 DEF Within
    <2> QED
      BY <1>2, <2>5, <2>6 DEF Ends
  <1>6. CASE RecvWind(e, m)
    <2> DEFINE u == Received(link[e].recv, m)
               l == [link[e] EXCEPT !.recv = u, !.sequence = SetSequence(@, m.val)]
               grown == l.sequence # link[e].sequence
               r == IF grown THEN AfterFlush(l) ELSE l
               F == IF grown THEN FlushDatagrams(e, l) ELSE {}
    <2>1. PICK base \in Rest(m) :
             /\ link' = [link EXCEPT ![e] = r] /\ Transmit(base, {AckOf(e, u, m)} \cup F)
             /\ setback' = (setback \/ SetBack(e, l.sequence)) /\ UNCHANGED overrun
             /\ m.type = "WIND"
      BY <1>6, Zenon DEF RecvWind
    <2>2. link[e].recv \in Windows /\ InSequence(link[e].recv)
      BY <1>2 DEF Links, LinkInv, RecvInSequence
    <2>3. u \in Windows
      BY <1>2, <2>1, <2>2, ReceivedType
    <2>4. /\ l \in Links /\ l.recv = u /\ l.send = link[e].send
          /\ l.sequence = SetSequence(link[e].sequence, m.val) /\ l.cwnd = link[e].cwnd
      <3>1. SetSequence(link[e].sequence, m.val) \in Seqs
        BY <1>2 DEF SetSequence, Links, Datagrams
      <3> HIDE DEF u
      <3> QED
        BY <1>2, <2>3, <3>1 DEF Links
    <2> HIDE DEF u, l, grown
    <2>5. \A d \in net' : d \in net \/ d = AckOf(e, u, m) \/ d \in F
      <3> HIDE DEF F
      <3>1. \A d \in net' : d \in net \/ d \in {AckOf(e, u, m)} \cup F
        BY <1>3, <2>1, SentNet
      <3> QED
        BY <3>1
    <2>6. CASE e = Sender /\ ~grown
      <3>1. r = l /\ F = {} /\ l.sequence = link[e].sequence
        BY <2>6 DEF grown
      <3>2. \A d \in net' : d \in net \/ Aside(d)
        BY <1>4, <2>5, <2>6, <3>1
      <3>3. link' = [link EXCEPT ![e] = l]
        BY <2>1, <3>1
      <3> HIDE DEF r, F
      <3> QED
        BY <1>1, <2>1, <2>4, <2>6, <3>1, <3>2, <3>3, WithinSame
    <2>7. CASE e = Sender /\ grown
      <3>1. r = AfterFlush(l) /\ F = FlushDatagrams(Sender, l)
        BY <2>7
      <3>2. link'[Sender] = AfterFlush(l) /\ link'[Receiver] = link[Receiver]
        BY <1>1, <1>2, <2>1, <2>7, <3>1
      <3>3. ASSUME Near(g, b, link[Sender], w, net), ~SetBack(e, l.sequence)
            PROVE  Near(g, b, AfterFlush(l), w, net')
        <4>1. PICK o \in Nat : Copy(b, o, m)
          BY <1>1, <1>3, <2>1, <2>7 DEF Flow, NetFlow
        <4>2. WindsTrue(g, b)
          BY <3>3 DEF Near, NearAt
        <4> HIDE DEF g, b, w
        <4>3. PICK x \in Nat : x <= g.r + WinSize /\ m.val = Plus(g.start, x)
          BY <4>1, <4>2 DEF WindsTrue, Copy
        <4>4. l.sequence = SetSequence(link[Sender].sequence, Plus(g.start, x))
          BY <2>4, <2>7, <4>3
        <4>5. ~((l.sequence - link[Sender].sequence) % Mod > Mod \div 2)
          BY <2>7, <3>3 DEF SetBack
        <4>6. \A d \in net' : d \in net \/ d \in FlushDatagrams(Sender, l) \/ Aside(d)
          BY <1>4, <2>5, <2>7, <3>1
        <4>7. l.send = link[Sender].send /\ l.cwnd = link[Sender].cwnd /\ l \in Links
          BY <2>4, <2>7
        <4> QED
          BY <1>1, <3>3, <4>3, <4>4, <4>5, <4>6, <4>7, WindNear
      <3> QED
        BY <2>1, <3>2, <3>3 DEF Within
    <2>8. CASE e = Receiver
      <3>1. r.recv = u
        BY <2>4, FlushKeeps
      <3>2. link'[Sender] = link[Sender] /\ link'[Receiver].recv = u
        BY <1>1, <1>2, <2>1, <2>8, <3>1
      <3>3. u = Received(w, m)
        BY <2>8 DEF u
      <3>4. \A d \in F : Aside(d)
        BY <2>4, <2>8, FlushAside
      <3> HIDE DEF r, F
      <3>5. ASSUME Near(g, b, link[Sender], w, net)
            PROVE  Near(g, b, link[Sender], Received(w, m), net')
        <4>1. \A d \in net' : d \in net \/ d = AckOf(Receiver, Received(w, m), m) \/ Aside(d)
          BY <2>5, <2>8, <3>3, <3>4
        <4> HIDE DEF g, b, w
        <4> QED
          BY <1>1, <1>2, <1>3, <2>1, <2>8, <3>5, <4>1, ReceiveNear
      <3> QED
        BY <2>1, <3>2, <3>3, <3>5 DEF Within
    <2> QED
      BY <1>2, <2>6, <2>7, <2>8 DEF Ends
  <1>7. CASE RecvAck(e, m)
    <2> DEFINE l == Acked(link[e], m)
    <2>1. /\ link' = [link EXCEPT ![e] = l] /\ net' \in Rest(m) /\ m.type = "ACK"
          /\ setback' = (setback \/ SetBack(e, l.sequence)) /\ UNCHANGED overrun
      BY <1>7, Zenon DEF RecvAck
    <2>2. net' \subseteq net
      BY <1>3, <2>1
    <2>3. CASE e = Sender
      <3>1. link'[Sender] = l /\ link'[Receiver] = link[Receiver]
        BY <1>1, <1>2, <2>1, <2>3
      <3>2. ASSUME Near(g, b, link[Sender], w, net), ~SetBack(e, l.sequence)
            PROVE  Near(g, b, Acked(link[Sender], m), w, net')
        <4>1. ~((Acked(link[Sender], m).sequence - link[Sender].sequence) % Mod > Mod \div 2)
          BY <2>3, <3>2 DEF SetBack
        <4> HIDE DEF g, b, w
        <4> QED
          BY <1>1, <1>3, <2>1, <2>2, <2>3, <3>2, <4>1, AckNear
      <3>3. l = Acked(link[Sender], m)
        BY <2>3
      <3> HIDE DEF l
      <3> QED
        BY <2>1, <3>1, <3>2, <3>3 DEF Within
    <2>4. CASE e = Receiver
      <3>1. l.recv = link[e].recv
        BY <1>2, AckedType
      <3> HIDE DEF l
      <3> QED
        BY <1>1, <2>1, <2>2, <2>4, <3>1, WithinSame
    <2> QED
      BY <1>2, <2>3, <2>4 DEF Ends
  <1>8. CASE RecvOrphan(e, m)
    <2> DEFINE err == [to |-> Peer(e), type |-> "ERROR", seq |-> 0, val |-> 0]
    <2>1. PICK base \in Rest(m) : /\ link' = link /\ Transmit(base, {err})
                                  /\ UNCHANGED <<overrun, setback>>
      BY <1>8 DEF RecvOrphan
    <2>2. Aside(err)
      BY DEF Aside
    <2> HIDE DEF err
    <2>3. \A d \in net' : d \in net \/ Aside(d)
      <3>1. \A d \in net' : d \in net \/ d \in {err}
        BY <1>3, <2>1, SentNet
      <3> QED
        BY <2>2, <3>1
    <2>4. link' = [link EXCEPT ![e] = link[e]]
      BY <1>2, <2>1
    <2> QED
      BY <1>2, <2>1, <2>3, <2>4, WithinSame
  <1>9. CASE RecvError(e, m)
    <2> DEFINE l == [link[e] EXCEPT !.freed = TRUE]
    <2>1. /\ link' = [link EXCEPT ![e] = l] /\ net' \in Rest(m)
          /\ UNCHANGED <<overrun, setback>>
      BY <1>9 DEF RecvError
    <2>2. /\ l.recv = link[e].recv /\ l.send = link[e].send /\ l.sequence = link[e].sequence
          /\ l.cwnd = link[e].cwnd
      BY <1>2 DEF Links
    <2> HIDE DEF l
    <2>3. \A d \in net' : d \in net \/ Aside(d)
      BY <1>3, <2>1
    <2> QED
      BY <1>2, <2>1, <2>2, <2>3, WithinSame
  <1> QED
    BY <1>5, <1>6, <1>7, <1>8, <1>9 DEF Deliver, e

\* cavan_udp_sock_recv.
LEMMA RecvWithin ==
    ASSUME NEW h \in [Ends -> Streams], \A d \in Ends : Flow(h, d, link, net),
           Tally(h, sent, got), LinkInv, Within(h, link, net, overrun, setback),
           NEW e \in Ends, cavan_udp_sock_recv(e), NEW w, w = Popped(link[e].recv),
           NEW tell, tell = (w.full /\ w.length < WinSize \div 2 /\ link[e].send.length < WinSize),
           NEW k, k[Peer(e)] = Further(h[Peer(e)]),
           k[e] = IF tell THEN Longer(h[e], "WIND", Plus(w.index, WinSize)) ELSE h[e]
    PROVE  Within(k, link', net', overrun', setback')
  <1> DEFINE g == h[Sender]
             b == h[Receiver]
             v == Plus(w.index, WinSize)
             a == [link[e] EXCEPT !.recv = [w EXCEPT !.full = FALSE]]
             quiet == [link[e] EXCEPT !.recv = w]
             l == IF tell THEN Enqueued(a, "WIND", v) ELSE quiet
             r == IF tell THEN AfterFlush(l) ELSE l
             D == IF tell THEN FlushDatagrams(e, l) ELSE {}
  <1>1. /\ link[Sender] \in Links /\ link[Receiver] \in Links
        /\ link[Receiver].recv \in Windows /\ InSequence(link[Receiver].recv)
        /\ g \in Streams /\ b \in Streams /\ Short(g) /\ 2 * (g.n + WinSize) + 3 < Mod
        /\ SendFlow(g, link[Sender].send) /\ RecvFlow(g, link[Receiver].recv)
        /\ Sender \in Ends /\ Receiver \in Ends /\ Sender # Receiver
        /\ Peer(Sender) = Receiver /\ Peer(Receiver) = Sender
    BY SenderFacts
  <1>2. link \in [Ends -> Links] /\ link[e] \in Links /\ link[e].recv \in Windows
        /\ InSequence(link[e].recv)
    BY DEF LinkInv, LinkTypes, Links, RecvInSequence
  <1>3. /\ link' = [link EXCEPT ![e] = r] /\ Transmit(net, D)
        /\ link[e].recv.index # link[e].recv.ready
        /\ UNCHANGED <<overrun, setback>>
    BY Zenon DEF cavan_udp_sock_recv, Dequeue
  <1>4. w \in Windows
    BY <1>2, <1>3, PoppedType
  <1>5. v \in Seqs /\ v \in Nat
    <2>1. w.index \in Nat
      BY <1>4 DEF Windows, Seqs
    <2>2. v \in Seqs
      BY <2>1, WindowFits, PlusType
    <2> QED
      BY <2>2 DEF Seqs
  <1>6. /\ a \in Links /\ a.send = link[e].send /\ a.sequence = link[e].sequence
        /\ a.cwnd = link[e].cwnd /\ a.recv.packs = w.packs
        /\ quiet \in Links /\ quiet.send = link[e].send /\ quiet.sequence = link[e].sequence
        /\ quiet.cwnd = link[e].cwnd /\ quiet.recv = w
    <2>1. [w EXCEPT !.full = FALSE] \in Windows /\ [w EXCEPT !.full = FALSE].packs = w.packs
      BY <1>4 DEF Windows
    <2> QED
      BY <1>2, <1>4, <2>1 DEF Links
  <1>7. \A m \in net' : m \in net \/ m \in D
    <2> HIDE DEF D
    <2> QED
      BY <1>3, SentNet
  <1>8. tell => l = Enqueued(a, "WIND", v) /\ l \in Links /\ l.recv = a.recv
    BY <1>5, <1>6, EnqueueType
  <1> HIDE DEF v, a, quiet
  <1>9. link'[e] = r /\ link'[Peer(e)] = link[Peer(e)]
    <2> HIDE DEF r
    <2> QED
      BY <1>2, <1>3, PeerIs
  <1>10. CASE e = Sender
    <2>1. ASSUME Near(g, b, link[Sender], link[Receiver].recv, net)
          PROVE  Near(k[Sender], k[Receiver], r, link[Receiver].recv, net')
      <3>1. k[Receiver].n = b.n /\ k[Receiver].val = b.val
        BY <1>1, <1>10 DEF Further
      <3>2. g.start \in Seqs
        BY <1>1 DEF Short
      <3>3. CASE tell
        <4>1. k[Sender] = Longer(g, "WIND", v)
          BY <1>10, <3>3 DEF v
        <4>2. Short(Longer(g, "WIND", v))
          BY <1>1, <1>5, ShortLonger
        <4>3. a.send.length < WinSize
          BY <1>6, <3>3
        <4>4. r = AfterFlush(Enqueued(a, "WIND", v)) /\ D = FlushDatagrams(Sender, Enqueued(a, "WIND", v))
          BY <1>10, <3>3
        <4>5. SendFlow(g, a.send)
          BY <1>1, <1>6, <1>10
        <4>6. \A m \in net' : \/ m \in net \/ Aside(m)
                              \/ m \in FlushDatagrams(Sender, Enqueued(a, "WIND", v))
          BY <1>7, <4>4
        <4> HIDE DEF g, b, r, D, l
        <4>7. Near(g, k[Receiver], a, link[Receiver].recv, net)
          <5>1. \A m \in net : m \in net \/ Aside(m)
            OBVIOUS
          <5>2. /\ a.send.length = link[Sender].send.length /\ a.send.packs = link[Sender].send.packs
                /\ a.send.ready = link[Sender].send.ready /\ a.sequence = link[Sender].sequence
                /\ a.cwnd = link[Sender].cwnd
            BY <1>6, <1>10
          <5> QED
            BY <2>1, <3>1, <3>2, <5>1, <5>2, NearSame
        <4>8. Near(Longer(g, "WIND", v), k[Receiver], AfterFlush(Enqueued(a, "WIND", v)),
                   link[Receiver].recv, net')
          BY <1>1, <1>5, <1>6, <4>2, <4>3, <4>5, <4>6, <4>7, EnqueueNear
        <4> QED
          BY <4>1, <4>4, <4>8
      <3>4. CASE ~tell
        <4>1. k[Sender] = g /\ r = quiet /\ D = {}
          BY <1>10, <3>4
        <4>2. \A m \in net' : m \in net \/ Aside(m)
          BY <1>7, <4>1
        <4>3. /\ quiet.send.length = link[Sender].send.length
              /\ quiet.send.packs = link[Sender].send.packs
              /\ quiet.send.ready = link[Sender].send.ready
              /\ quiet.sequence = link[Sender].sequence /\ quiet.cwnd = link[Sender].cwnd
          BY <1>6, <1>10
        <4> HIDE DEF g, b, r, D, l
        <4>4. Near(g, k[Receiver], quiet, link[Receiver].recv, net')
          BY <2>1, <3>1, <3>2, <4>2, <4>3, NearSame
        <4> QED
          BY <4>1, <4>4
      <3> QED
        BY <3>3, <3>4
    <2> HIDE DEF r
    <2> QED
      BY <1>1, <1>3, <1>9, <1>10, <2>1 DEF Within
  <1>11. CASE e = Receiver
    <2>1. r.recv.packs = w.packs
      <3>1. CASE tell
        BY <1>6, <1>8, <3>1, FlushKeeps
      <3>2. CASE ~tell
        BY <1>6, <3>2
      <3> QED
        BY <3>1, <3>2
    <2>2. k[Receiver] = b \/ OneMore(b, "WIND", Plus(w.index, WinSize), k[Receiver])
      <3>1. OneMore(b, "WIND", v, Longer(b, "WIND", v))
        BY <1>1, <1>5, LongerIs
      <3> QED
        BY <1>11, <3>1 DEF v
    <2>3. \A m \in net' : m \in net \/ Aside(m)
      <3>1. \A m \in D : Aside(m)
        BY <1>8, <1>11, FlushAside
      <3> QED
        BY <1>7, <3>1
    <2>4. k[Sender] = Further(g)
      BY <1>1, <1>11
    <2>5. link[Receiver].recv.index # link[Receiver].recv.ready
      BY <1>3, <1>11
    <2>6. w = Popped(link[Receiver].recv)
      BY <1>11
    <2> HIDE DEF g, b, r, D, l
    <2>7. ASSUME Near(g, b, link[Sender], link[Receiver].recv, net)
          PROVE  Near(Further(g), k[Receiver], link[Sender], r.recv, net')
      BY <1>1, <2>1, <2>2, <2>3, <2>5, <2>6, <2>7, DequeueNear
    <2>8. link'[Receiver] = r /\ link'[Sender] = link[Sender]
      BY <1>1, <1>9, <1>11
    <2> QED
      BY <1>3, <2>4, <2>7, <2>8 DEF Within, g, b
  <1> QED
    BY <1>10, <1>11 DEF Ends

\* A message the Sender has enqueued and no longer holds has arrived.
LEMMA NearArrived ==
    ASSUME NEW g \in Streams, Short(g), Numbered(g), NEW b, NEW l, l.send \in Windows,
           SendFlow(g, l.send), NEW w, RecvFlow(g, w), NEW N, Near(g, b, l, w, N),
           NEW x \in Nat, 0 < x, x <= g.cnt[g.n]
    PROVE  \/ x <= g.cnt[g.r]
           \/ \E i \in Slots : l.send.packs[i] # NULL /\ l.send.packs[i].val = x
           \/ \E i \in Slots : w.packs[i] # NULL /\ w.packs[i].val = x
  <1>1. PICK R \in Nat, M \in Nat : NearAt(g, b, R, M, l, w, N)
    BY DEF Near
  <1>2. /\ SendHolds(g, l.send, w) /\ RecvBelow(g, M, w) /\ l.send.length <= g.n
    BY <1>1 DEF NearAt, Placed
  <1>3. /\ g.start \in Seqs /\ g.n \in Nat /\ Mod \in Nat /\ WinSize \in Nat /\ WinSize > 1
        /\ 2 * (g.n + WinSize) + 1 < Mod /\ g.r \in Nat /\ g.r <= g.n
    BY WindowFits DEF Short
  <1>4. PICK o \in Nat : o < g.n /\ g.type[o] = "DATA" /\ g.val[o] = x
    BY DEF Numbered
  <1>5. First(g, l.send) \in Nat /\ g.n <= First(g, l.send) + WinSize
    BY <1>2, IndexAt
  <1>6. Slot(Plus(g.start, o)) \in Slots
    BY <1>3, SlotType
  <1>7. CASE Arrived(g, w, o)
    <2>1. CASE o < g.r
      <3>1. o + 1 \in Nat /\ o + 1 <= g.r
        BY <1>3, <2>1
      <3>2. g.cnt[o + 1] = g.cnt[o] + 1 /\ g.val[o] = g.cnt[o] + 1
        BY <1>4 DEF Numbered
      <3>3. g.cnt[o + 1] <= g.cnt[g.r]
        BY <1>3, <3>1 DEF Numbered
      <3> QED
        BY <1>4, <3>2, <3>3
    <2>2. CASE ~(o < g.r)
      <3> DEFINE i == Slot(Plus(g.start, o))
      <3>1. w.packs[i] # NULL /\ o < g.r + WinSize /\ g.r <= o
        BY <1>3, <1>7, <2>2 DEF Arrived
      <3>2. PICK c \in Nat : g.r <= c /\ c < g.r + WinSize /\ Copy(g, c, w.packs[i])
        BY <1>6, <3>1 DEF RecvFlow
      <3>3. Slot(w.packs[i].seq) = i
        BY <1>6, <3>1 DEF RecvFlow
      <3>4. Slot(Plus(g.start, c)) = Slot(Plus(g.start, o)) /\ c < Mod /\ o < Mod
        BY <1>3, <1>4, <3>2, <3>3 DEF Copy
      <3>5. c = o
        <4>1. CASE c <= o
          BY <1>3, <3>1, <3>2, <3>4, <4>1, SlotsApart
        <4>2. CASE o <= c
          BY <1>3, <3>1, <3>2, <3>4, <4>2, SlotsApart
        <4> QED
          BY <4>1, <4>2
      <3>6. w.packs[i].val = x
        BY <1>4, <3>2, <3>5 DEF Copy
      <3> QED
        BY <1>6, <3>1, <3>6
    <2> QED
      BY <2>1, <2>2
  <1>8. CASE ~Arrived(g, w, o)
    <2>1. First(g, l.send) <= o
      BY <1>2, <1>5, <1>8 DEF SendHolds
    <2>2. l.send.packs[Slot(Plus(g.start, o))] # NULL
      BY <1>2, <1>4, <1>8, <2>1 DEF SendHolds
    <2>3. First(g, l.send) <= First(g, l.send)
      BY <1>5
    <2>4. Copy(g, o, l.send.packs[Slot(Plus(g.start, o))])
      BY <1>2, <1>4, <1>5, <2>1, <2>2, <2>3, HeldAt
    <2>5. l.send.packs[Slot(Plus(g.start, o))].val = x
      BY <1>4, <2>4 DEF Copy
    <2> QED
      BY <1>6, <2>2, <2>5
  <1> QED
    BY <1>7, <1>8

\* What an action has to show when it changes the link of one end.
LEMMA FlowMoves ==
    ASSUME LinkTypes, NEW e \in Ends, NEW l \in Links, link' = [link EXCEPT ![e] = l],
           NEW k \in [Ends -> Streams],
           Numbered(k[e]), SendFlow(k[e], l.send), RecvFlow(k[e], link[Peer(e)].recv),
           Paced(k[e], link[Peer(e)].recv, k[Peer(e)]),
           Numbered(k[Peer(e)]), SendFlow(k[Peer(e)], link[Peer(e)].send),
           RecvFlow(k[Peer(e)], l.recv), Paced(k[Peer(e)], l.recv, k[e]),
           \A d \in Ends : NetFlow(k[d], Peer(d), net'),
           Tally(k, sent', got'), Within(k, link', net', overrun', setback')
    PROVE  FlowInv'
  <1>1. link'[e] = l /\ link'[Peer(e)] = link[Peer(e)]
    BY PeerIs DEF LinkTypes
  <1>2. Flow(k, e, link', net')
    BY <1>1 DEF Flow
  <1>3. Flow(k, Peer(e), link', net')
    BY <1>1, PeerIs DEF Flow
  <1>4. \A d \in Ends : Flow(k, d, link', net')
    BY <1>2, <1>3, PeerIs
  <1> QED
    BY <1>4 DEF FlowInv

\* The network keeps some of what was there and of what is sent.
LEMMA NetMoves ==
    ASSUME NEW k, \A d \in Ends : NetFlow(k[d], Peer(d), net), NEW base, base \subseteq net,
           NEW D, \A d \in Ends : NetFlow(k[d], Peer(d), D), Transmit(base, D)
    PROVE  \A d \in Ends : NetFlow(k[d], Peer(d), net')
  BY DEF Transmit, NetFlow

LEMMA NetRests ==
    ASSUME NEW k, \A d \in Ends : NetFlow(k[d], Peer(d), net), NEW N, N \subseteq net
    PROVE  \A d \in Ends : NetFlow(k[d], Peer(d), N)
  BY DEF NetFlow

\* What an end sends concerns its own stream only.
LEMMA NetOwn ==
    ASSUME NEW k, NEW e \in Ends, NEW D, NetFlow(k[e], Peer(e), D), \A m \in D : m.to = Peer(e)
    PROVE  \A d \in Ends : NetFlow(k[d], Peer(d), D)
  BY PeerIs DEF NetFlow

\* Nor do acknowledgements and errors concern either.
LEMMA NetOther ==
    ASSUME NEW k, NEW D, \A m \in D : m.type \in {"ACK", "ERROR"}
    PROVE  \A d \in Ends : NetFlow(k[d], Peer(d), D)
  BY DEF NetFlow

\* cavan_udp_sock_send: the stream of the Sender gets its next message.
LEMMA SendFlows ==
    ASSUME LinkInv, FlowInv, cavan_udp_sock_send
    PROVE  FlowInv' /\ sent' = sent + 1 /\ UNCHANGED got
  <1>1. PICK h \in [Ends -> Streams] :
           /\ \A e \in Ends : Flow(h, e, link, net)
           /\ Tally(h, sent, got) /\ Within(h, link, net, overrun, setback)
    BY DEF FlowInv
  <1>2. LinkTypes /\ SendHeads
    BY DEF LinkInv
  <1> DEFINE l == Enqueued(link[Sender], "DATA", sent + 1)
             g == h[Sender]
             b == h[Receiver]
             k == Longer(g, "DATA", sent + 1)
             j == [h EXCEPT ![Sender] = k]
  <1>3. /\ link[Sender].send.length < WinSize /\ sent < MaxMessages
        /\ link' = [link EXCEPT ![Sender] = AfterFlush(l)]
        /\ Transmit(net, FlushDatagrams(Sender, l))
        /\ sent' = sent + 1 /\ UNCHANGED got
    BY Zenon DEF cavan_udp_sock_send
  <1>4. /\ Sender \in Ends /\ Receiver \in Ends /\ Peer(Sender) = Receiver
        /\ Peer(Receiver) = Sender /\ Sender # Receiver /\ link[Sender] \in Links
    BY <1>2, UdpAssumption DEF Ends, Peer, LinkTypes
  <1>5. /\ sent + 1 \in Seqs /\ sent + 1 \in Nat /\ sent \in Nat
    BY <1>2, <1>3, WindowFits DEF LinkTypes, Seqs
  <1>6. g \in Streams /\ b \in Streams
    BY <1>4
  <1>7. /\ Flow(h, Sender, link, net) /\ Flow(h, Receiver, link, net)
        /\ g.n + 1 < Mod /\ g.cnt[g.n] = sent
    <2>1. g.n < Mod - WinSize - 1 /\ g.n \in Nat
      BY <1>1, <1>2, <1>4, <1>6, StreamsShort DEF Streams
    <2> QED
      BY <1>1, <1>4, <2>1, WindowFits DEF Tally
  <1>8. /\ Numbered(g) /\ SendFlow(g, link[Sender].send) /\ RecvFlow(g, link[Receiver].recv)
        /\ Paced(g, link[Receiver].recv, b)
        /\ Numbered(b) /\ SendFlow(b, link[Receiver].send) /\ RecvFlow(b, link[Sender].recv)
        /\ Paced(b, link[Sender].recv, g)
    BY <1>4, <1>7 DEF Flow
  <1>9. l \in Links /\ l.recv = link[Sender].recv /\ SendFlow(k, l.send)
    BY <1>3, <1>4, <1>5, <1>6, <1>7, <1>8, EnqueueType, EnqueueFlow
  <1>10. k \in Streams /\ OneMore(g, "DATA", sent + 1, k)
    BY <1>5, <1>6, LongerIs
  <1>11. Numbered(k) /\ RecvFlow(k, link[Receiver].recv)
    BY <1>5, <1>6, <1>7, <1>8, LongerNumbered, LongerFlow
  <1> HIDE DEF l
  <1>12. /\ AfterFlush(l) \in Links /\ AfterFlush(l).recv = link[Sender].recv
         /\ SendFlow(k, AfterFlush(l).send)
    BY <1>9, FlushKeeps, FlushFlow
  <1>13. \A d \in Ends : NetFlow(j[d], Peer(d), net')
    <2>1. \A d \in Ends : NetFlow(h[d], Peer(d), net)
      BY <1>1 DEF Flow
    <2>2. \A d \in Ends : NetFlow(j[d], Peer(d), net)
      BY <1>4, <1>5, <1>6, <2>1, LongerFlow
    <2>3. NetFlow(k, Peer(Sender), FlushDatagrams(Sender, l))
      BY <1>4, <1>9, FlushNet
    <2>4. \A m \in FlushDatagrams(Sender, l) : m.to = Peer(Sender)
      BY DEF FlushDatagrams, Datagram
    <2>5. j[Sender] = k
      BY <1>4
    <2> HIDE DEF j
    <2>6. \A d \in Ends : NetFlow(j[d], Peer(d), FlushDatagrams(Sender, l))
      BY <1>4, <2>3, <2>4, <2>5, NetOwn
    <2> QED
      BY <1>3, <2>2, <2>6, NetMoves
  <1>14. j \in [Ends -> Streams] /\ j[Sender] = k /\ j[Receiver] = b
    BY <1>4, <1>10
  <1> HIDE DEF j, k
  <1>15. k.r = g.r /\ k.n = g.n + 1 /\ k.cnt[k.n] = sent + 1 /\ k.cnt[g.r] = g.cnt[g.r]
    <2>1. g.n \in Nat /\ g.r \in Nat /\ g.r <= g.n
      BY <1>6, <1>8 DEF Streams, Numbered
    <2> QED
      BY <1>7, <1>10, <2>1 DEF OneMore
  <1>16. Winds(k) = Winds(g)
    <2>1. g.n \in Nat
      BY <1>6 DEF Streams
    <2> QED
      BY <1>5, <1>7, <1>15, <2>1 DEF Winds
  <1>17. Paced(k, link[Receiver].recv, b) /\ Paced(b, link[Sender].recv, k)
    BY <1>8, <1>15, <1>16 DEF Paced
  <1>18. Tally(j, sent', got')
    BY <1>1, <1>3, <1>14, <1>15 DEF Tally
  <1>19. Within(j, link', net', overrun', setback')
    BY <1>1, <1>14, SendWithin DEF k, g, b
  <1>20. FlowInv'
    BY <1>2, <1>3, <1>4, <1>8, <1>11, <1>12, <1>13, <1>14, <1>17, <1>18, <1>19, FlowMoves
  <1> QED
    BY <1>3, <1>20
\* A step that lengthens no stream and dequeues nothing.
LEMMA FlowStays ==
    ASSUME LinkTypes, NEW h \in [Ends -> Streams], \A d \in Ends : Flow(h, d, link, net),
           Tally(h, sent, got), UNCHANGED <<sent, got>>,
           NEW e \in Ends, NEW l \in Links, link' = [link EXCEPT ![e] = l],
           SendFlow(h[e], l.send), RecvFlow(h[Peer(e)], l.recv),
           Paced(h[Peer(e)], l.recv, h[e]),
           \A d \in Ends : NetFlow(h[d], Peer(d), net'),
           Within(h, link', net', overrun', setback')
    PROVE  FlowInv'
  <1>1. /\ Numbered(h[e]) /\ RecvFlow(h[e], link[Peer(e)].recv)
        /\ Paced(h[e], link[Peer(e)].recv, h[Peer(e)])
        /\ Numbered(h[Peer(e)]) /\ SendFlow(h[Peer(e)], link[Peer(e)].send)
    <2>1. Flow(h, e, link, net) /\ Flow(h, Peer(e), link, net)
      BY PeerIs
    <2> QED
      BY <2>1 DEF Flow
  <1>2. Tally(h, sent', got')
    OBVIOUS
  <1> QED
    BY <1>1, <1>2, FlowMoves

\* SendBlocks and cavan_udp_sock_send_loop: at most the first pack is sent again.
LEMMA LoopFlows ==
    ASSUME LinkInv, FlowInv, NEW e \in Ends, SendLoop(e) \/ (e = Sender /\ SendBlocks)
    PROVE  FlowInv' /\ UNCHANGED <<sent, got>>
  <1>1. PICK h \in [Ends -> Streams] :
           /\ \A d \in Ends : Flow(h, d, link, net)
           /\ Tally(h, sent, got) /\ Within(h, link, net, overrun, setback)
    BY DEF FlowInv
  <1>2. LinkTypes /\ SendHeads /\ link[e] \in Links
    BY DEF LinkInv, LinkTypes
  <1>3. UNCHANGED <<sent, got>>
    BY DEF SendLoop, SendLoopTake, Resend, ResendNothing, GiveUp, SendBlocks
  <1>4. /\ SendFlow(h[e], link[e].send) /\ RecvFlow(h[Peer(e)], link[e].recv)
        /\ Paced(h[Peer(e)], link[e].recv, h[e])
        /\ \A d \in Ends : NetFlow(h[d], Peer(d), net)
    <2>1. Flow(h, e, link, net) /\ Flow(h, Peer(e), link, net) /\ Peer(Peer(e)) = e
      BY <1>1, PeerIs
    <2> QED
      BY <1>1, <2>1 DEF Flow
  <1>5. ASSUME NEW l \in Links, link' = [link EXCEPT ![e] = l], l.recv = link[e].recv,
               SendFlow(h[e], l.send), \A d \in Ends : NetFlow(h[d], Peer(d), net')
        PROVE  FlowInv'
    <2>1. Within(h, link', net', overrun', setback')
      BY <1>1, LoopWithin
    <2> QED
      BY <1>1, <1>2, <1>3, <1>4, <1>5, <2>1, FlowStays
  <1>6. CASE SendLoopTake(e)
    <2> DEFINE l == [link[e] EXCEPT !.listed = FALSE, !.taken = TRUE]
    <2>1. link' = [link EXCEPT ![e] = l] /\ UNCHANGED net
      BY <1>2, <1>6 DEF SendLoopTake, LinkTypes
    <2>2. l \in Links /\ l.recv = link[e].recv /\ l.send = link[e].send
      BY <1>2 DEF Links
    <2> HIDE DEF l
    <2> QED
      BY <1>3, <1>4, <1>5, <2>1, <2>2
  <1>7. CASE ResendNothing(e)
    <2> DEFINE l == [link[e] EXCEPT !.taken = FALSE]
    <2>1. link' = [link EXCEPT ![e] = l] /\ UNCHANGED net
      BY <1>2, <1>7 DEF ResendNothing, LinkTypes
    <2>2. l \in Links /\ l.recv = link[e].recv /\ l.send = link[e].send
      BY <1>2 DEF Links
    <2> HIDE DEF l
    <2> QED
      BY <1>3, <1>4, <1>5, <2>1, <2>2
  <1>8. CASE GiveUp(e)
    <2> DEFINE l == [link[e] EXCEPT !.freed = TRUE]
    <2>1. link' = [link EXCEPT ![e] = l] /\ UNCHANGED net
      BY <1>2, <1>8 DEF GiveUp, LinkTypes
    <2>2. l \in Links /\ l.recv = link[e].recv /\ l.send = link[e].send
      BY <1>2 DEF Links
    <2> HIDE DEF l
    <2> QED
      BY <1>3, <1>4, <1>5, <2>1, <2>2
  <1>9. CASE e = Sender /\ SendBlocks
    <2> DEFINE l == [link[e] EXCEPT !.send = [link[e].send EXCEPT !.full = TRUE]]
    <2>1. link' = [link EXCEPT ![e] = l] /\ UNCHANGED net
      BY <1>2, <1>9 DEF SendBlocks, LinkTypes
    <2>2. /\ l \in Links /\ l.recv = link[e].recv /\ l.send.packs = link[e].send.packs
          /\ l.send.index = link[e].send.index /\ l.send.length = link[e].send.length
      BY <1>2 DEF Links, Windows
    <2> HIDE DEF l
    <2>3. SendFlow(h[e], l.send)
      BY <1>4, <2>2 DEF SendFlow
    <2> QED
      BY <1>3, <1>4, <1>5, <2>1, <2>2, <2>3
  <1>10. CASE Resend(e)
    <2> DEFINE p == Datagram(e, link[e].send.packs[Slot(link[e].send.index)])
    <2>1. /\ link' = [link EXCEPT ![e] = Resent(link[e])] /\ Transmit(net, {p})
          /\ link[e].send.length > 0
      BY <1>10, Zenon DEF Resend, HeadCounts
    <2>2. HeadThere(link[e].send)
      BY <1>2 DEF SendHeads
    <2>3. Resent(link[e]) \in Links /\ Resent(link[e]).recv = link[e].recv
      BY <1>2, <2>1, <2>2, ResentType
    <2>4. SendFlow(h[e], Resent(link[e]).send) /\ NetFlow(h[e], Peer(e), {p})
      BY <1>2, <1>4, <2>1, <2>2, ResentFlow
    <2>5. p.to = Peer(e)
      BY DEF Datagram
    <2> HIDE DEF p
    <2>6. \A d \in Ends : NetFlow(h[d], Peer(d), {p})
      BY <2>4, <2>5, NetOwn
    <2>7. \A d \in Ends : NetFlow(h[d], Peer(d), net')
      BY <1>4, <2>1, <2>6, NetMoves
    <2> QED
      BY <1>3, <1>5, <2>1, <2>3, <2>4, <2>7
  <1> QED
    BY <1>3, <1>6, <1>7, <1>8, <1>9, <1>10 DEF SendLoop

\* cavan_udp_sock_recv_loop.
LEMMA DeliverFlows ==
    ASSUME LinkInv, FlowInv, NEW m \in net, Deliver(m)
    PROVE  FlowInv' /\ UNCHANGED <<sent, got>>
  <1> DEFINE e == m.to
  <1>0. m \in Datagrams /\ e \in Ends /\ LinkTypes
    BY DEF LinkInv, LinkTypes, Datagrams
  <1>1. PICK h \in [Ends -> Streams] :
           /\ \A d \in Ends : Flow(h, d, link, net)
           /\ Tally(h, sent, got) /\ Within(h, link, net, overrun, setback)
    BY DEF FlowInv
  <1> DEFINE g == h[Peer(e)]
  <1>2. e = m.to
    OBVIOUS
  <1> HIDE DEF e
  <1>3. link[e] \in Links /\ link[e].recv \in Windows /\ InSequence(link[e].recv)
    BY <1>0 DEF LinkInv, LinkTypes, Links, RecvInSequence
  <1>4. UNCHANGED <<sent, got>>
    BY DEF Deliver, RecvData, RecvWind, RecvAck, RecvOrphan, RecvError
  <1>5. /\ SendFlow(h[e], link[e].send) /\ RecvFlow(g, link[e].recv)
        /\ Paced(g, link[e].recv, h[e]) /\ NetFlow(g, e, net)
        /\ \A d \in Ends : NetFlow(h[d], Peer(d), net)
    <2>1. /\ Flow(h, e, link, net) /\ Flow(h, Peer(e), link, net) /\ Peer(Peer(e)) = e
          /\ Peer(e) \in Ends
      BY <1>0, <1>1, PeerIs
    <2> QED
      BY <1>1, <2>1 DEF Flow
  <1>6. g \in Streams /\ g.r <= g.n /\ g.n < Mod - WinSize
    <2>1. Peer(e) \in Ends
      BY <1>0, PeerIs
    <2>2. g \in Streams /\ g.n \in Nat
      BY <2>1 DEF Streams
    <2>3. g.n < Mod - WinSize - 1 /\ g.r <= g.n
      BY <1>0, <1>1, <2>1, StreamsShort
    <2> QED
      BY <2>2, <2>3, WindowFits
  <1> HIDE DEF g
  <1>7. \A base \in Rest(m) : base \subseteq net
    BY DEF Rest
  <1>8. ASSUME m.type \in {"DATA", "WIND"}
        PROVE  LET w == Received(link[e].recv, m)
               IN  w \in Windows /\ InSequence(w) /\ RecvFlow(g, w) /\ Paced(g, w, h[e])
    <2> DEFINE w == Received(link[e].recv, m)
    <2>1. PICK o \in Nat : Copy(g, o, m)
      BY <1>2, <1>5, <1>8 DEF NetFlow
    <2>2. w \in Windows /\ InSequence(w)
      BY <1>0, <1>3, <1>8, ReceivedType
    <2>3. /\ RecvFlow(g, w) /\ w.length >= link[e].recv.length
          /\ w.full => link[e].recv.full \/ w.length = WinSize
      BY <1>0, <1>3, <1>5, <1>6, <1>8, <2>1, ReceivedFlow
    <2> HIDE DEF w
    <2>4. Paced(g, w, h[e])
      <3>1. /\ g.r \in Nat /\ w.length \in Nat /\ link[e].recv.length \in Nat
            /\ Winds(h[e]) \in Int /\ WinSize \in Nat
        BY <1>0, <1>3, <1>6, <2>2, WindowFits DEF Streams, Windows, Winds
      <3> QED
        BY <1>5, <2>3, <3>1 DEF Paced
    <2> QED
      BY <2>2, <2>3, <2>4 DEF w
  <1>9. ASSUME NEW l \in Links, link' = [link EXCEPT ![e] = l], SendFlow(h[e], l.send),
               RecvFlow(g, l.recv), Paced(g, l.recv, h[e]),
               \A d \in Ends : NetFlow(h[d], Peer(d), net')
        PROVE  FlowInv'
    <2>1. Within(h, link', net', overrun', setback')
      BY <1>1, DeliverWithin
    <2> QED
      BY <1>0, <1>1, <1>4, <1>9, <2>1, FlowStays DEF g
  <1>10. CASE RecvData(e, m)
    <2> DEFINE w == Received(link[e].recv, m)
               l == [link[e] EXCEPT !.recv = w]
    <2>1. w \in Windows /\ RecvFlow(g, w) /\ Paced(g, w, h[e])
      BY <1>8, <1>10 DEF RecvData
    <2>2. PICK base \in Rest(m) :
             link' = [link EXCEPT ![e].recv = w] /\ Transmit(base, {AckOf(e, w, m)})
      BY <1>10, Zenon DEF RecvData
    <2> HIDE DEF w
    <2>3. link' = [link EXCEPT ![e] = l]
      BY <2>2
    <2>4. l \in Links /\ l.recv = w /\ l.send = link[e].send
      BY <1>3, <2>1 DEF Links
    <2> HIDE DEF l
    <2>5. \A x \in {AckOf(e, w, m)} : x.type \in {"ACK", "ERROR"}
      BY DEF AckOf
    <2>6. \A d \in Ends : NetFlow(h[d], Peer(d), {AckOf(e, w, m)})
      BY <2>5, NetOther
    <2>7. \A d \in Ends : NetFlow(h[d], Peer(d), net')
      BY <1>5, <1>7, <2>2, <2>6, NetMoves
    <2> QED
      BY <1>4, <1>5, <1>9, <2>1, <2>3, <2>4, <2>7
  <1>11. CASE RecvWind(e, m)
    <2> DEFINE w == Received(link[e].recv, m)
               l == [link[e] EXCEPT !.recv = w, !.sequence = SetSequence(@, m.val)]
               grown == l.sequence # link[e].sequence
               r == IF grown THEN AfterFlush(l) ELSE l
               F == IF grown THEN FlushDatagrams(e, l) ELSE {}
               A == {AckOf(e, w, m)}
    <2>1. w \in Windows /\ RecvFlow(g, w) /\ Paced(g, w, h[e])
      BY <1>8, <1>11 DEF RecvWind
    <2>2. PICK base \in Rest(m) : link' = [link EXCEPT ![e] = r] /\ Transmit(base, A \cup F)
      BY <1>11, Zenon DEF RecvWind
    <2>3. l \in Links /\ l.recv = w /\ l.send = link[e].send
      <3>1. SetSequence(link[e].sequence, m.val) \in Seqs
        BY <1>0, <1>3 DEF SetSequence, Links, Datagrams
      <3> HIDE DEF w
      <3> QED
        BY <1>3, <2>1, <3>1 DEF Links
    <2>4. \A x \in A : x.type \in {"ACK", "ERROR"}
      BY DEF AckOf
    <2> HIDE DEF w, l, grown, A
    <2>5. r \in Links /\ r.recv = w /\ SendFlow(h[e], r.send)
      BY <1>5, <2>3, FlushKeeps, FlushFlow
    <2>6. NetFlow(h[e], Peer(e), F) /\ \A x \in F : x.to = Peer(e)
      <3>1. NetFlow(h[e], Peer(e), FlushDatagrams(e, l))
        BY <1>0, <1>5, <2>3, FlushNet
      <3>2. \A x \in FlushDatagrams(e, l) : x.to = Peer(e)
        BY DEF FlushDatagrams, Datagram
      <3> QED
        BY <3>1, <3>2 DEF NetFlow
    <2> HIDE DEF r, F
    <2>7. \A d \in Ends : NetFlow(h[d], Peer(d), F)
      BY <1>0, <2>6, NetOwn
    <2>8. \A d \in Ends : NetFlow(h[d], Peer(d), A)
      BY <2>4, NetOther
    <2>9. \A d \in Ends : NetFlow(h[d], Peer(d), A \cup F)
      BY <2>7, <2>8 DEF NetFlow
    <2>10. \A d \in Ends : NetFlow(h[d], Peer(d), net')
      BY <1>5, <1>7, <2>2, <2>9, NetMoves
    <2> QED
      BY <1>4, <1>9, <2>1, <2>2, <2>5, <2>10
  <1>12. CASE RecvAck(e, m)
    <2> DEFINE l == Acked(link[e], m)
    <2>1. link' = [link EXCEPT ![e] = l] /\ net' \in Rest(m)
      BY <1>12, Zenon DEF RecvAck
    <2>2. l \in Links /\ l.recv = link[e].recv /\ SendFlow(h[e], l.send)
      BY <1>0, <1>3, <1>5, AckedType, AckedFlow
    <2> HIDE DEF l
    <2>3. \A d \in Ends : NetFlow(h[d], Peer(d), net')
      BY <1>5, <1>7, <2>1, NetRests
    <2> QED
      BY <1>4, <1>5, <1>9, <2>1, <2>2, <2>3
  <1>13. CASE RecvOrphan(e, m)
    <2> DEFINE err == [to |-> Peer(e), type |-> "ERROR", seq |-> 0, val |-> 0]
    <2>1. PICK base \in Rest(m) : link' = link /\ Transmit(base, {err})
      BY <1>13 DEF RecvOrphan
    <2>2. \A x \in {err} : x.type \in {"ACK", "ERROR"}
      OBVIOUS
    <2> HIDE DEF err
    <2>3. \A d \in Ends : NetFlow(h[d], Peer(d), {err})
      BY <2>2, NetOther
    <2>4. \A d \in Ends : NetFlow(h[d], Peer(d), net')
      BY <1>5, <1>7, <2>1, <2>3, NetMoves
    <2>5. link' = [link EXCEPT ![e] = link[e]]
      BY <1>0, <2>1 DEF LinkTypes
    <2> QED
      BY <1>3, <1>4, <1>5, <1>9, <2>4, <2>5
  <1>14. CASE RecvError(e, m)
    <2> DEFINE l == [link[e] EXCEPT !.freed = TRUE]
    <2>1. link' = [link EXCEPT ![e] = l] /\ net' \in Rest(m)
      BY <1>14 DEF RecvError
    <2>2. l \in Links /\ l.recv = link[e].recv /\ l.send = link[e].send
      BY <1>3 DEF Links
    <2> HIDE DEF l
    <2>3. \A d \in Ends : NetFlow(h[d], Peer(d), net')
      BY <1>5, <1>7, <2>1, NetRests
    <2> QED
      BY <1>4, <1>5, <1>9, <2>1, <2>2, <2>3
  <1> QED
    BY <1>4, <1>10, <1>11, <1>12, <1>13, <1>14 DEF Deliver, e
\* The stream after the reader has taken a pack: the rest of it is the same.
LEMMA FurtherIs ==
    ASSUME NEW g \in Streams, Numbered(g), g.r < g.n
    PROVE  /\ Further(g) \in Streams /\ Numbered(Further(g))
           /\ Further(g).r = g.r + 1 /\ Further(g).n = g.n /\ Further(g).cnt = g.cnt
           /\ \A w : SendFlow(g, w) => SendFlow(Further(g), w)
           /\ \A f, N : NetFlow(g, f, N) => NetFlow(Further(g), f, N)
  <1> DEFINE k == Further(g)
  <1>1. /\ k.r = g.r + 1 /\ k.n = g.n /\ k.cnt = g.cnt /\ k.type = g.type /\ k.val = g.val
        /\ k.start = g.start
    BY DEF Further
  <1>2. g.r \in Nat /\ g.n \in Nat
    BY DEF Streams
  <1>3. k \in Streams
    BY <1>2 DEF Further, Streams
  <1> HIDE DEF k
  <1>4. Numbered(k)
    BY <1>1, <1>2 DEF Numbered
  <1>5. \A o, p : Copy(g, o, p) => Copy(k, o, p)
    BY <1>1 DEF Copy
  <1> QED
    BY <1>1, <1>3, <1>4, <1>5 DEF SendFlow, NetFlow, k

\* cavan_udp_sock_recv: a pack is dequeued, and a window that has emptied below half again
\* lengthens the stream the other way by a WIND pack.
LEMMA RecvFlows ==
    ASSUME LinkInv, FlowInv, NEW e \in Ends, cavan_udp_sock_recv(e)
    PROVE  /\ FlowInv' /\ UNCHANGED sent
           /\ got' = got \/ (Len(got) < sent /\ got' = Append(got, Len(got) + 1))
  <1>1. PICK h \in [Ends -> Streams] :
           /\ \A d \in Ends : Flow(h, d, link, net)
           /\ Tally(h, sent, got) /\ Within(h, link, net, overrun, setback)
    BY DEF FlowInv
  <1> DEFINE f == Peer(e)
             p == link[e].recv.packs[Slot(link[e].recv.index)]
             w == Popped(link[e].recv)
             tell == w.full /\ w.length < WinSize \div 2 /\ link[e].send.length < WinSize
             a == [link[e] EXCEPT !.recv = [w EXCEPT !.full = FALSE]]
             v == Plus(w.index, WinSize)
             wind == Enqueued(a, "WIND", v)
             quiet == [link[e] EXCEPT !.recv = w]
             l == IF tell THEN wind ELSE quiet
             r == IF tell THEN AfterFlush(l) ELSE l
             D == IF tell THEN FlushDatagrams(e, l) ELSE {}
             g == h[f]
             b == h[e]
             gg == Further(g)
             bb == IF tell THEN Longer(b, "WIND", v) ELSE b
             k == [d \in Ends |-> IF d = e THEN bb ELSE gg]
  <1>2. /\ LinkTypes /\ link[e] \in Links /\ link[e].recv \in Windows
        /\ InSequence(link[e].recv)
    BY DEF LinkInv, LinkTypes, Links, RecvInSequence
  <1>3. f \in Ends /\ f # e /\ Peer(f) = e /\ \A d \in Ends : d = e \/ d = f
    BY PeerIs
  <1>4. /\ link' = [link EXCEPT ![e] = r] /\ Transmit(net, D)
        /\ link[e].recv.index # link[e].recv.ready
        /\ got' = IF p.type = "DATA" THEN Append(got, p.val) ELSE got
        /\ UNCHANGED sent
    BY Zenon DEF cavan_udp_sock_recv, Dequeue
  <1>5. g \in Streams /\ b \in Streams
    BY <1>3
  <1>6. Flow(h, e, link, net) /\ Flow(h, f, link, net)
    BY <1>1, <1>3
  <1> HIDE DEF f
  <1>7. /\ Numbered(b) /\ SendFlow(b, link[e].send) /\ RecvFlow(b, link[f].recv)
        /\ Paced(b, link[f].recv, g)
        /\ Numbered(g) /\ SendFlow(g, link[f].send) /\ RecvFlow(g, link[e].recv)
        /\ Paced(g, link[e].recv, b)
    BY <1>3, <1>6 DEF Flow, f
  <1>8. /\ g.n \in Nat /\ g.r \in Nat /\ b.n \in Nat /\ b.r \in Nat
        /\ g.r <= g.n /\ g.n < Mod - WinSize /\ b.n + 1 < Mod
        /\ b.cnt[b.n] \in Nat /\ g.cnt[g.n] \in Nat
    <2>1. /\ g.n \in Nat /\ g.r \in Nat /\ b.n \in Nat /\ b.r \in Nat
          /\ b.cnt[b.n] \in Nat /\ g.cnt[g.n] \in Nat
      BY <1>5 DEF Streams
    <2>2. g.n < Mod - WinSize - 1 /\ b.n < Mod - WinSize - 1 /\ g.r <= g.n
      BY <1>1, <1>2, <1>3, StreamsShort
    <2> QED
      BY <2>1, <2>2, WindowFits
  <1>9. w \in Windows /\ InSequence(w)
    BY <1>2, <1>4, PoppedType
  <1>10. /\ Copy(g, g.r, p) /\ RecvFlow(gg, w)
         /\ link[e].recv.length > 0 /\ w.length = link[e].recv.length - 1
         /\ w.full = link[e].recv.full
    BY <1>2, <1>4, <1>5, <1>7, <1>8, PoppedFlow
  <1> HIDE DEF w, g, b, p
  <1>11. g.r < g.n /\ p.type = g.type[g.r] /\ p.val = g.val[g.r]
    BY <1>10 DEF Copy
  <1>12. /\ gg \in Streams /\ Numbered(gg) /\ gg.r = g.r + 1 /\ gg.n = g.n /\ gg.cnt = g.cnt
         /\ SendFlow(gg, link[f].send)
         /\ \A N : NetFlow(g, e, N) => NetFlow(gg, e, N)
    BY <1>5, <1>7, <1>11, FurtherIs
  <1>13. v \in Seqs /\ v \in Nat
    <2>1. w.index \in Nat
      BY <1>9 DEF Windows, Seqs
    <2>2. v \in Seqs
      BY <2>1, WindowFits, PlusType
    <2> QED
      BY <2>2 DEF Seqs
  <1> HIDE DEF gg, v
  <1>14. quiet \in Links /\ quiet.recv = w /\ quiet.send = link[e].send
    BY <1>2, <1>9 DEF Links
  <1>15. /\ a \in Links /\ a.send = link[e].send /\ a.recv.packs = w.packs
         /\ a.recv.index = w.index /\ a.recv.length = w.length /\ a.recv.full = FALSE
    <2>1. /\ [w EXCEPT !.full = FALSE] \in Windows /\ [w EXCEPT !.full = FALSE].full = FALSE
          /\ [w EXCEPT !.full = FALSE].packs = w.packs
          /\ [w EXCEPT !.full = FALSE].index = w.index
          /\ [w EXCEPT !.full = FALSE].length = w.length
      BY <1>9 DEF Windows
    <2> QED
      BY <1>2, <2>1 DEF Links
  <1> HIDE DEF a, quiet
  <1>16. ASSUME NEW u, u.index = w.index, u.packs = w.packs, u.length = w.length
         PROVE  RecvFlow(gg, u)
    BY <1>10, <1>16 DEF RecvFlow
  <1>17. /\ bb \in Streams /\ Numbered(bb) /\ bb.r = b.r
         /\ RecvFlow(bb, link[f].recv)
         /\ \A N : NetFlow(b, f, N) => NetFlow(bb, f, N)
         /\ bb.cnt[bb.n] = b.cnt[b.n] /\ bb.cnt[b.r] = b.cnt[b.r]
         /\ tell => Winds(bb) = Winds(b) + 1
         /\ ~tell => bb = b
    <2>1. CASE ~tell
      BY <1>5, <1>7, <2>1
    <2>2. CASE tell
      <3>1. bb = Longer(b, "WIND", v)
        BY <2>2
      <3>2. bb \in Streams /\ OneMore(b, "WIND", v, bb)
        BY <1>5, <1>13, <3>1, LongerIs
      <3>3. Numbered(bb)
        BY <1>5, <1>7, <1>13, <3>1, LongerNumbered
      <3>4. RecvFlow(bb, link[f].recv) /\ \A N : NetFlow(b, f, N) => NetFlow(bb, f, N)
        BY <1>5, <1>7, <1>13, <3>1, LongerFlow
      <3> HIDE DEF bb, tell
      <3>5. bb.r = b.r /\ bb.n = b.n + 1 /\ bb.cnt[bb.n] = b.cnt[b.n] /\ bb.cnt[b.r] = b.cnt[b.r]
        <4>1. b.r <= b.n
          BY <1>7 DEF Numbered
        <4> QED
          BY <1>8, <3>2, <4>1 DEF OneMore
      <3>6. Winds(bb) = Winds(b) + 1
        BY <1>8, <3>5 DEF Winds
      <3> QED
        BY <2>2, <3>2, <3>3, <3>4, <3>5, <3>6
    <2> HIDE DEF bb, tell
    <2> QED
      BY <2>1, <2>2
  <1>18. ASSUME tell
         PROVE  /\ wind \in Links /\ wind.recv = a.recv /\ SendFlow(bb, wind.send)
                /\ bb = Longer(b, "WIND", v)
    <2>1. a.send.length < WinSize
      BY <1>15, <1>18
    <2>2. wind \in Links /\ wind.recv = a.recv
      BY <1>13, <1>15, <2>1, EnqueueType
    <2>3. SendFlow(b, a.send)
      BY <1>7, <1>15
    <2>4. SendFlow(Longer(b, "WIND", v), wind.send)
      BY <1>5, <1>8, <1>13, <1>15, <2>1, <2>3, EnqueueFlow
    <2>5. bb = Longer(b, "WIND", v)
      BY <1>18
    <2> QED
      BY <2>2, <2>4, <2>5
  <1> HIDE DEF wind, bb
  <1>19. l \in Links /\ SendFlow(bb, l.send) /\ RecvFlow(gg, l.recv)
    <2>1. CASE tell
      <3>1. RecvFlow(gg, a.recv)
        BY <1>15, <1>16
      <3> QED
        BY <1>18, <2>1, <3>1
    <2>2. CASE ~tell
      BY <1>7, <1>10, <1>14, <1>17, <2>2
    <2> QED
      BY <2>1, <2>2
  <1>20. Paced(gg, l.recv, bb)
    <2>1. /\ Winds(b) \in Int /\ w.length \in Nat /\ link[e].recv.length \in Nat
          /\ WinSize \in Nat /\ WinSize > 1
      BY <1>2, <1>8, <1>9, WindowFits DEF Windows, Winds
    <2>2. /\ 2 * Winds(b) <= g.r
          /\ w.full => g.r + 1 + w.length >= 2 * Winds(b) + WinSize
      BY <1>7, <1>8, <1>10, <2>1 DEF Paced
    <2>3. CASE ~tell
      <3>1. l.recv = w /\ bb = b
        BY <1>14, <1>17, <2>3
      <3> QED
        BY <1>8, <1>12, <2>1, <2>2, <3>1 DEF Paced
    <2>4. CASE tell
      <3>1. l.recv.full = FALSE
        BY <1>15, <1>18, <2>4
      <3>2. w.full /\ w.length < WinSize \div 2
        BY <2>4
      <3>3. WinSize \div 2 \in Nat /\ 2 * (WinSize \div 2) <= WinSize
        BY <2>1
      <3>4. w.length + 2 <= WinSize
        BY <2>1, <3>2, <3>3
      <3>5. 2 * (Winds(b) + 1) <= g.r + 1
        BY <1>8, <2>1, <2>2, <3>2, <3>4
      <3> QED
        BY <1>12, <1>17, <2>4, <3>1, <3>5 DEF Paced
    <2> HIDE DEF l, tell
    <2> QED
      BY <2>3, <2>4
  <1>21. Paced(bb, link[f].recv, gg)
    <2>1. Winds(gg) = Winds(g)
      BY <1>12 DEF Winds
    <2> QED
      BY <1>7, <1>17, <2>1 DEF Paced
  <1>22. k \in [Ends -> Streams] /\ k[e] = bb /\ k[f] = gg
    BY <1>3, <1>12, <1>17
  <1>23. r \in Links /\ SendFlow(bb, r.send) /\ r.recv = l.recv
    <2> HIDE DEF l, tell
    <2> QED
      BY <1>19, FlushKeeps, FlushFlow
  <1>24. \A d \in Ends : NetFlow(k[d], Peer(d), net')
    <2>1. NetFlow(g, e, net) /\ NetFlow(b, f, net)
      BY <1>3, <1>6 DEF Flow, g, b, f
    <2>2. \A d \in Ends : NetFlow(k[d], Peer(d), net)
      BY <1>3, <1>12, <1>17, <1>22, <2>1 DEF f
    <2>3. NetFlow(bb, Peer(e), FlushDatagrams(e, l))
      <3> HIDE DEF l
      <3> QED
        BY <1>19, FlushNet
    <2>4. \A m \in FlushDatagrams(e, l) : m.to = Peer(e)
      BY DEF FlushDatagrams, Datagram
    <2> HIDE DEF k, l, tell
    <2>5. NetFlow(k[e], Peer(e), D) /\ \A m \in D : m.to = Peer(e)
      BY <1>22, <2>3, <2>4 DEF NetFlow
    <2> HIDE DEF D
    <2>6. \A d \in Ends : NetFlow(k[d], Peer(d), D)
      BY <2>5, NetOwn
    <2> QED
      BY <1>4, <2>2, <2>6, NetMoves
  <1> HIDE DEF k, l, r, D, tell
  <1>25. /\ p.type = "DATA" => /\ p.val = g.cnt[g.r] + 1 /\ g.cnt[g.r + 1] = g.cnt[g.r] + 1
                               /\ g.cnt[g.r] + 1 <= g.cnt[g.n]
         /\ p.type # "DATA" => g.cnt[g.r + 1] = g.cnt[g.r]
         /\ g.cnt[g.r] \in Nat
    <2>1. g.type[g.r] \in {"DATA", "WIND"} /\ g.cnt[g.r] \in Nat
      BY <1>5, <1>8 DEF Streams
    <2>2. g.r + 1 \in Nat /\ g.r + 1 <= g.n
      BY <1>8, <1>11
    <2>3. g.cnt[g.r + 1] <= g.cnt[g.n]
      BY <1>7, <1>8, <2>2 DEF Numbered
    <2>4. g.type[g.r] = "DATA" => g.val[g.r] = g.cnt[g.r] + 1 /\ g.cnt[g.r + 1] = g.cnt[g.r] + 1
      BY <1>7, <1>8, <1>11 DEF Numbered
    <2>5. g.type[g.r] = "WIND" => g.cnt[g.r + 1] = g.cnt[g.r]
      BY <1>7, <1>8, <1>11 DEF Numbered
    <2> QED
      BY <1>11, <2>1, <2>3, <2>4, <2>5
  <1>26. /\ Tally(k, sent', got')
         /\ got' = got \/ (Len(got) < sent /\ got' = Append(got, Len(got) + 1))
    <2>1. got \in Seq(Nat) /\ Len(got) \in Nat /\ sent \in Nat
      BY <1>1, <1>2, WindowFits DEF Tally, LinkTypes
    <2>2. CASE e = Sender
      <3>1. f = Receiver
        BY <2>2 DEF f, Peer
      <3>2. g.cnt[g.n] = 0 /\ b.cnt[b.n] = sent /\ Len(got) = b.cnt[b.r]
        BY <1>1, <2>2, <3>1 DEF Tally, g, b
      <3>3. p.type # "DATA"
        BY <1>25, <3>2
      <3>4. got' = got
        BY <1>4, <3>3
      <3> QED
        BY <1>4, <1>12, <1>17, <1>22, <2>1, <2>2, <3>1, <3>2, <3>4 DEF Tally
    <2>3. CASE e = Receiver
      <3>1. f = Sender
        BY <2>3, UdpAssumption DEF f, Peer
      <3>2. g.cnt[g.n] = sent /\ b.cnt[b.n] = 0 /\ Len(got) = g.cnt[g.r]
        BY <1>1, <2>3, <3>1 DEF Tally, g, b
      <3>3. CASE p.type = "DATA"
        <4>1. got' = Append(got, Len(got) + 1) /\ Len(got) < sent
          BY <1>4, <1>25, <2>1, <3>2, <3>3
        <4>2. got' \in Seq(Nat) /\ Len(got') = Len(got) + 1
          BY <2>1, <4>1
        <4> QED
          BY <1>4, <1>12, <1>17, <1>22, <1>25, <2>3, <3>1, <3>2, <3>3, <4>1, <4>2 DEF Tally
      <3>4. CASE p.type # "DATA"
        BY <1>4, <1>12, <1>17, <1>22, <1>25, <2>1, <2>3, <3>1, <3>2, <3>4 DEF Tally
      <3> QED
        BY <3>3, <3>4
    <2> QED
      BY <2>2, <2>3 DEF Ends
  <1>27. Within(k, link', net', overrun', setback')
    BY <1>1, <1>22, RecvWithin DEF f, g, b, gg, bb, v, w, tell
  <1>28. FlowInv'
    BY <1>2, <1>4, <1>7, <1>12, <1>17, <1>19, <1>20, <1>21, <1>22, <1>23, <1>24, <1>26, <1>27,
       FlowMoves DEF f
  <1> QED
    BY <1>4, <1>26, <1>28

-----------------------------------------------------------------------------
LEMMA FlowStarts == UdpInit => FlowInv
  <1> SUFFICES ASSUME UdpInit PROVE FlowInv
    OBVIOUS
  <1>1. PICK i \in Starts, j \in Starts, c \in 1..MaxCwnd :
          link = [e \in Ends |->
                   [send |-> Win(IF e = Sender THEN i ELSE j),
                    recv |-> Win(IF e = Sender THEN j ELSE i),
                    sequence |-> ((IF e = Sender THEN i ELSE j) + WinSize) % Mod,
                    cwnd |-> c, acks |-> 0, listed |-> FALSE, taken |-> FALSE,
                    freed |-> FALSE]]
    BY DEF UdpInit
  <1>2. net = {} /\ sent = 0 /\ got = <<>>
    BY DEF UdpInit
  <1> DEFINE g(s) == [start |-> s, n |-> 0, r |-> 0, type |-> [o \in Nat |-> "DATA"],
                      val |-> [o \in Nat |-> 0], cnt |-> [o \in Nat |-> 0]]
             h == [e \in Ends |-> g(IF e = Sender THEN i ELSE j)]
  <1>3. i \in Seqs /\ j \in Seqs
    BY UdpAssumption DEF Seqs
  <1>4. ASSUME NEW s \in Seqs
        PROVE  /\ g(s) \in Streams /\ Numbered(g(s)) /\ SendFlow(g(s), Win(s))
               /\ RecvFlow(g(s), Win(s)) /\ g(s).n = 0 /\ g(s).cnt[0] = 0 /\ g(s).r = 0
    <2>1. /\ g(s).n = 0 /\ g(s).r = 0 /\ g(s).start = s /\ g(s).cnt = [o \in Nat |-> 0]
          /\ g(s) \in Streams
      BY DEF Streams
    <2> HIDE DEF g
    <2>2. Plus(s, 0) = s
      BY SlotType
    <2>3. Numbered(g(s))
      BY <2>1 DEF Numbered
    <2>4. \A q \in Slots : Win(s).packs[q] = NULL
      BY DEF Win
    <2>5. Win(s).index = s /\ Win(s).length = 0
      BY DEF Win
    <2>6. SendFlow(g(s), Win(s))
      BY <2>1, <2>2, <2>4, <2>5 DEF SendFlow
    <2>7. RecvFlow(g(s), Win(s))
      BY <2>1, <2>2, <2>4, <2>5 DEF RecvFlow
    <2> QED
      BY <2>1, <2>3, <2>6, <2>7
  <1>5. /\ Sender \in Ends /\ Receiver \in Ends /\ Sender # Receiver
        /\ Peer(Sender) = Receiver /\ Peer(Receiver) = Sender
    BY UdpAssumption DEF Ends, Peer
  <1>6. h[Sender] = g(i) /\ h[Receiver] = g(j)
    BY <1>5
  <1>7. /\ link[Sender].send = Win(i) /\ link[Sender].recv = Win(j)
        /\ link[Receiver].send = Win(j) /\ link[Receiver].recv = Win(i)
    BY <1>1, <1>5
  <1>8. h \in [Ends -> Streams]
    BY <1>3, <1>4
  <1> HIDE DEF g, h
  <1>9. /\ Paced(h[Sender], link[Receiver].recv, h[Receiver])
        /\ Paced(h[Receiver], link[Sender].recv, h[Sender])
    <2>1. Win(i).full = FALSE /\ Win(j).full = FALSE
      BY DEF Win
    <2> QED
      BY <1>3, <1>4, <1>6, <1>7, <2>1 DEF Paced, Winds
  <1>10. Flow(h, Sender, link, net) /\ Flow(h, Receiver, link, net)
    BY <1>2, <1>3, <1>4, <1>5, <1>6, <1>7, <1>9 DEF Flow, NetFlow
  <1>11. Tally(h, sent, got)
    BY <1>2, <1>3, <1>4, <1>6 DEF Tally
  <1>12. Near(h[Sender], h[Receiver], link[Sender], link[Receiver].recv, net)
    <2>1. /\ link[Sender].sequence = (i + WinSize) % Mod /\ link[Sender].cwnd = c
          /\ c \in Nat /\ WinSize \in Nat
      BY <1>1, <1>5, WindowFits
    <2>2. /\ Win(i).length = 0 /\ Win(i).ready = i /\ \A q \in Slots : Win(i).packs[q] = NULL
      BY DEF Win
    <2>3. \A q \in Nat : Slot(Plus(i, q)) \in Slots
      BY <1>3, SlotType
    <2>4. g(i).n = 0 /\ g(i).r = 0 /\ g(i).start = i /\ g(j).n = 0
      BY DEF g
    <2>5. First(g(i), Win(i)) = 0
      BY <2>2, <2>4 DEF First
    <2>6. Placed(g(i), 0, WinSize, link[Sender])
      <3>1. Plus(i, 0) = i /\ Plus(i, WinSize) = (i + WinSize) % Mod
        BY <1>3, SlotType DEF Plus
      <3> QED
        BY <1>7, <2>1, <2>2, <2>4, <2>5, <3>1 DEF Placed
    <2>7. Lag(g(i), 0, WinSize, link[Sender])
      BY <1>7, <2>1, <2>4, WindowFits DEF Lag
    <2>8. SendHolds(g(i), Win(i), Win(i))
      BY <2>2, <2>4, <2>5 DEF SendHolds
    <2>9. RecvBelow(g(i), WinSize, Win(i)) /\ WindsTrue(g(i), g(j))
      BY <2>1, <2>2, <2>4 DEF RecvBelow, WindsTrue
    <2>10. NetBelow(g(i), WinSize, net) /\ AcksTrue(g(i), Win(i), net)
      BY <1>2 DEF NetBelow, AcksTrue
    <2>11. NearAt(g(i), g(j), 0, WinSize, link[Sender], Win(i), net)
      BY <1>7, <2>6, <2>7, <2>8, <2>9, <2>10 DEF NearAt
    <2> QED
      BY <1>6, <1>7, <2>1, <2>11 DEF Near
  <1> QED
    BY <1>8, <1>10, <1>11, <1>12 DEF FlowInv, Ends, Within

\* Everything in the windows and on the network is a copy of a pack of one of the two
\* streams, and the streams end before their numbers come round.
THEOREM FlowInvariant == UdpSpec => [](LinkInv /\ FlowInv)
  <1>1. LinkInv /\ FlowInv /\ [UdpNext]_vars => FlowInv'
    <2> SUFFICES ASSUME LinkInv, FlowInv, [UdpNext]_vars PROVE FlowInv'
      OBVIOUS
    <2>1. Sender \in Ends
      BY DEF Ends
    <2>2. ASSUME NEW m \in net, Lose(m) PROVE FlowInv'
      <3>1. PICK h \in [Ends -> Streams] :
               /\ \A e \in Ends : Flow(h, e, link, net)
               /\ Tally(h, sent, got) /\ Within(h, link, net, overrun, setback)
        BY DEF FlowInv
      <3>2. UNCHANGED <<link, sent, got, overrun, setback>> /\ net' \subseteq net
        BY <2>2 DEF Lose
      <3>3. \A d \in Ends : NetFlow(h[d], Peer(d), net)
        BY <3>1 DEF Flow
      <3>4. \A d \in Ends : NetFlow(h[d], Peer(d), net')
        BY <3>2, <3>3, NetRests
      <3>5. \A e \in Ends : Flow(h, e, link', net')
        BY <3>1, <3>2, <3>4 DEF Flow
      <3>6. Within(h, link', net', overrun', setback')
        <4>1. link' = [link EXCEPT ![Sender] = link[Sender]]
          BY <3>2 DEF LinkInv, LinkTypes
        <4> QED
          BY <2>1, <3>1, <3>2, <4>1, WithinSame
      <3> QED
        BY <3>1, <3>2, <3>5, <3>6 DEF FlowInv
    <2>3. CASE UNCHANGED vars
      <3>1. PICK h \in [Ends -> Streams] :
               /\ \A e \in Ends : Flow(h, e, link, net)
               /\ Tally(h, sent, got) /\ Within(h, link, net, overrun, setback)
        BY DEF FlowInv
      <3>2. UNCHANGED <<link, net, sent, got, overrun, setback>>
        BY <2>3 DEF vars
      <3> QED
        BY <3>1, <3>2 DEF FlowInv
    <2> QED
      BY <2>1, <2>2, <2>3, SendFlows, LoopFlows, DeliverFlows, RecvFlows DEF UdpNext
  <1> QED
    BY <1>1, FlowStarts, LinkInvariant, PTL DEF UdpSpec

\* The link implements MessageChannel: cavan_udp_sock_recv returns the messages of
\* cavan_udp_sock_send once each and in order, for any windows and any loss, repetition
\* and reordering.
THEOREM MessagesInOrder == UdpSpec => InOrder
  <1>1. UdpInit => Channel!ChannelInit
    BY DEF UdpInit, Channel!ChannelInit
  <1>2. LinkInv /\ FlowInv /\ [UdpNext]_vars =>
          [Channel!SendMessage \/ Channel!GetMessage]_<<sent, got>>
    <2> SUFFICES ASSUME LinkInv, FlowInv, [UdpNext]_vars
                 PROVE  [Channel!SendMessage \/ Channel!GetMessage]_<<sent, got>>
      OBVIOUS
    <2>1. CASE cavan_udp_sock_send
      BY <2>1, SendFlows DEF Channel!SendMessage
    <2>2. ASSUME NEW e \in Ends, cavan_udp_sock_recv(e)
          PROVE  Channel!GetMessage \/ UNCHANGED <<sent, got>>
      BY <2>2, RecvFlows DEF Channel!GetMessage
    <2>3. ASSUME NEW m \in net, Lose(m) PROVE UNCHANGED <<sent, got>>
      BY <2>3 DEF Lose
    <2>4. CASE UNCHANGED vars
      BY <2>4 DEF vars
    <2>5. Sender \in Ends
      BY DEF Ends
    <2> QED
      BY <2>1, <2>2, <2>3, <2>4, <2>5, LoopFlows, DeliverFlows DEF UdpNext
  <1> QED
    BY <1>1, <1>2, FlowInvariant, PTL DEF UdpSpec, InOrder, Channel!ChannelSpec

\* A message that has left the Sender's window has arrived, as long as no resend has passed
\* the receiver's limit and no late number has set the limit back.
THEOREM AcknowledgedArrived == UdpSpec => []AckedArrived
  <1>1. LinkInv /\ FlowInv => AckedArrived
    <2> SUFFICES ASSUME LinkInv, FlowInv, ~overrun, ~setback, NEW n \in 1..sent
                 PROVE  \/ n <= Len(got)
                        \/ \E i \in Slots : /\ link[Sender].send.packs[i] # NULL
                                            /\ link[Sender].send.packs[i].val = n
                        \/ \E i \in Slots : /\ link[Receiver].recv.packs[i] # NULL
                                            /\ link[Receiver].recv.packs[i].val = n
      BY DEF AckedArrived
    <2>1. PICK h \in [Ends -> Streams] :
             /\ \A e \in Ends : Flow(h, e, link, net)
             /\ Tally(h, sent, got) /\ Within(h, link, net, overrun, setback)
      BY DEF FlowInv
    <2>2. /\ h[Sender] \in Streams /\ Short(h[Sender]) /\ Sender \in Ends
          /\ SendFlow(h[Sender], link[Sender].send) /\ RecvFlow(h[Sender], link[Receiver].recv)
          /\ link[Sender] \in Links
      BY <2>1, SenderFacts
    <2>3. Numbered(h[Sender]) /\ link[Sender].send \in Windows
      BY <2>1, <2>2 DEF Flow, Links
    <2>4. Near(h[Sender], h[Receiver], link[Sender], link[Receiver].recv, net)
      BY <2>1 DEF Within
    <2>5. h[Sender].cnt[h[Sender].n] = sent /\ Len(got) = h[Sender].cnt[h[Sender].r]
      BY <2>1 DEF Tally
    <2>6. n \in Nat /\ 0 < n /\ n <= sent
      BY WindowFits DEF LinkInv, LinkTypes
    <2> QED
      BY <2>2, <2>3, <2>4, <2>5, <2>6, NearArrived
  <1> QED
    BY <1>1, FlowInvariant, PTL
=============================================================================
