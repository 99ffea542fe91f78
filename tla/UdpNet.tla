-------------------------------- MODULE UdpNet --------------------------------
(***************************************************************************)
(* The network under lib/udp.c, which loses, repeats and reorders, as its  *)
(* handshake and its established links see it.                             *)
(***************************************************************************)
EXTENDS Integers, FiniteSets

CONSTANTS
    MaxSend,     \* CAVAN_UDP_MAX_SEND
    NetCap       \* bound: datagrams in flight at a time

ASSUME UdpNetAssumption == MaxSend \in Nat /\ NetCap \in Nat

VARIABLE
    net          \* the datagrams in flight

\* inet_sendto: any part of what is sent may be lost at once.
Transmit(base, datagrams) ==
    \E kept \in SUBSET datagrams :
        /\ Cardinality(base \cup kept) <= NetCap
        /\ net' = base \cup kept

\* The network hands over a datagram, of which a copy may stay behind.
Rest(m) == {net, net \ {m}}
=============================================================================
