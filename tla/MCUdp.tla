-------------------------------- MODULE MCUdp --------------------------------
(* lib/udp.c with windows of three packs and sequence numbers that wrap at 24.   *)
EXTENDS UdpLink
=============================================================================
