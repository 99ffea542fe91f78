----------------------------- MODULE MCHandshake -----------------------------
(* Two connecting threads against a socket that can allocate two links.       *)
EXTENDS UdpHandshake
=============================================================================
