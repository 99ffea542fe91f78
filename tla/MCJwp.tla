-------------------------------- MODULE MCJwp --------------------------------
(* Three messages: one end sends often enough for its index to wrap, or the     *)
(* other end's message crosses its own.                                         *)
EXTENDS JwpLink

Sends == [e \in {"a", "b"} |-> IF e = "a" THEN 3 ELSE 1]
=============================================================================
