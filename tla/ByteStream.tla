------------------------------ MODULE ByteStream ------------------------------
(* What a cavan_cache promises: a bounded stream of bytes.  What the writers   *)
(* offer goes in at one end, in chunks, and comes out at the other in the same *)
(* order, each byte once.  A closed stream may cut a write short.              *)
EXTENDS Naturals, Sequences

CONSTANTS Writers, Bytes, Capacity

VARIABLES
    stream,   \* the bytes written and not yet read
    offer,    \* the bytes each writer has still to write
    closed,   \* the stream has been closed
    out       \* the chunk the last read delivered

streamVars == <<stream, offer, closed, out>>

StreamInit ==
    /\ stream = <<>>
    /\ offer = [w \in Writers |-> <<>>]
    /\ closed = FALSE
    /\ out = <<>>

\* A writer offers some bytes.
StreamOffer(w) ==
    /\ offer[w] = <<>>
    /\ offer'[w] \in Seq(Bytes) \ {<<>>}
    /\ offer' = [offer EXCEPT ![w] = offer'[w]]
    /\ UNCHANGED <<stream, closed, out>>

\* The first n bytes of an offer enter the stream, as far as there is room.
StreamWrite(w) ==
    /\ \E n \in 1..Len(offer[w]) :
          LET rest == SubSeq(offer[w], n + 1, Len(offer[w]))
          IN  /\ Len(stream) + n <= Capacity
              /\ stream' = stream \o SubSeq(offer[w], 1, n)
              /\ \/ offer' = [offer EXCEPT ![w] = rest]
                 \/ closed /\ offer' = [offer EXCEPT ![w] = <<>>]
    /\ UNCHANGED <<closed, out>>

\* A writer gives up what does not fit into a closed stream.
StreamGiveUp(w) ==
    /\ closed /\ Len(stream) = Capacity
    /\ offer' = [offer EXCEPT ![w] = <<>>]
    /\ UNCHANGED <<stream, closed, out>>

StreamRead ==
    /\ \E n \in 1..Len(stream) :
          /\ out' = SubSeq(stream, 1, n)
          /\ stream' = SubSeq(stream, n + 1, Len(stream))
    /\ UNCHANGED <<offer, closed>>

StreamClose == closed' = TRUE /\ UNCHANGED <<stream, offer, out>>

StreamOpen == closed /\ closed' = FALSE /\ stream' = <<>> /\ UNCHANGED <<offer, out>>

StreamNext ==
    \/ \E w \in Writers : StreamOffer(w) \/ StreamWrite(w) \/ StreamGiveUp(w)
    \/ StreamRead
    \/ StreamClose
    \/ StreamOpen

StreamSpec == StreamInit /\ [][StreamNext]_streamVars
=============================================================================
