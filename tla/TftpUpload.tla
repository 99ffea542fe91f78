------------------------------ MODULE TftpUpload ------------------------------
(***************************************************************************)
(* lib/tftp.c: sending a file to the server, tftp_client_send_file on one  *)
(* side, tftp_service_receive_data started by the write request on the     *)
(* other.                                                                  *)
(***************************************************************************)
EXTENDS TftpNet

Wrq == Pkt(Client, Server, "WRQ", 0, 0)
Ack(h, n) == Pkt(h, Client, "ACK", n % Mod, 0)
Data(h, n) == Pkt(Client, h, "DATA", n % Mod, n)

\* The request has been sent once and the client polls for an answer to it.  A file
\* without data (0 blocks) is not sent at all, "no data to send": the call returns 0
\* and the server hears nothing, so that its file stays what it was.
UploadInit ==
    /\ blocks \in Sizes
    /\ client = [pc |-> IF blocks = 0 THEN "nothing" ELSE "request",
                 blk |-> 0, peer |-> Server, left |-> Retry - 1]
    /\ handler = [h \in Handlers |-> [pc |-> "idle", blk |-> 0, left |-> 0]]
    /\ file = Empty
    /\ net = IF blocks = 0 THEN {} ELSE {Wrq}
    /\ dup \in Networks
    /\ odd = {}

(***************************************************************************)
(* The client.                                                             *)
(***************************************************************************)
LastSent == IF client.pc = "request" THEN Wrq ELSE Data(client.peer, client.blk)

AckMatchesAny(p) == p.blk >= 0

\* if (ntohs(pkg.ack.blk_num) != blk_num)
AckMatches(p) == p.blk = client.blk % Mod

\* The block is acknowledged: read the next one and send it to who answered.
ClientNext(p) ==
    /\ ClientSees(p, "ACK") /\ AckMatches(p) /\ client.blk < blocks
    /\ client' = [pc |-> "data", blk |-> client.blk + 1, peer |-> p.from, left |-> Retry - 1]
    /\ Exchange(p, {Data(p.from, client.blk + 1)})
    /\ UNCHANGED <<blocks, handler, file, dup, odd>>

ClientReadFails(p) ==
    /\ ClientSees(p, "ACK") /\ AckMatches(p) /\ client.blk < blocks
    /\ client' = [client EXCEPT !.pc = "failed", !.peer = p.from]
    /\ Exchange(p, {Error(Client, p.from)})
    /\ UNCHANGED <<blocks, handler, file, dup, odd>>

\* The short block is acknowledged: the transfer is a success.
ClientDone(p) ==
    /\ ClientSees(p, "ACK") /\ AckMatches(p) /\ client.blk = blocks
    /\ client' = [client EXCEPT !.pc = "done", !.peer = p.from]
    /\ Exchange(p, {})
    /\ UNCHANGED <<blocks, handler, file, dup, odd>>

\* Another number: the current block once more, to who sent it.
ClientOther(p) ==
    /\ ClientSees(p, "ACK") /\ ~AckMatches(p)
    /\ client' = [client EXCEPT !.pc = "data", !.peer = p.from, !.left = Retry - 1]
    /\ Exchange(p, {Data(p.from, client.blk)})
    /\ UNCHANGED <<blocks, handler, file, dup, odd>>

ClientError(p) ==
    /\ ClientSees(p, "ERROR")
    /\ client' = [client EXCEPT !.pc = "failed", !.peer = p.from]
    /\ Exchange(p, {})
    /\ UNCHANGED <<blocks, handler, file, dup, odd>>

\* recvfrom fails: ret is set, but the break leads to out_success, where it becomes
\* 0.  "cut" is a call that returned 0 so, wherever the transfer was.
ClientRecvFails ==
    /\ ClientRuns
    /\ client' = [client EXCEPT !.pc = "cut"]
    /\ UNCHANGED <<blocks, handler, file, net, dup, odd>>

(***************************************************************************)
(* A receiver.                                                             *)
(***************************************************************************)
\* A write request: the file is opened with O_TRUNC and number 0 acknowledged.
HandlerOpen(h, p) ==
    /\ HandlerAsked(h, p, "WRQ")
    /\ handler' = [handler EXCEPT ![h] = [pc |-> "data", blk |-> 0, left |-> Retry - 1]]
    /\ file' = Empty
    /\ odd' = IF file = Empty THEN odd ELSE odd \cup {"truncated"}
    /\ Exchange(p, {Ack(h, 0)})
    /\ UNCHANGED <<blocks, client, dup>>

HandlerOpenFails(h, p) ==
    /\ HandlerAsked(h, p, "WRQ")
    /\ handler' = [handler EXCEPT ![h].pc = "failed"]
    /\ Exchange(p, {Error(h, Client)})
    /\ UNCHANGED <<blocks, client, file, dup, odd>>

\* if ((int) ntohs(pkg.data.blk_num) != blk_num + 1): an int, it does not wrap.
DataMatches(h, p) == p.blk = (handler[h].blk % Mod) + 1

\* write: the whole block or, on a full disk, a part of it (a hole to us).
\* A short one ends the transfer as complete, whatever made it short.
HandlerWrite(h, p) == \E whole \in BOOLEAN :
    /\ HandlerSees(h, p, "DATA") /\ DataMatches(h, p)
    /\ file' = IF whole THEN [file EXCEPT ![handler[h].blk + 1] = p.body] ELSE file
    /\ odd' = IF whole THEN odd ELSE odd \cup {"short write"}
    /\ handler' = [handler EXCEPT ![h] =
           [pc |-> IF whole /\ p.body < blocks THEN "data" ELSE "done",
            blk |-> @.blk + 1, left |-> Retry - 1]]
    /\ Exchange(p, {Ack(h, handler[h].blk + 1)})
    /\ UNCHANGED <<blocks, client, dup>>

HandlerWriteFails(h, p) ==
    /\ HandlerSees(h, p, "DATA") /\ DataMatches(h, p)
    /\ handler' = [handler EXCEPT ![h].pc = "failed"]
    /\ Exchange(p, {Error(h, Client)})
    /\ UNCHANGED <<blocks, client, file, dup, odd>>

HandlerOther(h, p) ==
    /\ HandlerSees(h, p, "DATA") /\ ~DataMatches(h, p)
    /\ handler' = [handler EXCEPT ![h].left = Retry - 1]
    /\ Exchange(p, {Ack(h, handler[h].blk)})
    /\ UNCHANGED <<blocks, client, file, dup, odd>>

HandlerError(h, p) ==
    /\ HandlerSees(h, p, "ERROR")
    /\ handler' = [handler EXCEPT ![h].pc = "failed"]
    /\ Exchange(p, {})
    /\ UNCHANGED <<blocks, client, file, dup, odd>>

(***************************************************************************)
(* The specification.                                                      *)
(***************************************************************************)
ClientReceives(p) ==
    ClientNext(p) \/ ClientReadFails(p) \/ ClientDone(p) \/ ClientOther(p) \/ ClientError(p)

HandlerReceives(h, p) ==
    \/ HandlerOpen(h, p) \/ HandlerOpenFails(h, p) \/ HandlerWrite(h, p)
    \/ HandlerWriteFails(h, p) \/ HandlerOther(h, p) \/ HandlerError(h, p)

UploadClient ==
    \/ ClientResend(LastSent) \/ ClientGiveUp \/ ClientFails \/ ClientRecvFails
    \/ \E p \in net : ClientReceives(p)

UploadHandler(h) ==
    \/ HandlerResend(h, Ack(h, handler[h].blk)) \/ HandlerGiveUp(h) \/ HandlerFails(h)
    \/ \E p \in net : HandlerReceives(h, p)

UploadNext == UploadClient \/ \E h \in Handlers : UploadHandler(h)

UploadTypeOK ==
    /\ blocks \in Sizes
    /\ client \in [pc : {"request", "data", "nothing", "cut", "done", "failed"}, blk : 0 .. blocks,
                   peer : Handlers \cup {Server}, left : 0 .. Retry - 1]
    /\ handler \in [Handlers -> [pc : {"idle", "data", "done", "failed"},
                                 blk : 0 .. blocks, left : 0 .. Retry - 1]]
    /\ file \in [1 .. blocks -> 0 .. blocks]
    /\ net \subseteq [from : {Client} \cup Handlers, to : {Client, Server} \cup Handlers,
                      op : {"WRQ", "ACK", "DATA", "ERROR"}, blk : 0 .. Mod - 1, body : 0 .. blocks]
    /\ dup \in BOOLEAN
    /\ odd \subseteq {"truncated", "short write"}
=============================================================================
