----------------------------- MODULE TftpDownload -----------------------------
(***************************************************************************)
(* lib/tftp.c: fetching a file from the server, tftp_client_receive_file   *)
(* on one side, tftp_service_send_data started by the read request on the  *)
(* other.  Numbers differ from the other direction: the first block is 1   *)
(* and an acknowledgement carries the number of the block wanted next.  A  *)
(* file of 0 blocks is a request whose offset lies beyond the end.         *)
(***************************************************************************)
EXTENDS TftpNet

Rrq == Pkt(Client, Server, "RRQ", 0, 0)
Ack(h, n) == Pkt(Client, h, "ACK", n % Mod, 0)
Data(h, n) == Pkt(h, Client, "DATA", n % Mod, n)

\* The client's file is open and empty, the request has been sent once.
DownloadInit ==
    /\ blocks \in Sizes
    /\ client = [pc |-> "request", blk |-> 1, peer |-> Server, left |-> Retry - 1]
    /\ handler = [h \in Handlers |-> [pc |-> "idle", blk |-> 1, left |-> 0]]
    /\ file = Empty
    /\ net = {Rrq}
    /\ dup \in Networks
    /\ odd = {}

(***************************************************************************)
(* The client.                                                             *)
(***************************************************************************)
LastSent == IF client.pc = "request" THEN Rrq ELSE Ack(client.peer, client.blk)

DataMatchesLater(p) == p.blk >= client.blk % Mod

\* if (ntohs(pkg.data.blk_num) != blk_num)
DataMatches(p) == p.blk = client.blk % Mod

\* write: the whole block or, on a full disk, a part of it (nothing to us).  A
\* short one ends the transfer as complete, whatever made it short.
ClientWrite(p) == \E whole \in BOOLEAN :
    /\ ClientSees(p, "DATA") /\ DataMatches(p)
    /\ file' = IF whole THEN [file EXCEPT ![client.blk] = p.body] ELSE file
    /\ odd' = IF whole THEN odd ELSE odd \cup {"short write"}
    /\ client' = [pc |-> IF whole /\ p.body < blocks THEN "data" ELSE "done",
                  blk |-> client.blk + 1, peer |-> p.from, left |-> Retry - 1]
    /\ Exchange(p, {Ack(p.from, client.blk + 1)})
    /\ UNCHANGED <<blocks, handler, dup>>

ClientWriteFails(p) ==
    /\ ClientSees(p, "DATA") /\ DataMatches(p)
    /\ client' = [client EXCEPT !.pc = "failed", !.peer = p.from]
    /\ Exchange(p, {Error(Client, p.from)})
    /\ UNCHANGED <<blocks, handler, file, dup, odd>>

\* Another number: the block wanted is asked for again, of who sent it.
ClientOther(p) ==
    /\ ClientSees(p, "DATA") /\ ~DataMatches(p)
    /\ client' = [client EXCEPT !.pc = "data", !.peer = p.from, !.left = Retry - 1]
    /\ Exchange(p, {Ack(p.from, client.blk)})
    /\ UNCHANGED <<blocks, handler, file, dup, odd>>

ClientError(p) ==
    /\ ClientSees(p, "ERROR")
    /\ client' = [client EXCEPT !.pc = "failed", !.peer = p.from]
    /\ Exchange(p, {})
    /\ UNCHANGED <<blocks, handler, file, dup, odd>>

(***************************************************************************)
(* A sender.                                                               *)
(***************************************************************************)
HandlerOpen(h, p) ==
    /\ HandlerAsked(h, p, "RRQ") /\ blocks > 0
    /\ handler' = [handler EXCEPT ![h].pc = "data", ![h].left = Retry - 1]
    /\ Exchange(p, {Data(h, 1)})
    /\ UNCHANGED <<blocks, client, file, dup, odd>>

\* open, fstat, lseek or the first read fails.
HandlerOpenFails(h, p) ==
    /\ HandlerAsked(h, p, "RRQ")
    /\ handler' = [handler EXCEPT ![h].pc = "failed"]
    /\ Exchange(p, {Error(h, Client)})
    /\ UNCHANGED <<blocks, client, file, dup, odd>>

\* "no data to send": success, and not a word to the client.
HandlerNoData(h, p) ==
    /\ HandlerAsked(h, p, "RRQ") /\ blocks = 0
    /\ handler' = [handler EXCEPT ![h].pc = "no data"]
    /\ Exchange(p, {})
    /\ UNCHANGED <<blocks, client, file, dup, odd>>

\* if ((int) ntohs(pkg.ack.blk_num) != blk_num + 1): an int, it does not wrap.
AckMatches(h, p) == p.blk = (handler[h].blk % Mod) + 1

\* The next block is read and sent.
HandlerNext(h, p) ==
    /\ HandlerSees(h, p, "ACK") /\ AckMatches(h, p) /\ handler[h].blk < blocks
    /\ handler' = [handler EXCEPT ![h].blk = @ + 1, ![h].left = Retry - 1]
    /\ Exchange(p, {Data(h, handler[h].blk + 1)})
    /\ UNCHANGED <<blocks, client, file, dup, odd>>

HandlerReadFails(h, p) ==
    /\ HandlerSees(h, p, "ACK") /\ AckMatches(h, p) /\ handler[h].blk < blocks
    /\ handler' = [handler EXCEPT ![h].pc = "failed", ![h].blk = @ + 1]
    /\ Exchange(p, {Error(h, Client)})
    /\ UNCHANGED <<blocks, client, file, dup, odd>>

HandlerDone(h, p) ==
    /\ HandlerSees(h, p, "ACK") /\ AckMatches(h, p) /\ handler[h].blk = blocks
    /\ handler' = [handler EXCEPT ![h].pc = "done"]
    /\ Exchange(p, {})
    /\ UNCHANGED <<blocks, client, file, dup, odd>>

HandlerOther(h, p) ==
    /\ HandlerSees(h, p, "ACK") /\ ~AckMatches(h, p)
    /\ handler' = [handler EXCEPT ![h].left = Retry - 1]
    /\ Exchange(p, {Data(h, handler[h].blk)})
    /\ UNCHANGED <<blocks, client, file, dup, odd>>

HandlerError(h, p) ==
    /\ HandlerSees(h, p, "ERROR")
    /\ handler' = [handler EXCEPT ![h].pc = "failed"]
    /\ Exchange(p, {})
    /\ UNCHANGED <<blocks, client, file, dup, odd>>

(***************************************************************************)
(* The specification.                                                      *)
(***************************************************************************)
ClientReceives(p) ==
    ClientWrite(p) \/ ClientWriteFails(p) \/ ClientOther(p) \/ ClientError(p)

HandlerReceives(h, p) ==
    \/ HandlerOpen(h, p) \/ HandlerOpenFails(h, p) \/ HandlerNoData(h, p)
    \/ HandlerNext(h, p) \/ HandlerReadFails(h, p) \/ HandlerDone(h, p)
    \/ HandlerOther(h, p) \/ HandlerError(h, p)

DownloadClient ==
    ClientResend(LastSent) \/ ClientGiveUp \/ ClientFails \/ \E p \in net : ClientReceives(p)

DownloadHandler(h) ==
    \/ HandlerResend(h, Data(h, handler[h].blk)) \/ HandlerGiveUp(h) \/ HandlerFails(h)
    \/ \E p \in net : HandlerReceives(h, p)

DownloadNext == DownloadClient \/ \E h \in Handlers : DownloadHandler(h)

DownloadTypeOK ==
    /\ blocks \in Sizes
    /\ client \in [pc : {"request", "data", "done", "failed"}, blk : 1 .. blocks + 1,
                   peer : Handlers \cup {Server}, left : 0 .. Retry - 1]
    /\ handler \in [Handlers -> [pc : {"idle", "data", "no data", "done", "failed"},
                                 blk : 1 .. blocks + 1, left : 0 .. Retry - 1]]
    /\ file \in [1 .. blocks -> 0 .. blocks]
    /\ net \subseteq [from : {Client} \cup Handlers, to : {Client, Server} \cup Handlers,
                      op : {"RRQ", "ACK", "DATA", "ERROR"}, blk : 0 .. Mod - 1, body : 0 .. blocks]
    /\ dup \in BOOLEAN
    /\ odd \subseteq {"short write"}
=============================================================================
