------------------------------- MODULE TftpNet -------------------------------
(***************************************************************************)
(* What both directions of lib/tftp.c share: a client and the handlers its *)
(* request starts on the server exchange datagrams with sendto_select      *)
(* (lib/network.c): send, poll for an answer, send again after a timeout,  *)
(* give up after Retry sends.  The request too is sent that way, and every *)
(* copy of it that reaches the server starts a handler of its own on a     *)
(* socket of its own; the client answers whichever handler it heard last.  *)
(*                                                                         *)
(* Data abstraction: block k of the file is the number k, the last block   *)
(* is the short one, and a datagram is a record.  Datagrams are overtaken, *)
(* lost (never received) and, with dup, delivered again.                   *)
(***************************************************************************)
EXTENDS Naturals

CONSTANTS
    Client, Server,     \* the client's socket and the server's known port
    MaxHandlers,        \* bound: handlers the server starts for the request
    Mod,                \* block numbers are u16: 2^16 in the code
    Retry,              \* TFTP_RETRY_COUNT
    Sizes               \* the lengths of the file, in blocks

ASSUME TftpAssumption ==
    /\ Mod \in Nat /\ Mod > 1 /\ Retry \in Nat \ {0}
    /\ MaxHandlers \in Nat /\ Sizes \subseteq Nat
    /\ Client \notin (1 .. MaxHandlers) \cup {Server}

VARIABLES
    blocks,     \* the number of blocks of the file at its source
    client,     \* the client's call: its place, blk_num, peer and sends left
    handler,    \* the same of each handler
    file,       \* the copy: block at each position, 0 for a hole
    net,        \* datagrams under way
    dup,        \* the network delivers datagrams more than once
    odd         \* history: what the code lets happen to the copy behind a transfer

\* The handlers in the order the server starts them.
Handlers == 1 .. MaxHandlers

tftpVars == <<blocks, client, handler, file, net, dup, odd>>

\* A network that repeats datagrams need not do so: files too long for the property
\* that needs the other kind are only sent over this one.
Networks == IF blocks < Mod THEN BOOLEAN ELSE {TRUE}

Empty == [k \in 1 .. blocks |-> 0]

Pkt(from, to, op, blk, body) ==
    [from |-> from, to |-> to, op |-> op, blk |-> blk, body |-> body]
Error(from, to) == Pkt(from, to, "ERROR", 0, 0)

\* The network after p is received (and perhaps kept, for another delivery) and ps sent.
Exchange(p, ps) == net' = (IF dup THEN net ELSE net \ {p}) \cup ps

ClientRuns == client.pc \in {"request", "data"}
ClientSees(p, op) == ClientRuns /\ p \in net /\ p.to = Client /\ p.op = op
HandlerSees(h, p, op) ==
    handler[h].pc = "data" /\ p \in net /\ p.to = h /\ p.op = op

\* A copy of the request reaches the server: the next handler is started for it.
HandlerAsked(h, p, op) ==
    /\ \A g \in Handlers : handler[g].pc = "idle" <=> g >= h
    /\ p \in net /\ p.op = op

\* sendto_select without an answer in time: what was sent last is sent again...
ClientResend(p) ==
    /\ ClientRuns /\ client.left > 0
    /\ client' = [client EXCEPT !.left = @ - 1]
    /\ net' = net \cup {p}
    /\ UNCHANGED <<blocks, handler, file, dup, odd>>

HandlerResend(h, p) ==
    /\ handler[h].pc = "data" /\ handler[h].left > 0
    /\ handler' = [handler EXCEPT ![h].left = @ - 1]
    /\ net' = net \cup {p}
    /\ UNCHANGED <<blocks, client, file, dup, odd>>

\* ... or, after Retry sends, the call fails.
ClientGiveUp ==
    /\ ClientRuns /\ client.left = 0
    /\ client' = [client EXCEPT !.pc = "failed"]
    /\ UNCHANGED <<blocks, handler, file, net, dup, odd>>

\* The socket fails: sendto does, or recvfrom after the poll, and with it the call.
\* (The recvfrom of an upload's client is not like that: see ClientRecvFails there.)
ClientFails ==
    /\ ClientRuns
    /\ client' = [client EXCEPT !.pc = "failed"]
    /\ UNCHANGED <<blocks, handler, file, net, dup, odd>>

HandlerFails(h) ==
    /\ handler[h].pc = "data"
    /\ handler' = [handler EXCEPT ![h].pc = "failed"]
    /\ UNCHANGED <<blocks, client, file, net, dup, odd>>

HandlerGiveUpNot(h) ==
    /\ handler[h].pc = "data" /\ handler[h].left = 0
    /\ handler' = [handler EXCEPT ![h].left = Retry]
    /\ UNCHANGED <<blocks, client, file, net, dup, odd>>

HandlerGiveUp(h) ==
    /\ handler[h].pc = "data" /\ handler[h].left = 0
    /\ handler' = [handler EXCEPT ![h].pc = "failed"]
    /\ UNCHANGED <<blocks, client, file, net, dup, odd>>
=============================================================================
