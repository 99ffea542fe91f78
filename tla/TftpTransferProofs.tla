-------------------------- MODULE TftpTransferProofs --------------------------
(***************************************************************************)
(* Proofs about TftpTransfer, for every number of block numbers, of        *)
(* handlers and of retries and every set of file lengths.                  *)
(*                                                                         *)
(* The two directions have invariants of their own.  Both rest on what the *)
(* numbers of the datagrams under way mean, however old the datagrams are: *)
(* a block carries its number modulo Mod, and an acknowledgement stands    *)
(* for blocks that were written before it was sent.  A side that compares  *)
(* an int with a 16-bit number stops before the numbers wrap, which keeps  *)
(* every receiver of an upload, and every sender of a download, below Mod. *)
(***************************************************************************)
EXTENDS TftpTransfer, TLAPS

\* The first n blocks of the copy are there, or the code let something happen to it.
Written(n) == odd # {} \/ \A k \in 1 .. n : file[k] = k

InPlace == \A k \in 1 .. blocks : file[k] \in {0, k}

-----------------------------------------------------------------------------
(* Upload.                                                                  *)

\* What the number of a datagram says when the file is short enough for it to be exact.
Kept(n) == blocks <= Mod => Written(n)

UpPkt(p) ==
    /\ p.to = Client => p.from \in Handlers
    /\ p.op = "DATA" => p.blk = p.body % Mod
    /\ p.op = "ACK" => p.blk <= blocks /\ Kept(p.blk)

UpNet == \A p \in net : UpPkt(p)

UpHandlers ==
    \A h \in Handlers :
        /\ handler[h].blk < Mod
        /\ Kept(handler[h].blk)
        /\ handler[h].pc = "done" => Kept(blocks)

UpClient == client.pc = "done" /\ blocks < Mod => Written(blocks)

UpFile == blocks <= Mod => InPlace

UpInv == UploadTypeOK /\ UpNet /\ UpHandlers /\ UpClient /\ UpFile

-----------------------------------------------------------------------------
(* Download.                                                                *)

DownPkt(p) ==
    /\ p.to = Client => p.from \in Handlers
    /\ p.op = "DATA" => p.blk = p.body /\ p.body > 0
    /\ p.op = "ACK" => p.blk <= client.blk

DownNet == \A p \in net : DownPkt(p)

DownHandlers ==
    \A h \in Handlers :
        /\ handler[h].blk < Mod
        /\ blocks > 0 => handler[h].blk <= blocks
        /\ handler[h].pc = "data" => blocks > 0
        /\ handler[h].pc = "done" => Written(blocks)

DownClient ==
    /\ client.blk <= Mod
    /\ Written(client.blk - 1)
    /\ client.pc = "done" => Written(blocks)

DownInv == Down!DownloadTypeOK /\ DownNet /\ DownHandlers /\ DownClient /\ InPlace

TransferInv ==
    \/ dir = "up" /\ UpInv
    \/ dir = "down" /\ DownInv

-----------------------------------------------------------------------------
(* The steps of an upload.                                                  *)

\* The fields of a datagram.
PktType == [from : {Client} \cup Handlers, to : {Client, Server} \cup Handlers,
            op : {"WRQ", "ACK", "DATA", "ERROR"}, blk : 0 .. Mod - 1, body : 0 .. blocks]

\* A step that neither writes nor opens the copy leaves what is written of it alone.
LEMMA UpQuiet ==
    ASSUME UpInv, UNCHANGED <<blocks, file, odd>>,
           NEW q \in PktType, net' \subseteq net \cup {q}, UpPkt(q)
    PROVE  /\ net' \subseteq PktType
           /\ UpNet' /\ UpFile'
           /\ \A n \in Nat : Kept(n) => Kept(n)'
           /\ \A n \in Nat : Written(n) => Written(n)'
  <1>1. Empty' = Empty
    BY DEF Empty
  <1>2. \A n \in Nat : (Written(n) => Written(n)') /\ (Kept(n) => Kept(n)')
    BY DEF Written, Kept
  <1>3. net \subseteq PktType
    BY DEF UpInv, UploadTypeOK, PktType
  <1>4. net' \subseteq PktType
    BY <1>3
  <1>5. \A p \in PktType : p.blk \in Nat
    BY TftpAssumption DEF PktType
  <1>6. ASSUME NEW p \in PktType, UpPkt(p)
        PROVE  UpPkt(p)'
    BY <1>2, <1>5, <1>6 DEF UpPkt
  <1>7. UpNet'
    BY <1>3, <1>6 DEF UpInv, UpNet
  <1>8. UpFile'
    BY DEF UpInv, UpFile, InPlace
  <1> QED BY <1>2, <1>4, <1>7, <1>8

\* The remainders the numbers are.
LEMMA ModFacts ==
    /\ Mod \in Nat /\ Mod > 1
    /\ \A n \in Nat : n % Mod \in 0 .. Mod - 1
    /\ \A n \in Nat : n < Mod => n % Mod = n
    /\ \A n \in Nat : n % Mod <= n
    /\ Mod % Mod = 0
  <1>1. Mod \in Nat /\ Mod > 1
    BY TftpAssumption
  <1>2. \A n \in Nat : n % Mod \in 0 .. Mod - 1
    BY <1>1
  <1>3. \A n \in Nat : n < Mod => n % Mod = n
    BY <1>1
  <1>4. \A n \in Nat : n % Mod <= n
    <2> TAKE n \in Nat
    <2>1. CASE n < Mod
      BY <2>1, <1>3
    <2>2. CASE n >= Mod
      BY <2>2, <1>1, <1>2
    <2> QED BY <1>1, <2>1, <2>2
  <1>5. Mod % Mod = 0
    BY <1>1
  <1> QED BY <1>1, <1>2, <1>3, <1>4, <1>5

\* What the type invariant says of the numbers, field by field.
LEMMA UpTypes ==
    ASSUME UpInv
    PROVE  /\ blocks \in Nat
           /\ client.blk \in 0 .. blocks
           /\ client.peer \in Handlers \cup {Server}
           /\ client.left \in 0 .. Retry - 1
           /\ client.pc \in {"request", "data", "nothing", "cut", "done", "failed"}
           /\ client \in [pc : {"request", "data", "nothing", "cut", "done", "failed"}, blk : 0 .. blocks,
                          peer : Handlers \cup {Server}, left : 0 .. Retry - 1]
           /\ \A h \in Handlers : handler[h].blk \in Nat /\ handler[h].blk \in 0 .. blocks
           /\ net \subseteq PktType
  <1>1. blocks \in Nat
    <2>1. blocks \in Sizes
      BY DEF UpInv, UploadTypeOK
    <2> QED BY <2>1, TftpAssumption
  <1>2. client \in [pc : {"request", "data", "nothing", "cut", "done", "failed"}, blk : 0 .. blocks,
                    peer : Handlers \cup {Server}, left : 0 .. Retry - 1]
    BY DEF UpInv, UploadTypeOK
  <1>3. handler \in [Handlers -> [pc : {"idle", "data", "done", "failed"},
                                  blk : 0 .. blocks, left : 0 .. Retry - 1]]
    BY DEF UpInv, UploadTypeOK
  <1>4. \A h \in Handlers : handler[h].blk \in Nat /\ handler[h].blk \in 0 .. blocks
    BY <1>1, <1>3
  <1>5. net \subseteq PktType
    BY DEF UpInv, UploadTypeOK, PktType
  <1> QED BY <1>1, <1>2, <1>4, <1>5

\* The client of an upload keeps the invariant.
LEMMA UpClientKeeps ==
    ASSUME UpInv, UploadClient
    PROVE  UpInv'
  <1> USE TftpAssumption
  <1>t. /\ blocks \in Nat
        /\ client.blk \in 0 .. blocks
        /\ client.peer \in Handlers \cup {Server}
        /\ client.left \in 0 .. Retry - 1
        /\ client.pc \in {"request", "data", "nothing", "cut", "done", "failed"}
        /\ client \in [pc : {"request", "data", "nothing", "cut", "done", "failed"}, blk : 0 .. blocks,
                       peer : Handlers \cup {Server}, left : 0 .. Retry - 1]
    BY UpTypes
  <1>h. UNCHANGED <<blocks, handler, file, dup, odd>>
    BY DEF UploadClient, ClientResend, ClientGiveUp, ClientFails, ClientRecvFails,
           ClientReceives, ClientNext, ClientReadFails, ClientDone, ClientOther, ClientError
  <1>d. \A to \in Handlers \cup {Server}, n \in 0 .. blocks :
            Data(to, n) \in PktType /\ UpPkt(Data(to, n))
    BY <1>t, ModFacts DEF Data, Pkt, PktType, UpPkt, Handlers
  <1>w. Wrq \in PktType /\ UpPkt(Wrq)
    BY <1>t DEF Wrq, Pkt, PktType, UpPkt, Handlers
  <1>e. \A to \in Handlers : Error(Client, to) \in PktType /\ UpPkt(Error(Client, to))
    BY <1>t DEF Error, Pkt, PktType, UpPkt, Handlers
  <1>c. \A p \in net : p.to = Client => p.from \in Handlers
    BY DEF UpInv, UpNet, UpPkt
  <1>1. PICK q \in PktType : net' \subseteq net \cup {q} /\ UpPkt(q)
    <2>1. CASE ClientResend(LastSent)
      BY <2>1, <1>t, <1>d, <1>w DEF ClientResend, LastSent
    <2>2. CASE ClientGiveUp \/ ClientFails \/ ClientRecvFails
      BY <2>2, <1>w DEF ClientGiveUp, ClientFails, ClientRecvFails
    <2>3. CASE \E p \in net : ClientReceives(p)
      <3> PICK p \in net : ClientReceives(p)
        BY <2>3
      <3>1. p.from \in Handlers
        BY <1>c DEF ClientReceives, ClientNext, ClientReadFails, ClientDone, ClientOther,
                    ClientError, ClientSees
      <3>2. CASE ClientNext(p)
        BY <3>1, <3>2, <1>t, <1>d DEF ClientNext, Exchange
      <3>3. CASE ClientReadFails(p)
        BY <3>1, <3>3, <1>e DEF ClientReadFails, Exchange
      <3>4. CASE ClientDone(p) \/ ClientError(p)
        BY <3>4, <1>w DEF ClientDone, ClientError, Exchange
      <3>5. CASE ClientOther(p)
        BY <3>1, <3>5, <1>t, <1>d DEF ClientOther, Exchange
      <3> QED BY <3>2, <3>3, <3>4, <3>5 DEF ClientReceives
    <2> QED BY <2>1, <2>2, <2>3 DEF UploadClient
  <1>2. /\ net' \subseteq PktType
        /\ UpNet' /\ UpFile'
        /\ \A n \in Nat : Kept(n) => Kept(n)'
        /\ \A n \in Nat : Written(n) => Written(n)'
    BY <1>1, <1>h, UpQuiet
  <1>3. /\ client' \in [pc : {"request", "data", "nothing", "cut", "done", "failed"}, blk : 0 .. blocks,
                        peer : Handlers \cup {Server}, left : 0 .. Retry - 1]
        /\ client'.pc = "done" => client.pc = "done" \/ \E p \in net : ClientDone(p)
    <2>1. CASE ClientResend(LastSent)
      BY <2>1, <1>t DEF ClientResend
    <2>2. CASE ClientGiveUp \/ ClientFails \/ ClientRecvFails
      BY <2>2, <1>t DEF ClientGiveUp, ClientFails, ClientRecvFails
    <2>3. CASE \E p \in net : ClientReceives(p)
      <3> PICK p \in net : ClientReceives(p)
        BY <2>3
      <3>1. p.from \in Handlers
        BY <1>c DEF ClientReceives, ClientNext, ClientReadFails, ClientDone, ClientOther,
                    ClientError, ClientSees
      <3>2. CASE ClientNext(p)
        BY <3>1, <3>2, <1>t DEF ClientNext
      <3>3. CASE ClientReadFails(p) \/ ClientError(p)
        BY <3>1, <3>3, <1>t DEF ClientReadFails, ClientError
      <3>4. CASE ClientDone(p)
        BY <3>1, <3>4, <1>t DEF ClientDone
      <3>5. CASE ClientOther(p)
        <4>1. client' = [client EXCEPT !.pc = "data", !.peer = p.from, !.left = Retry - 1]
          BY <3>5 DEF ClientOther
        <4>2. Retry - 1 \in 0 .. Retry - 1
          OBVIOUS
        <4> QED BY <3>1, <4>1, <4>2, <1>t
      <3> QED BY <3>2, <3>3, <3>4, <3>5 DEF ClientReceives
    <2> QED BY <2>1, <2>2, <2>3 DEF UploadClient
  <1>4. UploadTypeOK'
    <2>1. net' \subseteq PktType'
      BY <1>2, <1>h DEF PktType, Handlers
    <2>2. client' \in [pc : {"request", "data", "nothing", "cut", "done", "failed"}, blk : 0 .. blocks',
                       peer : Handlers \cup {Server}, left : 0 .. Retry - 1]
      BY <1>3, <1>h
    <2> QED BY <2>1, <2>2, <1>h DEF UpInv, UploadTypeOK, PktType, Handlers
  <1>5. UpHandlers'
    <2> SUFFICES ASSUME NEW h \in Handlers
                 PROVE  /\ handler[h].blk < Mod
                        /\ Kept(handler[h].blk)'
                        /\ handler[h].pc = "done" => Kept(blocks)'
      BY <1>h DEF UpHandlers, Kept, Written, Handlers
    <2>1. handler[h].blk \in Nat
      BY UpTypes
    <2>2. Kept(handler[h].blk) => Kept(handler[h].blk)'
      BY <1>h DEF Kept, Written
    <2>3. Kept(blocks) => Kept(blocks)'
      BY <1>h DEF Kept, Written
    <2> QED BY <2>1, <2>2, <2>3 DEF UpInv, UpHandlers
  <1>6. UpClient'
    <2> SUFFICES ASSUME client'.pc = "done", blocks < Mod
                 PROVE  Written(blocks)
      BY <1>h DEF UpClient, Written
    <2>1. CASE client.pc = "done"
      BY <2>1 DEF UpInv, UpClient
    <2>2. CASE \E p \in net : ClientDone(p)
      <3> PICK p \in net : ClientDone(p)
        BY <2>2
      <3>1. p.op = "ACK" /\ p.blk = blocks % Mod
        BY DEF ClientDone, ClientSees, AckMatches
      <3>2. p.blk = blocks
        BY <3>1, <1>t, ModFacts
      <3>3. Kept(p.blk)
        BY <3>1 DEF UpInv, UpNet, UpPkt
      <3>4. blocks <= Mod
        BY <1>t
      <3> QED BY <3>2, <3>3, <3>4 DEF Kept
    <2> QED BY <1>3, <2>1, <2>2
  <1> QED BY <1>2, <1>4, <1>5, <1>6 DEF UpInv

\* Steps of a receiver that do not touch the copy.
LEMMA UpHandlerQuiet ==
    ASSUME UpInv, NEW h \in Handlers,
           UNCHANGED <<blocks, client, file, dup, odd>>,
           NEW q \in PktType, net' \subseteq net \cup {q}, UpPkt(q),
           handler' \in [Handlers -> [pc : {"idle", "data", "done", "failed"},
                                      blk : 0 .. blocks, left : 0 .. Retry - 1]],
           \A g \in Handlers : /\ handler'[g].blk = handler[g].blk
                               /\ handler'[g].pc = "done" => handler[g].pc = "done"
    PROVE  UpInv'
  <1>1. /\ net' \subseteq PktType
        /\ UpNet' /\ UpFile'
    BY UpQuiet
  <1>4. UploadTypeOK'
    <2>1. net' \subseteq PktType'
      BY <1>1 DEF PktType, Handlers
    <2> QED BY <2>1 DEF UpInv, UploadTypeOK, PktType, Handlers
  <1>5. UpHandlers'
    <2> SUFFICES ASSUME NEW g \in Handlers
                 PROVE  /\ handler'[g].blk < Mod
                        /\ Kept(handler'[g].blk)
                        /\ handler'[g].pc = "done" => Kept(blocks)
      BY DEF UpHandlers, Kept, Written, Handlers
    <2> QED BY DEF UpInv, UpHandlers
  <1>6. UpClient'
    BY DEF UpInv, UpClient, Written
  <1> QED BY <1>1, <1>4, <1>5, <1>6 DEF UpInv

\* A receiver is started, and the file truncated.
LEMMA UpOpenKeeps ==
    ASSUME UpInv, NEW h \in Handlers, NEW p \in net, HandlerOpen(h, p)
    PROVE  UpInv'
  <1> USE TftpAssumption
  <1>t. blocks \in Nat /\ net \subseteq PktType
    BY UpTypes
  <1>1. /\ handler' = [handler EXCEPT ![h] = [pc |-> "data", blk |-> 0, left |-> Retry - 1]]
        /\ UNCHANGED <<blocks, client, dup>>
        /\ file' = Empty
        /\ odd' = IF file = Empty THEN odd ELSE odd \cup {"truncated"}
    BY DEF HandlerOpen
  <1>2. \A n : Written(n) => Written(n)'
    BY <1>1 DEF Written
  <1>3. \A n : Kept(n) => Kept(n)'
    BY <1>1, <1>2 DEF Kept
  <1>4. Written(0)'
    BY DEF Written
  <1>5. Ack(h, 0) \in PktType /\ Ack(h, 0).blk = 0 /\ Ack(h, 0).op = "ACK" /\ Ack(h, 0).from \in Handlers
    BY <1>t, ModFacts DEF Ack, Pkt, PktType, Handlers
  <1>6. net' \subseteq net \cup {Ack(h, 0)}
    BY DEF HandlerOpen, Exchange
  <1>7. UploadTypeOK'
    <2>1. net' \subseteq PktType'
      BY <1>t, <1>1, <1>5, <1>6 DEF PktType, Handlers
    <2>2. handler' \in [Handlers -> [pc : {"idle", "data", "done", "failed"},
                                     blk : 0 .. blocks, left : 0 .. Retry - 1]]
      <3>1. handler \in [Handlers -> [pc : {"idle", "data", "done", "failed"},
                                      blk : 0 .. blocks, left : 0 .. Retry - 1]]
        BY DEF UpInv, UploadTypeOK
      <3> QED BY <1>1, <1>t, <3>1
    <2>3. file' \in [1 .. blocks -> 0 .. blocks]
      BY <1>1, <1>t DEF Empty
    <2>4. odd' \subseteq {"truncated", "short write"}
      BY <1>1 DEF UpInv, UploadTypeOK
    <2> QED BY <1>1, <2>1, <2>2, <2>3, <2>4 DEF UpInv, UploadTypeOK, PktType, Handlers
  <1>8. UpNet'
    <2> SUFFICES ASSUME NEW r \in net'
                 PROVE  UpPkt(r)'
      BY DEF UpNet
    <2>1. CASE r \in net
      BY <2>1, <1>1, <1>3 DEF UpInv, UpNet, UpPkt, Handlers
    <2>2. CASE r = Ack(h, 0)
      BY <2>2, <1>1, <1>t, <1>4, <1>5 DEF UpPkt, Kept, Handlers
    <2> QED BY <1>6, <2>1, <2>2
  <1>9. UpHandlers'
    <2> SUFFICES ASSUME NEW g \in Handlers
                 PROVE  (/\ handler[g].blk < Mod
                         /\ Kept(handler[g].blk)
                         /\ handler[g].pc = "done" => Kept(blocks))'
      BY DEF UpHandlers, Handlers
    <2>0. handler \in [Handlers -> [pc : {"idle", "data", "done", "failed"},
                                    blk : 0 .. blocks, left : 0 .. Retry - 1]]
      BY DEF UpInv, UploadTypeOK
    <2>1. CASE g = h
      <3>1. handler'[g].blk = 0 /\ handler'[g].pc = "data"
        BY <1>1, <2>0, <2>1
      <3>2. Kept(handler[g].blk)'
        BY <3>1, <1>4 DEF Kept, Written
      <3> QED BY <3>1, <3>2
    <2>2. CASE g # h
      <3>1. handler'[g] = handler[g]
        BY <1>1, <2>0, <2>2
      <3>2. /\ handler[g].blk < Mod
            /\ Kept(handler[g].blk)
            /\ handler[g].pc = "done" => Kept(blocks)
        BY DEF UpInv, UpHandlers
      <3>3. Kept(handler[g].blk)'
        BY <3>1, <3>2, <1>1, <1>2 DEF Kept, Written
      <3>4. Kept(blocks) => Kept(blocks)'
        BY <1>1, <1>2 DEF Kept, Written
      <3> QED BY <3>1, <3>2, <3>3, <3>4
    <2> QED BY <2>1, <2>2
  <1>10. UpClient'
    BY <1>1, <1>2 DEF UpInv, UpClient, Written
  <1>11. UpFile'
    BY <1>1, <1>t DEF UpFile, InPlace, Empty
  <1> QED BY <1>7, <1>8, <1>9, <1>10, <1>11 DEF UpInv

\* A block that matches is the next one, or none of the file is checked.
LEMMA UpMatch ==
    ASSUME UpInv, NEW h \in Handlers, NEW p \in net, HandlerSees(h, p, "DATA"), DataMatches(h, p)
    PROVE  /\ p.body \in 0 .. blocks
           /\ handler[h].blk + 1 < Mod
           /\ handler[h].blk + 1 <= p.body
           /\ blocks <= Mod => handler[h].blk + 1 = p.body
  <1> DEFINE b == handler[h].blk
             n == p.body
  <1>1. b \in Nat /\ b < Mod /\ n \in Nat /\ n \in 0 .. blocks /\ blocks \in Nat
    BY UpTypes, TftpAssumption DEF UpInv, UpHandlers, PktType
  <1>2. p.blk = n % Mod /\ p.blk = (b % Mod) + 1
    BY DEF UpInv, UpNet, UpPkt, HandlerSees, DataMatches
  <1> HIDE DEF b, n
  <1>3. n % Mod = b + 1
    BY <1>1, <1>2, ModFacts
  <1>4. b + 1 < Mod /\ b + 1 <= n
    BY <1>1, <1>3, ModFacts
  <1>5. ASSUME blocks <= Mod
        PROVE  b + 1 = n
    <2>1. n # Mod
      BY <1>1, <1>3, ModFacts
    <2>2. n < Mod
      BY <1>1, <1>5, <2>1, ModFacts
    <2> QED BY <1>1, <1>3, <2>2, ModFacts
  <1> QED BY <1>1, <1>4, <1>5 DEF b, n

\* A receiver writes a block, or a part of it.
LEMMA UpWriteKeeps ==
    ASSUME UpInv, NEW h \in Handlers, NEW p \in net, HandlerWrite(h, p)
    PROVE  UpInv'
  <1> USE TftpAssumption
  <1>b. PICK b : b = handler[h].blk
    OBVIOUS
  <1>t. blocks \in Nat /\ net \subseteq PktType /\ b \in Nat
    BY UpTypes, <1>b
  <1>m. /\ p.body \in 0 .. blocks
        /\ b + 1 < Mod
        /\ b + 1 <= p.body
        /\ blocks <= Mod => b + 1 = p.body
    BY UpMatch, <1>b DEF HandlerWrite
  <1>0. PICK whole \in BOOLEAN :
            /\ file' = IF whole THEN [file EXCEPT ![b + 1] = p.body] ELSE file
            /\ odd' = IF whole THEN odd ELSE odd \cup {"short write"}
            /\ handler' = [handler EXCEPT ![h] =
                   [pc |-> IF whole /\ p.body < blocks THEN "data" ELSE "done",
                    blk |-> b + 1, left |-> Retry - 1]]
            /\ net' \subseteq net \cup {Ack(h, b + 1)}
            /\ UNCHANGED <<blocks, client, dup>>
    BY <1>b DEF HandlerWrite, Exchange
  <1>f. file \in [1 .. blocks -> 0 .. blocks]
    BY DEF UpInv, UploadTypeOK
  <1>g. handler \in [Handlers -> [pc : {"idle", "data", "done", "failed"},
                                  blk : 0 .. blocks, left : 0 .. Retry - 1]]
    BY DEF UpInv, UploadTypeOK
  <1>k. Kept(b)
    BY <1>b DEF UpInv, UpHandlers
  <1>1. b + 1 \in 1 .. blocks
    BY <1>t, <1>m
  <1>2. ASSUME NEW n \in 0 .. blocks, Kept(n)
        PROVE  Kept(n)'
    <2> SUFFICES ASSUME blocks <= Mod, odd' = {}, NEW k \in 1 .. n
                 PROVE  file'[k] = k
      BY <1>0 DEF Kept, Written
    <2>1. whole /\ file[k] = k
      BY <1>2, <1>0 DEF Kept, Written
    <2>2. k \in 1 .. blocks
      BY <1>t
    <2> QED BY <2>1, <2>2, <1>0, <1>m, <1>f, <1>1
  <1>3. Kept(b + 1)'
    <2> SUFFICES ASSUME blocks <= Mod, odd' = {}
                 PROVE  \A k \in 1 .. b + 1 : file'[k] = k
      BY <1>0 DEF Kept, Written
    <2>1. whole /\ odd = {}
      BY <1>0
    <2>2. \A k \in 1 .. b : file[k] = k
      BY <1>k, <2>1 DEF Kept, Written
    <2>3. file' = [file EXCEPT ![b + 1] = b + 1]
      BY <1>0, <1>m, <2>1
    <2>4. SUFFICES ASSUME NEW k \in 1 .. b + 1
                   PROVE  file'[k] = k
      OBVIOUS
    <2>5. k \in 1 .. blocks /\ (k = b + 1 \/ k \in 1 .. b)
      BY <1>t, <1>1
    <2> QED BY <2>2, <2>3, <2>5, <1>f
  <1>4. /\ Ack(h, b + 1) \in PktType /\ Ack(h, b + 1).blk = b + 1
        /\ Ack(h, b + 1).op = "ACK" /\ Ack(h, b + 1).from \in Handlers
    BY <1>t, <1>m, ModFacts DEF Ack, Pkt, PktType, Handlers
  <1>5. UploadTypeOK'
    <2>1. net' \subseteq PktType'
      BY <1>t, <1>0, <1>4 DEF PktType, Handlers
    <2>2. handler' \in [Handlers -> [pc : {"idle", "data", "done", "failed"},
                                     blk : 0 .. blocks, left : 0 .. Retry - 1]]
      <3>1. [pc |-> IF whole /\ p.body < blocks THEN "data" ELSE "done",
             blk |-> b + 1, left |-> Retry - 1] \in
                 [pc : {"idle", "data", "done", "failed"}, blk : 0 .. blocks, left : 0 .. Retry - 1]
        BY <1>1, <1>t
      <3> QED BY <1>0, <1>g, <3>1
    <2>3. file' \in [1 .. blocks -> 0 .. blocks]
      BY <1>0, <1>f, <1>m
    <2>4. odd' \subseteq {"truncated", "short write"}
      BY <1>0 DEF UpInv, UploadTypeOK
    <2> QED BY <1>0, <2>1, <2>2, <2>3, <2>4 DEF UpInv, UploadTypeOK, PktType, Handlers
  <1>6. UpNet'
    <2> SUFFICES ASSUME NEW r \in net'
                 PROVE  UpPkt(r)'
      BY DEF UpNet
    <2>1. CASE r \in net
      <3>1. UpPkt(r) /\ r.blk \in Nat
        BY <2>1, <1>t DEF UpInv, UpNet, PktType
      <3>2. r.op = "ACK" => Kept(r.blk)'
        BY <3>1, <1>2, <1>t DEF UpPkt
      <3> QED BY <3>1, <3>2, <1>0 DEF UpPkt, Handlers
    <2>2. CASE r = Ack(h, b + 1)
      <3>1. Kept(r.blk)'
        <4>1. r.blk = b + 1
          BY <2>2, <1>4
        <4> QED BY <4>1, <1>3 DEF Kept, Written
      <3>2. b + 1 <= blocks'
        <4>1. blocks' = blocks
          BY <1>0
        <4>2. b + 1 <= blocks
          BY <1>1, <1>t
        <4> QED BY <4>1, <4>2
      <3> QED BY <2>2, <3>1, <3>2, <1>4 DEF UpPkt, Handlers
    <2> QED BY <1>0, <2>1, <2>2
  <1>7. UpHandlers'
    <2> SUFFICES ASSUME NEW g \in Handlers
                 PROVE  (/\ handler[g].blk < Mod
                         /\ Kept(handler[g].blk)
                         /\ handler[g].pc = "done" => Kept(blocks))'
      BY DEF UpHandlers, Handlers
    <2>1. CASE g = h
      <3>1. /\ handler'[g].blk = b + 1
            /\ handler'[g].pc = "done" => ~whole \/ p.body >= blocks
        <4>1. handler'[g] = [pc |-> IF whole /\ p.body < blocks THEN "data" ELSE "done",
                             blk |-> b + 1, left |-> Retry - 1]
          BY <1>0, <1>g, <2>1
        <4>2. whole /\ p.body < blocks => handler'[g].pc = "data"
          BY <4>1
        <4> QED BY <4>1, <4>2, <1>m, <1>t
      <3>2. Kept(handler[g].blk)'
        BY <3>1, <1>3 DEF Kept, Written
      <3>3. ASSUME handler'[g].pc = "done"
            PROVE  Kept(blocks)'
        <4> SUFFICES ASSUME blocks <= Mod
                     PROVE  Written(blocks)'
          BY <1>0 DEF Kept
        <4>1. CASE ~whole
          BY <4>1, <1>0 DEF Written
        <4>2. CASE p.body >= blocks
          <5>1. b + 1 = blocks
            BY <4>2, <1>m, <1>t
          <5> QED BY <5>1, <1>3, <1>0 DEF Kept, Written
        <4> QED BY <3>1, <3>3, <4>1, <4>2
      <3> QED BY <3>1, <3>2, <3>3, <1>m
    <2>2. CASE g # h
      <3>1. handler'[g] = handler[g]
        BY <1>0, <1>g, <2>2
      <3>2. /\ handler[g].blk < Mod
            /\ Kept(handler[g].blk)
            /\ handler[g].pc = "done" => Kept(blocks)
        BY DEF UpInv, UpHandlers
      <3>3. Kept(handler[g].blk)'
        <4>1. PICK n \in 0 .. blocks : n = handler[g].blk
          BY <1>g
        <4>2. Kept(n)'
          BY <4>1, <3>2, <1>2
        <4> QED BY <4>1, <4>2, <3>1 DEF Kept, Written
      <3>4. Kept(blocks) => Kept(blocks)'
        <4>1. PICK n \in 0 .. blocks : n = blocks
          BY <1>t
        <4>2. Kept(n) => Kept(n)'
          BY <1>2
        <4> QED BY <4>1, <4>2, <1>0 DEF Kept, Written
      <3> QED BY <3>1, <3>2, <3>3, <3>4
    <2> QED BY <2>1, <2>2
  <1>8. UpClient'
    <2>1. Kept(blocks) => Kept(blocks)'
      <3>1. PICK n \in 0 .. blocks : n = blocks
        BY <1>t
      <3>2. Kept(n) => Kept(n)'
        BY <1>2
      <3> QED BY <3>1, <3>2, <1>0 DEF Kept, Written
    <2>2. blocks < Mod => blocks <= Mod
      BY <1>t
    <2> QED BY <1>0, <2>1, <2>2 DEF UpInv, UpClient, Kept
  <1>9. UpFile'
    BY <1>0, <1>t, <1>m, <1>f DEF UpInv, UpFile, InPlace
  <1> QED BY <1>5, <1>6, <1>7, <1>8, <1>9 DEF UpInv

\* A receiver keeps the invariant.
LEMMA UpHandlerKeeps ==
    ASSUME UpInv, NEW h \in Handlers, UploadHandler(h)
    PROVE  UpInv'
  <1> USE TftpAssumption
  <1> DEFINE Quiet ==
      /\ handler' \in [Handlers -> [pc : {"idle", "data", "done", "failed"},
                                    blk : 0 .. blocks, left : 0 .. Retry - 1]]
      /\ \A g \in Handlers : /\ handler'[g].blk = handler[g].blk
                             /\ handler'[g].pc = "done" => handler[g].pc = "done"
  <1>t. blocks \in Nat /\ handler[h].blk \in Nat /\ handler[h].blk < Mod
    BY UpTypes DEF UpInv, UpHandlers
  <1>g. handler \in [Handlers -> [pc : {"idle", "data", "done", "failed"},
                                  blk : 0 .. blocks, left : 0 .. Retry - 1]]
    BY DEF UpInv, UploadTypeOK
  <1>l. handler[h].left \in 0 .. Retry - 1 /\ Retry - 1 \in 0 .. Retry - 1
    BY <1>g
  <1>a. Ack(h, handler[h].blk) \in PktType /\ UpPkt(Ack(h, handler[h].blk))
    <2>1. /\ Ack(h, handler[h].blk).blk = handler[h].blk
          /\ Ack(h, handler[h].blk) \in PktType
          /\ Ack(h, handler[h].blk).op = "ACK" /\ Ack(h, handler[h].blk).from \in Handlers
      BY <1>t, ModFacts DEF Ack, Pkt, PktType, Handlers
    <2>2. handler[h].blk <= blocks
      BY <1>g, <1>t
    <2> QED BY <2>1, <2>2 DEF UpPkt, UpInv, UpHandlers
  <1>e. Error(h, Client) \in PktType /\ UpPkt(Error(h, Client))
    BY <1>t DEF Error, Pkt, PktType, UpPkt, Handlers
  <1>1. CASE HandlerResend(h, Ack(h, handler[h].blk))
    <2>1. /\ handler' = [handler EXCEPT ![h].left = @ - 1]
          /\ handler[h].pc = "data" /\ handler[h].left > 0
          /\ net' \subseteq net \cup {Ack(h, handler[h].blk)}
          /\ UNCHANGED <<blocks, client, file, dup, odd>>
      BY <1>1 DEF HandlerResend
    <2>2. handler[h].left - 1 \in 0 .. Retry - 1
      BY <2>1, <1>l
    <2>3. Quiet
      BY <2>1, <2>2, <1>g
    <2> QED BY <2>1, <2>3, <1>a, UpHandlerQuiet
  <1>2. CASE HandlerGiveUp(h) \/ HandlerFails(h)
    <2>1. /\ handler' = [handler EXCEPT ![h].pc = "failed"]
          /\ net' \subseteq net \cup {Error(h, Client)}
          /\ UNCHANGED <<blocks, client, file, dup, odd>>
      BY <1>2 DEF HandlerGiveUp, HandlerFails
    <2>2. Quiet
      BY <2>1, <1>g
    <2> QED BY <2>1, <2>2, <1>l, <1>e, UpHandlerQuiet
  <1>3. CASE \E p \in net : HandlerReceives(h, p)
    <2> PICK p \in net : HandlerReceives(h, p)
      BY <1>3
    <2>1. CASE HandlerOpen(h, p)
      BY <2>1, UpOpenKeeps
    <2>2. CASE HandlerWrite(h, p)
      BY <2>2, UpWriteKeeps
    <2>3. CASE HandlerOpenFails(h, p) \/ HandlerWriteFails(h, p) \/ HandlerError(h, p)
      <3>1. /\ handler' = [handler EXCEPT ![h].pc = "failed"]
            /\ net' \subseteq net \cup {Error(h, Client)}
            /\ UNCHANGED <<blocks, client, file, dup, odd>>
        BY <2>3 DEF HandlerOpenFails, HandlerWriteFails, HandlerError, Exchange
      <3>2. Quiet
        BY <3>1, <1>l, <1>g
      <3> QED BY <3>1, <3>2, <1>l, <1>e, UpHandlerQuiet
    <2>4. CASE HandlerOther(h, p)
      <3>1. /\ handler' = [handler EXCEPT ![h].left = Retry - 1]
            /\ handler[h].pc = "data"
            /\ net' \subseteq net \cup {Ack(h, handler[h].blk)}
            /\ UNCHANGED <<blocks, client, file, dup, odd>>
        BY <2>4 DEF HandlerOther, HandlerSees, Exchange
      <3>2. Quiet
        BY <3>1, <1>l, <1>g
      <3> QED BY <3>1, <3>2, <1>l, <1>a, UpHandlerQuiet
    <2> QED BY <2>1, <2>2, <2>3, <2>4 DEF HandlerReceives
  <1> QED BY <1>1, <1>2, <1>3 DEF UploadHandler

-----------------------------------------------------------------------------
(* The steps of a download.                                                 *)

DownPktType == [from : {Client} \cup Handlers, to : {Client, Server} \cup Handlers,
                op : {"RRQ", "ACK", "DATA", "ERROR"}, blk : 0 .. Mod - 1, body : 0 .. blocks]
DownClientType == [pc : {"request", "data", "done", "failed"}, blk : 1 .. blocks + 1,
                   peer : Handlers \cup {Server}, left : 0 .. Retry - 1]
DownHandlerType == [pc : {"idle", "data", "no data", "done", "failed"},
                    blk : 1 .. blocks + 1, left : 0 .. Retry - 1]

\* What the type invariant says of the numbers, field by field.
LEMMA DownTypes ==
    ASSUME DownInv
    PROVE  /\ blocks \in Nat
           /\ client \in DownClientType
           /\ client.blk \in Nat /\ client.blk >= 1 /\ client.blk <= blocks + 1
           /\ client.peer \in Handlers \cup {Server}
           /\ client.left \in 0 .. Retry - 1
           /\ handler \in [Handlers -> DownHandlerType]
           /\ \A h \in Handlers : handler[h].blk \in Nat /\ handler[h].blk >= 1
           /\ net \subseteq DownPktType
           /\ \A p \in DownPktType : p.blk \in Nat /\ p.blk < Mod /\ p.body \in Nat /\ p.body <= blocks
           /\ file \in [1 .. blocks -> 0 .. blocks]
  <1> USE TftpAssumption
  <1>1. blocks \in Nat
    <2>1. blocks \in Sizes
      BY DEF DownInv, Down!DownloadTypeOK
    <2> QED BY <2>1
  <1>2. client \in DownClientType /\ handler \in [Handlers -> DownHandlerType]
    BY DEF DownInv, Down!DownloadTypeOK, Down!Handlers, Handlers, DownClientType, DownHandlerType
  <1>3. net \subseteq DownPktType /\ file \in [1 .. blocks -> 0 .. blocks]
    BY DEF DownInv, Down!DownloadTypeOK, Down!Handlers, Handlers, DownPktType
  <1>4. \A c \in DownClientType :
            /\ c.blk \in Nat /\ c.blk >= 1 /\ c.blk <= blocks + 1
            /\ c.peer \in Handlers \cup {Server} /\ c.left \in 0 .. Retry - 1
    BY <1>1 DEF DownClientType
  <1>5. \A h \in Handlers : handler[h].blk \in Nat /\ handler[h].blk >= 1
    <2>1. \A h \in Handlers : handler[h].blk \in 1 .. blocks + 1
      BY <1>2 DEF DownHandlerType
    <2> QED BY <2>1, <1>1
  <1>6. \A p \in DownPktType : p.blk \in Nat /\ p.blk < Mod /\ p.body \in Nat /\ p.body <= blocks
    BY <1>1 DEF DownPktType
  <1> QED BY <1>1, <1>2, <1>3, <1>4, <1>5, <1>6

\* Datagrams under way keep their meaning while the client's number grows.
LEMMA DownNetKeeps ==
    ASSUME DownInv, blocks' = blocks,
           client'.blk \in Nat, client.blk <= client'.blk,
           NEW q \in DownPktType, net' \subseteq net \cup {q}, DownPkt(q)'
    PROVE  net' \subseteq DownPktType' /\ DownNet'
  <1>1. net \subseteq DownPktType /\ client.blk \in Nat
    BY DownTypes
  <1>2. net' \subseteq DownPktType'
    BY <1>1 DEF DownPktType, Handlers
  <1>3. \A p \in net : p.blk \in Nat
    BY DownTypes
  <1>4. DownNet'
    <2> SUFFICES ASSUME NEW p \in net'
                 PROVE  DownPkt(p)'
      BY DEF DownNet
    <2>1. CASE p \in net
      <3>1. DownPkt(p) /\ p.blk \in Nat
        BY <2>1, <1>3 DEF DownInv, DownNet
      <3>2. p.op = "ACK" => p.blk <= client'.blk
        BY <3>1, <1>1 DEF DownPkt
      <3> QED BY <3>1, <3>2 DEF DownPkt, Handlers
    <2> QED BY <2>1
  <1> QED BY <1>2, <1>4

\* The client of a download keeps the invariant.
LEMMA DownClientKeeps ==
    ASSUME DownInv, Down!DownloadClient
    PROVE  DownInv'
  <1> USE TftpAssumption
  <1>t. /\ blocks \in Nat
        /\ client \in DownClientType
        /\ client.blk \in Nat /\ client.blk >= 1 /\ client.blk <= blocks + 1
        /\ client.peer \in Handlers \cup {Server}
        /\ client.left \in 0 .. Retry - 1
        /\ client.blk <= Mod
        /\ Retry - 1 \in 0 .. Retry - 1
    BY DownTypes DEF DownInv, DownClient
  <1>h. UNCHANGED <<blocks, handler, dup>>
    BY DEF Down!DownloadClient, Down!ClientResend, Down!ClientGiveUp, Down!ClientFails,
           Down!ClientReceives, Down!ClientWrite, Down!ClientWriteFails, Down!ClientOther, Down!ClientError
  <1>a. \A to \in Handlers \cup {Server}, n \in Nat :
            /\ Down!Ack(to, n) \in DownPktType
            /\ n <= client'.blk /\ client'.blk \in Nat => DownPkt(Down!Ack(to, n))'
    <2> TAKE to \in Handlers \cup {Server}, n \in Nat
    <2>1. n % Mod \in 0 .. Mod - 1 /\ n % Mod <= n
      BY ModFacts
    <2>2. Down!Ack(to, n) = [from |-> Client, to |-> to, op |-> "ACK", blk |-> n % Mod, body |-> 0]
      BY DEF Down!Ack, Down!Pkt
    <2>3. Down!Ack(to, n) \in DownPktType
      BY <2>1, <2>2, <1>t DEF DownPktType
    <2>4. ASSUME n <= client'.blk, client'.blk \in Nat
          PROVE  DownPkt(Down!Ack(to, n))'
      <3>1. n % Mod <= client'.blk
        BY <2>1, <2>4
      <3>2. to # Client
        BY DEF Handlers
      <3> QED BY <2>2, <3>1, <3>2 DEF DownPkt
    <2> QED BY <2>3, <2>4
  <1>r. Down!Rrq \in DownPktType /\ DownPkt(Down!Rrq)'
    BY <1>t DEF Down!Rrq, Down!Pkt, DownPktType, DownPkt, Handlers
  <1>e. \A to \in Handlers : /\ Down!Error(Client, to) \in DownPktType
                             /\ DownPkt(Down!Error(Client, to))'
    BY <1>t DEF Down!Error, Down!Pkt, DownPktType, DownPkt, Handlers
  <1>c. \A p \in net : p.to = Client => p.from \in Handlers
    BY DEF DownInv, DownNet, DownPkt
  <1>1. CASE \E p \in net : Down!ClientWrite(p)
    <2> PICK p \in net : Down!ClientWrite(p)
      BY <1>1
    <2>0. PICK whole \in BOOLEAN :
              /\ file' = IF whole THEN [file EXCEPT ![client.blk] = p.body] ELSE file
              /\ odd' = IF whole THEN odd ELSE odd \cup {"short write"}
              /\ client' = [pc |-> IF whole /\ p.body < blocks THEN "data" ELSE "done",
                            blk |-> client.blk + 1, peer |-> p.from, left |-> Retry - 1]
              /\ net' \subseteq net \cup {Down!Ack(p.from, client.blk + 1)}
      BY DEF Down!ClientWrite, Down!Exchange
    <2>1. p.from \in Handlers /\ p.blk = client.blk % Mod /\ p.blk = p.body /\ p.body > 0
      BY <1>c DEF Down!ClientWrite, Down!ClientSees, Down!DataMatches, DownInv, DownNet, DownPkt
    <2>2. p.body \in Nat /\ p.body <= blocks /\ p.blk < Mod
      BY DownTypes
    <2>3. client.blk < Mod /\ client.blk = p.body
      <3>1. client.blk # Mod
        BY <2>1, <1>t, ModFacts
      <3>2. client.blk < Mod
        BY <3>1, <1>t
      <3> QED BY <3>2, <2>1, <1>t, ModFacts
    <2>4. file \in [1 .. blocks -> 0 .. blocks] /\ client.blk \in 1 .. blocks
      BY <2>2, <2>3, <1>t, DownTypes
    <2>5. client'.blk = client.blk + 1 /\ client' \in DownClientType
      <3>1. client.blk + 1 \in 1 .. blocks + 1
        BY <2>4, <1>t
      <3>2. (IF whole /\ p.body < blocks THEN "data" ELSE "done") \in {"request", "data", "done", "failed"}
        OBVIOUS
      <3> QED BY <3>1, <3>2, <2>0, <2>1, <1>t DEF DownClientType
    <2>6. ASSUME NEW n \in 0 .. blocks, Written(n)
          PROVE  Written(n)'
      <3> SUFFICES ASSUME odd' = {}, NEW k \in 1 .. n
                   PROVE  file'[k] = k
        BY DEF Written
      <3>1. whole /\ file[k] = k
        BY <2>0, <2>6 DEF Written
      <3>2. k \in 1 .. blocks
        BY <1>t
      <3> QED BY <3>1, <3>2, <2>0, <2>3, <2>4
    <2>7. PICK n \in 1 .. blocks : n = client.blk
      BY <2>4
    <2>8. Written(n)'
      <3> SUFFICES ASSUME odd' = {}, NEW k \in 1 .. n
                   PROVE  file'[k] = k
        BY DEF Written
      <3>1. whole /\ odd = {}
        BY <2>0
      <3>2. \A i \in 1 .. client.blk - 1 : file[i] = i
        BY <3>1 DEF DownInv, DownClient, Written
      <3>3. k \in 1 .. blocks /\ (k = client.blk \/ k \in 1 .. client.blk - 1)
        BY <2>7, <1>t
      <3>4. file' = [file EXCEPT ![client.blk] = client.blk]
        BY <3>1, <2>0, <2>3
      <3> QED BY <3>2, <3>3, <3>4, <2>4
    <2>9. DownClient'
      <3>1. (client.blk <= Mod)'
        BY <2>3, <2>5, <1>t
      <3>2. client'.blk - 1 = n
        BY <2>5, <2>7
      <3>3. Written(client.blk - 1)'
        BY <2>8, <3>2 DEF Written
      <3>4. ASSUME client'.pc = "done"
            PROVE  Written(blocks)'
        <4>1. ~whole \/ p.body >= blocks
          <5>1. whole /\ p.body < blocks => client'.pc = "data"
            BY <2>0
          <5> QED BY <5>1, <3>4, <2>2, <1>t
        <4>2. CASE ~whole
          BY <4>2, <2>0 DEF Written
        <4>3. CASE p.body >= blocks
          <5>1. n = blocks
            BY <4>3, <2>2, <2>3, <2>7, <1>t
          <5> QED BY <5>1, <2>8, <1>h DEF Written
        <4> QED BY <4>1, <4>2, <4>3
      <3> QED BY <3>1, <3>3, <3>4 DEF DownClient
    <2>10. net' \subseteq DownPktType' /\ DownNet'
      <3>1. PICK q \in DownPktType : q = Down!Ack(p.from, client.blk + 1) /\ DownPkt(q)'
        <4>1. client.blk + 1 \in Nat /\ client'.blk \in Nat /\ client.blk + 1 <= client'.blk
          BY <2>5, <1>t
        <4>2. PICK m \in Nat : m = client.blk + 1
          BY <4>1
        <4>3. m <= client'.blk
          BY <4>1, <4>2
        <4>4. Down!Ack(p.from, m) \in DownPktType /\ DownPkt(Down!Ack(p.from, m))'
          BY <4>1, <4>3, <2>1, <1>a
        <4> QED BY <4>4, <4>2
      <3>2. client'.blk \in Nat /\ client.blk <= client'.blk
        BY <2>5, <1>t
      <3>3. net' \subseteq net \cup {q}
        BY <3>1, <2>0
      <3> QED BY <3>1, <3>2, <3>3, <1>h, DownNetKeeps
    <2>11. DownHandlers'
      <3>1. PICK m \in 0 .. blocks : m = blocks
        BY <1>t
      <3>2. Written(blocks) => Written(blocks)'
        BY <3>1, <2>6, <1>h DEF Written
      <3> QED BY <3>2, <1>h DEF DownInv, DownHandlers, Handlers
    <2>12. InPlace'
      BY <2>0, <2>3, <2>4, <1>h DEF DownInv, InPlace
    <2>13. Down!DownloadTypeOK'
      <3>1. file' \in [1 .. blocks -> 0 .. blocks]
        <4>1. p.body \in 0 .. blocks
          BY <2>2, <1>t
        <4> QED BY <4>1, <2>0, <2>4
      <3>2. odd' \subseteq {"short write"}
        BY <2>0 DEF DownInv, Down!DownloadTypeOK
      <3>3. client' \in DownClientType'
        BY <2>5, <1>h DEF DownClientType, Handlers
      <3> QED BY <3>1, <3>2, <3>3, <2>10, <1>h
            DEF DownInv, Down!DownloadTypeOK, DownPktType, DownClientType, Handlers, Down!Handlers
    <2> QED BY <2>9, <2>10, <2>11, <2>12, <2>13 DEF DownInv
  <1>2. ASSUME NEW q \in DownPktType, net' \subseteq net \cup {q}, DownPkt(q)',
               client' \in DownClientType, client'.blk = client.blk,
               client'.pc = "done" => client.pc = "done",
               UNCHANGED <<file, odd>>
        PROVE  DownInv'
    <2>1. net' \subseteq DownPktType' /\ DownNet'
      BY <1>2, <1>t, <1>h, DownNetKeeps
    <2>2. DownClient'
      BY <1>2, <1>h DEF DownInv, DownClient, Written
    <2>3. DownHandlers'
      BY <1>2, <1>h DEF DownInv, DownHandlers, Handlers, Written
    <2>4. InPlace'
      BY <1>2, <1>h DEF DownInv, InPlace
    <2>5. client' \in DownClientType'
      BY <1>2, <1>h DEF DownClientType, Handlers
    <2>6. Down!DownloadTypeOK'
      BY <1>2, <2>1, <2>5, <1>h
         DEF DownInv, Down!DownloadTypeOK, DownPktType, DownClientType, Handlers, Down!Handlers
    <2> QED BY <2>1, <2>2, <2>3, <2>4, <2>6 DEF DownInv
  <1>3. CASE Down!ClientResend(Down!LastSent)
    <2>1. /\ client' = [client EXCEPT !.left = @ - 1] /\ client.left > 0
          /\ net' \subseteq net \cup {Down!LastSent}
          /\ UNCHANGED <<file, odd>>
      BY <1>3 DEF Down!ClientResend
    <2>2. client' \in DownClientType /\ client'.blk = client.blk /\ client'.pc = client.pc
      BY <2>1, <1>t DEF DownClientType
    <2>3. PICK q \in DownPktType : q = Down!LastSent /\ DownPkt(q)'
      <3>1. PICK m \in Nat : m = client.blk
        BY <1>t
      <3>2. PICK to \in Handlers \cup {Server} : to = client.peer
        BY <1>t
      <3>3. Down!Ack(to, m) \in DownPktType /\ DownPkt(Down!Ack(to, m))'
        BY <3>1, <2>2, <1>a, <1>t
      <3>4. Down!LastSent = Down!Rrq \/ Down!LastSent = Down!Ack(to, m)
        BY <3>1, <3>2 DEF Down!LastSent
      <3> QED BY <3>3, <3>4, <1>r
    <2>4. net' \subseteq net \cup {q}
      BY <2>1, <2>3
    <2> QED BY <2>1, <2>2, <2>3, <2>4, <1>2
  <1>4. CASE Down!ClientGiveUp \/ Down!ClientFails
    <2>1. /\ client' = [client EXCEPT !.pc = "failed"]
          /\ net' = net
          /\ UNCHANGED <<file, odd>>
      BY <1>4 DEF Down!ClientGiveUp, Down!ClientFails
    <2>2. client' \in DownClientType /\ client'.blk = client.blk /\ client'.pc = "failed"
      BY <2>1, <1>t DEF DownClientType
    <2> QED BY <2>1, <2>2, <1>r, <1>2
  <1>5. CASE \E p \in net : Down!ClientWriteFails(p) \/ Down!ClientError(p)
    <2> PICK p \in net : Down!ClientWriteFails(p) \/ Down!ClientError(p)
      BY <1>5
    <2>1. /\ client' = [client EXCEPT !.pc = "failed", !.peer = p.from]
          /\ net' \subseteq net \cup {Down!Error(Client, p.from)}
          /\ UNCHANGED <<file, odd>>
          /\ p.from \in Handlers
      BY <1>c DEF Down!ClientWriteFails, Down!ClientError, Down!ClientSees, Down!Exchange
    <2>2. client' \in DownClientType /\ client'.blk = client.blk /\ client'.pc = "failed"
      BY <2>1, <1>t DEF DownClientType
    <2> QED BY <2>1, <2>2, <1>e, <1>2
  <1>6. CASE \E p \in net : Down!ClientOther(p)
    <2> PICK p \in net : Down!ClientOther(p)
      BY <1>6
    <2>1. /\ client' = [client EXCEPT !.pc = "data", !.peer = p.from, !.left = Retry - 1]
          /\ net' \subseteq net \cup {Down!Ack(p.from, client.blk)}
          /\ UNCHANGED <<file, odd>>
          /\ p.from \in Handlers
      BY <1>c DEF Down!ClientOther, Down!ClientSees, Down!Exchange
    <2>2. client' \in DownClientType /\ client'.blk = client.blk /\ client'.pc = "data"
      BY <2>1, <1>t DEF DownClientType
    <2>3. PICK m \in Nat : m = client.blk
      BY <1>t
    <2>4. Down!Ack(p.from, m) \in DownPktType /\ DownPkt(Down!Ack(p.from, m))'
      BY <2>1, <2>2, <2>3, <1>a, <1>t
    <2> QED BY <2>1, <2>2, <2>3, <2>4, <1>2
  <1> QED BY <1>1, <1>3, <1>4, <1>5, <1>6 DEF Down!DownloadClient, Down!ClientReceives

\* Steps of a sender: only its own record and the network change.
LEMMA DownHandlerFrame ==
    ASSUME DownInv, NEW h \in Handlers,
           UNCHANGED <<blocks, client, file, dup, odd>>,
           NEW q \in DownPktType, net' \subseteq net \cup {q}, DownPkt(q),
           NEW r \in DownHandlerType, handler' = [handler EXCEPT ![h] = r],
           r.blk < Mod, blocks > 0 => r.blk <= blocks,
           r.pc = "data" => blocks > 0,
           r.pc = "done" => Written(blocks)
    PROVE  DownInv'
  <1>t. /\ client.blk \in Nat /\ client.blk <= client.blk
        /\ handler \in [Handlers -> DownHandlerType]
    BY DownTypes
  <1>1. net' \subseteq DownPktType' /\ DownNet'
    <2>1. DownPkt(q)'
      BY DEF DownPkt, Handlers
    <2> QED BY <2>1, <1>t, DownNetKeeps
  <1>2. DownHandlers'
    <2> SUFFICES ASSUME NEW g \in Handlers
                 PROVE  (/\ handler[g].blk < Mod
                         /\ blocks > 0 => handler[g].blk <= blocks
                         /\ handler[g].pc = "data" => blocks > 0
                         /\ handler[g].pc = "done" => Written(blocks))'
      BY DEF DownHandlers, Handlers
    <2>1. CASE g = h
      <3>1. handler'[g] = r
        BY <2>1, <1>t
      <3> QED BY <3>1 DEF Written
    <2>2. CASE g # h
      <3>1. handler'[g] = handler[g]
        BY <2>2, <1>t
      <3> QED BY <3>1 DEF Written, DownInv, DownHandlers
    <2> QED BY <2>1, <2>2
  <1>3. handler' \in [Handlers -> DownHandlerType]
    BY <1>t
  <1>4. DownClient' /\ InPlace'
    BY DEF DownInv, DownClient, InPlace, Written
  <1>5. Down!DownloadTypeOK'
    BY <1>1, <1>3
       DEF DownInv, Down!DownloadTypeOK, DownPktType, DownHandlerType, Handlers, Down!Handlers
  <1> QED BY <1>1, <1>2, <1>4, <1>5 DEF DownInv

\* A sender keeps the invariant.
LEMMA DownHandlerKeeps ==
    ASSUME DownInv, NEW h \in Handlers, Down!DownloadHandler(h)
    PROVE  DownInv'
  <1> USE TftpAssumption
  <1> DEFINE c == handler[h]
  <1>t. /\ blocks \in Nat /\ c.blk \in Nat /\ c.blk >= 1
        /\ handler \in [Handlers -> DownHandlerType]
        /\ c \in DownHandlerType
        /\ client.blk \in Nat /\ client.blk <= blocks + 1
    BY DownTypes
  <1>i. /\ c.blk < Mod /\ (blocks > 0 => c.blk <= blocks)
        /\ c.pc = "data" => blocks > 0
    BY DEF DownInv, DownHandlers
  <1>l. /\ c.left \in 0 .. Retry - 1 /\ Retry - 1 \in 0 .. Retry - 1
        /\ c.blk \in 1 .. blocks + 1
    <2>1. c.left \in 0 .. Retry - 1 /\ c.blk \in 1 .. blocks + 1
      <3> HIDE DEF c
      <3> QED BY <1>t DEF DownHandlerType
    <2> QED BY <2>1
  <1>d. \A n \in 1 .. blocks : n < Mod => /\ Down!Data(h, n) \in DownPktType
                                          /\ DownPkt(Down!Data(h, n))
    <2> TAKE n \in 1 .. blocks
    <2>1. HAVE n < Mod
    <2>2. n % Mod = n /\ n > 0 /\ n \in 0 .. Mod - 1 /\ n \in 0 .. blocks
      <3>1. n \in Nat /\ n > 0 /\ n \in 0 .. blocks
        BY <1>t
      <3> QED BY <2>1, <3>1, ModFacts
    <2>3. Down!Data(h, n) = [from |-> h, to |-> Client, op |-> "DATA", blk |-> n, body |-> n]
      BY <2>2 DEF Down!Data, Down!Pkt
    <2> QED BY <2>2, <2>3 DEF DownPktType, DownPkt, Handlers
  <1>e. Down!Error(h, Client) \in DownPktType /\ DownPkt(Down!Error(h, Client))
    BY <1>t DEF Down!Error, Down!Pkt, DownPktType, DownPkt, Handlers
  <1>1. ASSUME NEW pc \in {"idle", "data", "no data", "done", "failed"},
               NEW blk \in 1 .. blocks + 1, NEW left \in 0 .. Retry - 1,
               NEW q \in DownPktType, DownPkt(q), net' \subseteq net \cup {q},
               UNCHANGED <<blocks, client, file, dup, odd>>,
               \A g \in Handlers : g # h => handler'[g] = handler[g],
               handler' \in [Handlers -> DownHandlerType],
               handler'[h].pc = pc, handler'[h].blk = blk, handler'[h].left = left,
               blk < Mod, blocks > 0 => blk <= blocks,
               pc = "data" => blocks > 0, pc = "done" => Written(blocks)
        PROVE  DownInv'
    <2>1. handler' = [handler EXCEPT ![h] = handler'[h]]
      BY <1>1, <1>t
    <2>2. handler'[h] \in DownHandlerType
      BY <1>1
    <2>3. PICK r \in DownHandlerType : r = handler'[h]
      BY <2>2
    <2> QED BY <1>1, <2>1, <2>3, DownHandlerFrame
  <1> HIDE DEF c
  <1>2. CASE Down!HandlerResend(h, Down!Data(h, handler[h].blk))
    <2>1. /\ handler' = [handler EXCEPT ![h].left = @ - 1]
          /\ c.pc = "data" /\ c.left > 0
          /\ net' \subseteq net \cup {Down!Data(h, c.blk)}
          /\ UNCHANGED <<blocks, client, file, dup, odd>>
      BY <1>2 DEF Down!HandlerResend, c
    <2>2. c.left - 1 \in 0 .. Retry - 1 /\ c.blk \in 1 .. blocks
      BY <2>1, <1>l, <1>i, <1>t
    <2>3. /\ \A g \in Handlers : g # h => handler'[g] = handler[g]
          /\ handler' \in [Handlers -> DownHandlerType]
          /\ handler'[h].pc = "data" /\ handler'[h].blk = c.blk /\ handler'[h].left = c.left - 1
      BY <2>1, <2>2, <1>t DEF c, DownHandlerType
    <2> QED BY <2>1, <2>2, <2>3, <1>d, <1>i, <1>l, <1>1
  <1>3. ASSUME handler' = [handler EXCEPT ![h].pc = "failed"],
               net' \subseteq net \cup {Down!Error(h, Client)},
               UNCHANGED <<blocks, client, file, dup, odd>>
        PROVE  DownInv'
    <2>1. /\ \A g \in Handlers : g # h => handler'[g] = handler[g]
          /\ handler' \in [Handlers -> DownHandlerType]
          /\ handler'[h].pc = "failed" /\ handler'[h].blk = c.blk /\ handler'[h].left = c.left
      BY <1>3, <1>t DEF c, DownHandlerType
    <2> QED BY <2>1, <1>3, <1>e, <1>i, <1>l, <1>1
  <1>4. CASE Down!HandlerGiveUp(h) \/ Down!HandlerFails(h)
    BY <1>3, <1>4 DEF Down!HandlerGiveUp, Down!HandlerFails
  <1>5. CASE \E p \in net : Down!HandlerReceives(h, p)
    <2> PICK p \in net : Down!HandlerReceives(h, p)
      BY <1>5
    <2>1. CASE Down!HandlerOpenFails(h, p) \/ Down!HandlerError(h, p)
      BY <2>1, <1>3 DEF Down!HandlerOpenFails, Down!HandlerError, Down!Exchange
    <2>2. CASE Down!HandlerOpen(h, p)
      <3>1. /\ handler' = [handler EXCEPT ![h].pc = "data", ![h].left = Retry - 1]
            /\ blocks > 0
            /\ net' \subseteq net \cup {Down!Data(h, 1)}
            /\ UNCHANGED <<blocks, client, file, dup, odd>>
        BY <2>2 DEF Down!HandlerOpen, Down!Exchange
      <3>2. /\ \A g \in Handlers : g # h => handler'[g] = handler[g]
            /\ handler' \in [Handlers -> DownHandlerType]
            /\ handler'[h].pc = "data" /\ handler'[h].blk = c.blk /\ handler'[h].left = Retry - 1
        BY <3>1, <1>t, <1>l DEF c, DownHandlerType
      <3>3. 1 \in 1 .. blocks
        BY <3>1, <1>t
      <3> QED BY <3>1, <3>2, <3>3, <1>d, <1>i, <1>l, <1>1
    <2>3. CASE Down!HandlerNoData(h, p)
      <3>1. /\ handler' = [handler EXCEPT ![h].pc = "no data"]
            /\ net' \subseteq net \cup {Down!Error(h, Client)}
            /\ UNCHANGED <<blocks, client, file, dup, odd>>
        BY <2>3 DEF Down!HandlerNoData, Down!Exchange
      <3>2. /\ \A g \in Handlers : g # h => handler'[g] = handler[g]
            /\ handler' \in [Handlers -> DownHandlerType]
            /\ handler'[h].pc = "no data" /\ handler'[h].blk = c.blk /\ handler'[h].left = c.left
        BY <3>1, <1>t DEF c, DownHandlerType
      <3> QED BY <3>1, <3>2, <1>e, <1>i, <1>l, <1>1
    <2>4. ASSUME Down!AckMatches(h, p), Down!HandlerSees(h, p, "ACK")
          PROVE  c.blk + 1 < Mod /\ c.blk + 1 <= client.blk /\ blocks > 0 /\ c.blk <= blocks
      <3>1. p.blk = (c.blk % Mod) + 1 /\ p.blk <= client.blk /\ c.pc = "data"
        BY <2>4 DEF Down!AckMatches, Down!HandlerSees, c, DownInv, DownNet, DownPkt
      <3>2. p.blk = c.blk + 1
        BY <3>1, <1>t, <1>i, ModFacts
      <3>3. p.blk < Mod
        BY DownTypes
      <3> QED BY <3>1, <3>2, <3>3, <1>i, <1>t
    <2>5. CASE Down!HandlerNext(h, p)
      <3>1. /\ handler' = [handler EXCEPT ![h].blk = @ + 1, ![h].left = Retry - 1]
            /\ c.blk < blocks /\ c.pc = "data"
            /\ net' \subseteq net \cup {Down!Data(h, c.blk + 1)}
            /\ UNCHANGED <<blocks, client, file, dup, odd>>
            /\ Down!AckMatches(h, p) /\ Down!HandlerSees(h, p, "ACK")
        BY <2>5 DEF Down!HandlerNext, Down!HandlerSees, Down!Exchange, c
      <3>2. c.blk + 1 \in 1 .. blocks /\ c.blk + 1 \in 1 .. blocks + 1 /\ c.blk + 1 <= blocks
        BY <3>1, <1>t
      <3>3. /\ \A g \in Handlers : g # h => handler'[g] = handler[g]
            /\ handler' \in [Handlers -> DownHandlerType]
            /\ handler'[h].pc = "data" /\ handler'[h].blk = c.blk + 1 /\ handler'[h].left = Retry - 1
        BY <3>1, <3>2, <1>t, <1>l DEF c, DownHandlerType
      <3> QED BY <3>1, <3>2, <3>3, <2>4, <1>d, <1>i, <1>l, <1>1
    <2>6. CASE Down!HandlerReadFails(h, p)
      <3>1. /\ handler' = [handler EXCEPT ![h].pc = "failed", ![h].blk = @ + 1]
            /\ c.blk < blocks
            /\ net' \subseteq net \cup {Down!Error(h, Client)}
            /\ UNCHANGED <<blocks, client, file, dup, odd>>
            /\ Down!AckMatches(h, p) /\ Down!HandlerSees(h, p, "ACK")
        BY <2>6 DEF Down!HandlerReadFails, Down!Exchange, c
      <3>2. c.blk + 1 \in 1 .. blocks + 1 /\ c.blk + 1 <= blocks
        BY <3>1, <1>t
      <3>3. /\ \A g \in Handlers : g # h => handler'[g] = handler[g]
            /\ handler' \in [Handlers -> DownHandlerType]
            /\ handler'[h].pc = "failed" /\ handler'[h].blk = c.blk + 1 /\ handler'[h].left = c.left
        BY <3>1, <3>2, <1>t, <1>l DEF c, DownHandlerType
      <3> QED BY <3>1, <3>2, <3>3, <2>4, <1>e, <1>i, <1>l, <1>1
    <2>7. CASE Down!HandlerDone(h, p)
      <3>1. /\ handler' = [handler EXCEPT ![h].pc = "done"]
            /\ c.blk = blocks
            /\ net' \subseteq net \cup {Down!Error(h, Client)}
            /\ UNCHANGED <<blocks, client, file, dup, odd>>
            /\ Down!AckMatches(h, p) /\ Down!HandlerSees(h, p, "ACK")
        BY <2>7 DEF Down!HandlerDone, Down!Exchange, c
      <3>2. client.blk - 1 = blocks
        BY <3>1, <2>4, <1>t
      <3>3. Written(blocks)
        BY <3>2 DEF DownInv, DownClient
      <3>4. /\ \A g \in Handlers : g # h => handler'[g] = handler[g]
            /\ handler' \in [Handlers -> DownHandlerType]
            /\ handler'[h].pc = "done" /\ handler'[h].blk = c.blk /\ handler'[h].left = c.left
        BY <3>1, <1>t DEF c, DownHandlerType
      <3> QED BY <3>1, <3>3, <3>4, <1>e, <1>i, <1>l, <1>1
    <2>8. CASE Down!HandlerOther(h, p)
      <3>1. /\ handler' = [handler EXCEPT ![h].left = Retry - 1]
            /\ c.pc = "data"
            /\ net' \subseteq net \cup {Down!Data(h, c.blk)}
            /\ UNCHANGED <<blocks, client, file, dup, odd>>
        BY <2>8 DEF Down!HandlerOther, Down!HandlerSees, Down!Exchange, c
      <3>2. c.blk \in 1 .. blocks
        BY <3>1, <1>i, <1>t
      <3>3. /\ \A g \in Handlers : g # h => handler'[g] = handler[g]
            /\ handler' \in [Handlers -> DownHandlerType]
            /\ handler'[h].pc = "data" /\ handler'[h].blk = c.blk /\ handler'[h].left = Retry - 1
        BY <3>1, <1>t, <1>l DEF c, DownHandlerType
      <3> QED BY <3>1, <3>2, <3>3, <1>d, <1>i, <1>l, <1>1
    <2> QED BY <2>1, <2>2, <2>3, <2>5, <2>6, <2>7, <2>8 DEF Down!HandlerReceives
  <1> QED BY <1>2, <1>4, <1>5 DEF Down!DownloadHandler, c

-----------------------------------------------------------------------------
(* The theorems.                                                            *)

\* The invariant of the direction the transfer goes holds in every state of it.
THEOREM TransferInvariant == TransferSpec => []TransferInv
  <1> USE TftpAssumption
  <1>1. TransferInit => TransferInv
    <2>1. ASSUME dir = "up", UploadInit
          PROVE  UpInv
      <3>t. blocks \in Nat
        BY <2>1 DEF UploadInit
      <3>1. UploadTypeOK
        <4>1. /\ blocks \in Sizes /\ odd = {} /\ file = Empty /\ net \subseteq {Wrq}
              /\ client = [pc |-> IF blocks = 0 THEN "nothing" ELSE "request",
                           blk |-> 0, peer |-> Server, left |-> Retry - 1]
              /\ handler = [h \in Handlers |-> [pc |-> "idle", blk |-> 0, left |-> 0]]
          BY <2>1 DEF UploadInit
        <4>2. dup \in BOOLEAN
          BY <2>1 DEF UploadInit, Networks
        <4>3. Wrq \in PktType
          BY <3>t DEF Wrq, Pkt, PktType
        <4>4. Retry - 1 \in 0 .. Retry - 1 /\ 0 \in 0 .. Retry - 1
          OBVIOUS
        <4>5. client \in [pc : {"request", "data", "nothing", "cut", "done", "failed"}, blk : 0 .. blocks,
                          peer : Handlers \cup {Server}, left : 0 .. Retry - 1]
          BY <4>1, <4>4, <3>t
        <4>6. handler \in [Handlers -> [pc : {"idle", "data", "done", "failed"},
                                        blk : 0 .. blocks, left : 0 .. Retry - 1]]
          BY <4>1, <4>4, <3>t
        <4>7. file \in [1 .. blocks -> 0 .. blocks]
          BY <4>1, <3>t DEF Empty
        <4> QED BY <4>1, <4>2, <4>3, <4>5, <4>6, <4>7 DEF UploadTypeOK, PktType
      <3>2. UpNet
        BY <2>1 DEF UploadInit, UpNet, UpPkt, Wrq, Pkt
      <3>3. UpHandlers
        BY <2>1, <3>t DEF UploadInit, UpHandlers, Kept, Written
      <3>4. UpClient
        BY <2>1 DEF UploadInit, UpClient
      <3>5. UpFile
        BY <2>1, <3>t DEF UploadInit, UpFile, InPlace, Empty
      <3> QED BY <3>1, <3>2, <3>3, <3>4, <3>5 DEF UpInv
    <2>2. ASSUME dir = "down", Down!DownloadInit
          PROVE  DownInv
      <3>t. blocks \in Nat
        BY <2>2 DEF Down!DownloadInit
      <3>0. /\ blocks \in Sizes /\ odd = {} /\ file = Down!Empty /\ net = {Down!Rrq}
            /\ client = [pc |-> "request", blk |-> 1, peer |-> Server, left |-> Retry - 1]
            /\ handler = [h \in Handlers |-> [pc |-> "idle", blk |-> 1, left |-> 0]]
        BY <2>2 DEF Down!DownloadInit, Down!Handlers, Handlers
      <3>1. Down!DownloadTypeOK
        <4>2. dup \in BOOLEAN
          BY <2>2 DEF Down!DownloadInit, Down!Networks
        <4>3. Down!Rrq \in DownPktType
          BY <3>t DEF Down!Rrq, Down!Pkt, DownPktType
        <4>4. Retry - 1 \in 0 .. Retry - 1 /\ 0 \in 0 .. Retry - 1 /\ 1 \in 1 .. blocks + 1
          BY <3>t
        <4>5. client \in DownClientType
          BY <3>0, <4>4 DEF DownClientType
        <4>6. handler \in [Handlers -> DownHandlerType]
          BY <3>0, <4>4 DEF DownHandlerType
        <4>7. file \in [1 .. blocks -> 0 .. blocks]
          BY <3>0, <3>t DEF Down!Empty
        <4> QED BY <3>0, <4>2, <4>3, <4>5, <4>6, <4>7
              DEF Down!DownloadTypeOK, DownPktType, DownClientType, DownHandlerType, Handlers,
                  Down!Handlers
      <3>2. DownNet
        BY <3>0 DEF DownNet, DownPkt, Down!Rrq, Down!Pkt
      <3>3. DownHandlers
        BY <3>0, <3>t DEF DownHandlers
      <3>4. DownClient
        BY <3>0, <3>t DEF DownClient, Written
      <3>5. InPlace
        BY <3>0, <3>t DEF InPlace, Down!Empty
      <3> QED BY <3>1, <3>2, <3>3, <3>4, <3>5 DEF DownInv
    <2> QED BY <2>1, <2>2 DEF TransferInit, TransferInv
  <1>2. TransferInv /\ [TransferNext]_vars => TransferInv'
    <2> SUFFICES ASSUME TransferInv, [TransferNext]_vars
                 PROVE  TransferInv'
      OBVIOUS
    <2>1. CASE ClientStep
      BY <2>1, UpClientKeeps, DownClientKeeps DEF ClientStep, TransferInv
    <2>2. CASE \E h \in Handlers : HandlerStep(h)
      BY <2>2, UpHandlerKeeps, DownHandlerKeeps DEF HandlerStep, TransferInv
    <2>3. CASE UNCHANGED vars
      <3>1. UNCHANGED <<dir, blocks, client, handler, file, net, dup, odd>>
        BY <2>3 DEF vars, tftpVars
      <3>2. UpInv => UpInv'
        BY <3>1 DEF UpInv, UploadTypeOK, UpNet, UpPkt, UpHandlers, UpClient, UpFile, InPlace, Kept,
                    Written, Handlers
      <3>3. DownInv => DownInv'
        BY <3>1 DEF DownInv, Down!DownloadTypeOK, DownNet, DownPkt, DownHandlers, DownClient, InPlace,
                    Written, Handlers, Down!Handlers
      <3> QED BY <3>1, <3>2, <3>3 DEF TransferInv
    <2> QED BY <2>1, <2>2, <2>3 DEF TransferNext
  <1> QED BY <1>1, <1>2, PTL DEF TransferSpec

\* Numbers, peers and retry counts of both directions stay in their ranges: the
\* receiver of an upload never writes beyond the last block.
THEOREM TransferTypes == TransferSpec => []TransferTypeOK
  <1>1. TransferInv => TransferTypeOK
    BY DEF TransferInv, TransferTypeOK, UpInv, DownInv
  <1> QED BY <1>1, TransferInvariant, PTL

\* A position of the copy holds its own block or none, however datagrams were lost,
\* repeated or overtaken and however many handlers one request has started.
THEOREM CopyInPlace == TransferSpec => []BlocksInPlace
  <1>1. TransferInv => BlocksInPlace
    BY DEF TransferInv, UpInv, UpFile, DownInv, InPlace, BlocksInPlace
  <1> QED BY <1>1, TransferInvariant, PTL

\* Whichever side takes the transfer for complete, the copy is whole, for files of fewer
\* blocks than there are numbers that were neither truncated by another receiver nor
\* written in part.  The upload that returns 0 because recvfrom failed is not "done".
THEOREM SuccessIsWhole == TransferSpec => []TransferComplete
  <1>1. TransferInv => TransferComplete
    <2> SUFFICES ASSUME TransferInv,
                        client.pc = "done" \/ \E h \in Handlers : handler[h].pc = "done",
                        blocks < Mod, odd = {}
                 PROVE  \A k \in 1 .. blocks : file[k] = k
      BY DEF TransferComplete
    <2>1. CASE UpInv
      <3>1. blocks <= Mod
        BY <2>1, UpTypes, TftpAssumption
      <3>2. Written(blocks)
        BY <2>1, <3>1 DEF UpInv, UpClient, UpHandlers, Kept
      <3> QED BY <3>2 DEF Written
    <2>2. CASE DownInv
      <3>1. Written(blocks)
        BY <2>2 DEF DownInv, DownClient, DownHandlers
      <3> QED BY <3>1 DEF Written
    <2> QED BY <2>1, <2>2 DEF TransferInv
  <1> QED BY <1>1, TransferInvariant, PTL
=============================================================================
