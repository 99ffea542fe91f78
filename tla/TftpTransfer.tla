----------------------------- MODULE TftpTransfer -----------------------------
(***************************************************************************)
(* A TFTP transfer in either direction: the client's request and what the  *)
(* server's loop starts for it.                                            *)
(***************************************************************************)
EXTENDS TftpUpload

VARIABLE dir        \* the client's call: "up" sends a file, "down" fetches one

vars == <<dir, tftpVars>>

Down == INSTANCE TftpDownload

TransferInit ==
    \/ dir = "up" /\ UploadInit
    \/ dir = "down" /\ Down!DownloadInit

ClientStep ==
    /\ \/ dir = "up" /\ UploadClient
       \/ dir = "down" /\ Down!DownloadClient
    /\ UNCHANGED dir

HandlerStep(h) ==
    /\ \/ dir = "up" /\ UploadHandler(h)
       \/ dir = "down" /\ Down!DownloadHandler(h)
    /\ UNCHANGED dir

TransferNext == ClientStep \/ \E h \in Handlers : HandlerStep(h)

\* Every poll loop has a timeout and takes what has arrived; nothing is assumed of
\* the network: a datagram may never be received.
TransferSpec ==
    /\ TransferInit /\ [][TransferNext]_vars
    /\ WF_vars(ClientStep)
    /\ \A h \in Handlers : WF_vars(HandlerStep(h))

TransferTypeOK == IF dir = "up" THEN UploadTypeOK ELSE Down!DownloadTypeOK

-----------------------------------------------------------------------------
(* Properties.                                                              *)

Started == {h \in Handlers : handler[h].pc # "idle"}

\* Whatever is lost, repeated or overtaken and however many handlers one request
\* has started, a position of the copy holds its own block or none.  The limit on
\* an upload's length is exact: with one block more the client's number for it is
\* again 1, which a receiver still at the start takes.
BlocksInPlace ==
    dir = "down" \/ blocks <= Mod => \A k \in 1 .. blocks : file[k] \in {0, k}

\* Whichever side takes the transfer for complete, the client, a receiver or a sender,
\* the copy is then whole.  It holds for files of fewer blocks than there are block
\* numbers, unless a repeated write request made another receiver truncate the file or
\* a short write was taken for the end of it.  Two calls return 0 and are not "done":
\* the client of an upload whose recvfrom failed ("cut", the copy may have any length)
\* and the one that had no data to send (the server keeps what it had); a receiver's
\* "done" is held to it even then.
TransferComplete ==
    (/\ client.pc = "done" \/ \E h \in Handlers : handler[h].pc = "done"
     /\ blocks < Mod /\ odd = {})
        => \A k \in 1 .. blocks : file[k] = k

\* When datagrams are lost but not repeated, the request started one handler and the
\* file has fewer blocks than numbers, both calls return: the two loops do not keep
\* each other busy for ever.
TransferReturns ==
    <>(\/ dup \/ blocks >= Mod \/ \E g, h \in Started : g # h
       \/ /\ ~ClientRuns
          /\ \A h \in Handlers : handler[h].pc # "data")
=============================================================================
