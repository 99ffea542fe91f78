-------------------------------- MODULE MCTftp --------------------------------
(* lib/tftp.c, files sent and fetched, with block numbers that wrap at three     *)
(* and one or two handlers of the same request.                                  *)
EXTENDS TftpTransfer
=============================================================================
