--------------------------- MODULE MCSocketWorker ---------------------------
(***************************************************************************)
(* Three messages: two recipients, none, one; a channel of one message.    *)
(***************************************************************************)
EXTENDS SocketWorker

MCCopies == <<2, 0, 1>>

=============================================================================
