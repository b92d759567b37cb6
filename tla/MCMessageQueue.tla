--------------------------- MODULE MCMessageQueue ---------------------------
(***************************************************************************)
(* Two senders and the task that owns the queue.                           *)
(***************************************************************************)
EXTENDS MessageQueue
==============================================================================
