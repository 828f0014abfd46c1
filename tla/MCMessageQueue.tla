--------------------------- MODULE MCMessageQueue ---------------------------
(***************************************************************************)
(* Two queue threads, so that the queue can be started again, two timers,  *)
(* and a list that one message fills.                                      *)
(***************************************************************************)
EXTENDS MessageQueue

=============================================================================
