--------------------------- MODULE MCQueueDispatch ---------------------------
(***************************************************************************)
(* Small instances of QueueDispatch: the first message is the goal's.      *)
(***************************************************************************)
EXTENDS QueueDispatch

=============================================================================
