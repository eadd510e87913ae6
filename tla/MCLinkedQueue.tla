--------------------------- MODULE MCLinkedQueue ---------------------------
(* The queue with four cells, so up to three elements beside the sentinel. *)
EXTENDS LinkedQueue
=============================================================================
