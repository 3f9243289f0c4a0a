----------------------------- MODULE MCRxQueue ------------------------------
(* The receive queue on small instances: see the .cfg files. *)
EXTENDS RxQueue
=============================================================================
