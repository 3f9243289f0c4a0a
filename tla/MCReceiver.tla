----------------------------- MODULE MCReceiver -----------------------------
(* The receiving side on small instances: see the .cfg files. *)
EXTENDS Receiver
=============================================================================
