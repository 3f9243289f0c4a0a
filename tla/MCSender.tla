------------------------------ MODULE MCSender ------------------------------
(* The sender with small groups and two addresses: see the .cfg files.     *)
EXTENDS Sender
=============================================================================
