----------------------------- MODULE MCAckQueue -----------------------------
(* Acknowledged sending with few packets: see the .cfg file.               *)
EXTENDS AckQueue
=============================================================================
