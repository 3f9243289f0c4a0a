---------------------------- MODULE MCThreadPool ----------------------------
(* The thread pool with few threads and a short ring: see the .cfg file. *)
EXTENDS ThreadPool
=============================================================================
