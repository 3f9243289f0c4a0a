------------------------------ MODULE MCServer ------------------------------
(* The server with two configurations a client may send: one with a number *)
(* that parse_config corrects and another that makes no sense, and one of  *)
(* 20 + 10 blocks, which only mode 0 cannot take.  A text that is cut      *)
(* short mixes them with each other and with the initial one, which is of  *)
(* mode 0.                                                                 *)
EXTENDS Server

MCText ==
  {[data_num |-> 0, parity_num |-> -2, mode |-> 4],
   [data_num |-> 20, parity_num |-> 10, mode |-> 3]}
=============================================================================
