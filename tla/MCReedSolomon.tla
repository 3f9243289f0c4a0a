--------------------------- MODULE MCReedSolomon ----------------------------
(* The Reed-Solomon code for small groups: see the .cfg file.              *)
EXTENDS ReedSolomon

(* data_num and parity_num: one of each, more of either, and a group that  *)
(* loses half its data.                                                    *)
MCShape == {<<1, 1>>, <<2, 1>>, <<1, 2>>, <<3, 2>>, <<4, 2>>}

(* 0, 1, alpha and the byte with all bits.                                 *)
MCContent == {{}, {0}, {1}, 0 .. GF_BITS - 1}
=============================================================================
