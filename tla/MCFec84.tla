------------------------------ MODULE MCFec84 -------------------------------
(* The 8 + 4 code on a basis of all data: see the .cfg files.              *)
EXTENDS Fec84

(* The multiplication table is closed, and the one of the inverses total;  *)
(* they are tables of the code, filled once (fec84.c:76).                  *)
ASSUME TablesAssumption ==
  /\ gf_mul_table \in [Element -> [Element -> Element]]
  /\ gf_inv_table \in [Element \ {{}} -> Element \ {{}}]

(* One block of one packet, or a mixture; no data behind whose end the     *)
(* memory of one packet, or of two, is not 0.                              *)
MCGroup ==
  {<<[j \in 0 .. 7 |-> IF j = p THEN {b} ELSE {}], {}>> : p \in 0 .. 7, b \in Block}
    \cup {<<[j \in 0 .. 7 |-> {j % 3, (j + 1) % 4}], {}>>}
    \cup {<<[j \in 0 .. 7 |-> {}], S>> : S \in {{2}, {0, 5}}}
=============================================================================
