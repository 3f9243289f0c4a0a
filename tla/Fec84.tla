------------------------------- MODULE Fec84 --------------------------------
(***************************************************************************)
(* The 8 + 4 code of src/lib/fec84.c, which mode 0 of encode and decode    *)
(* uses (src/src/fec.c): the field of 16 elements, the parity packets, the *)
(* inversion of the matrix of the lost packets and their recovery.         *)
(*                                                                         *)
(* A packet is cut into four blocks of equal length, and everything is an  *)
(* exclusive or of blocks.  Bits at different offsets of a block do not    *)
(* meet, so a packet is the set of its blocks that have a 1 at one offset. *)
(* A number below 16 is the set of its bits, too, and both are elements of *)
(* the field.  Packets are numbered from 0, the tables, which are          *)
(* sequences, from 1.                                                      *)
(***************************************************************************)
EXTENDS Integers, Sequences, FiniteSets, FiniteSetsExt

CONSTANT
  Group   \* what encode finds of a group at one offset: pairs of the data
          \* packets, a function from 0 .. 7, and those of them that end before
          \* the offset in block 3 while the memory behind them holds a 1

Block == 0 .. 3
Row   == 0 .. 3
ASSUME Fec84Assumption ==
  \A g \in Group :
    /\ g[1] \in [0 .. 7 -> SUBSET Block] /\ g[2] \subseteq 0 .. 7
    /\ g[2] # {} => \A j \in 0 .. 7 : 3 \notin g[1][j]

VARIABLES
  pc,       \* "encode", "receive", "invert" or "recover"
  sent,     \* the 12 packets: the data packets, and the parity packets once
            \* they are encoded
  stale,    \* the packets behind whose end the memory holds a 1
  marks,    \* the packets that did not arrive
  packets,  \* the packets of the decoder
  singular, \* singular_packets
  matrix, inv, col,  \* inverse_matrix and its i
  lost_data_cnt
vars == <<pc, sent, stale, marks, packets, singular, matrix, inv, col, lost_data_cnt>>

Odd(S)    == Cardinality(S) % 2 = 1
Xor(a, b) == (a \ b) \cup (b \ a)
XorOf(f)  == {b \in Block : Odd({j \in DOMAIN f : b \in f[j]})}
Nth(S, n) == CHOOSE x \in S : Cardinality({y \in S : y < x}) = n

Element == SUBSET Block
Bits(n) == {b \in Block : (n \div <<1, 2, 4, 8>>[b + 1]) % 2 = 1}

-----------------------------------------------------------------------------
(* The field: polynomials modulo x^4 + x^3 + x^2 + x + 1, whose sum is the *)
(* exclusive or.                                                           *)
Power(n) == CASE n = 4 -> Block [] n = 5 -> {0} [] n = 6 -> {1} [] OTHER -> {n}

_gf_mul(a, b) == XorOf([i \in a |-> XorOf([j \in b |-> Power(i + j)])])

gf_mul_table == [a \in Element |-> [b \in Element |-> _gf_mul(a, b)]]
gf_inv_table == [a \in Element \ {{}} |-> CHOOSE b \in Element : gf_mul_table[a][b] = {0}]

(* The generator matrix, one row for each parity packet.  The matrix it    *)
(* replaced, still in the source, is a mutant.                             *)
gf_matrix_old == <<
  << 1,  1,  1,  1,  1,  1,  1,  1, 1, 0, 0, 0>>,
  << 3,  5,  9, 14,  1,  2,  4,  8, 0, 1, 0, 0>>,
  << 5, 14,  3,  9,  1,  4, 15,  2, 0, 0, 1, 0>>,
  <<15,  8,  4,  2,  1,  8,  2, 15, 0, 0, 0, 1>> >>
gf_matrix == <<
  << 1,  1,  1,  1,  1,  1,  1,  1, 1, 0, 0, 0>>,
  << 2,  3,  4,  5,  8, 12, 13, 15, 0, 1, 0, 0>>,
  <<15,  4, 13,  2, 14,  5,  8,  9, 0, 0, 1, 0>>,
  <<13, 10,  6,  4, 11,  3,  7,  8, 0, 0, 0, 1>> >>
Coefficient == [i \in Row |-> [j \in 0 .. 11 |-> Bits(gf_matrix[i + 1][j + 1])]]

-----------------------------------------------------------------------------
(* gf_fun multiplies by no table: for each data packet and parity packet   *)
(* it has the blocks that go into each of the four blocks ...              *)
R_01 == <<
  << <<{0}, {1}, {2}, {3}>>, <<{}, {0}, {1}, {2}>>,
     <<{1}, {2}, {3}, {}>>, <<{1}, {0, 2}, {1, 3}, {2}>> >>,
  << <<{0}, {1}, {2}, {3}>>, <<{0}, {0, 1}, {1, 2}, {2, 3}>>,
     <<{3}, {}, {0}, {1}>>, <<{2}, {0, 3}, {1}, {0, 2}>> >> >>

R_23 == <<
  << <<{0}, {1}, {2}, {3}>>, <<{3}, {}, {0}, {1}>>,
     <<{1}, {0, 2}, {1, 3}, {2}>>, <<{3}, {0}, {0, 1}, {1, 2}>> >>,
  << <<{0}, {1}, {2}, {3}>>, <<{0, 3}, {1}, {0, 2}, {1, 3}>>,
     <<{}, {0}, {1}, {2}>>, <<{3}, {}, {0}, {1}>> >> >>

R_45 == <<
  << <<{0}, {1}, {2}, {3}>>, <<{2}, {3}, {}, {0}>>,
     <<{0, 1}, {1, 2}, {2, 3}, {3}>>, <<{1, 3}, {2}, {0, 3}, {1}>> >>,
  << <<{0}, {1}, {2}, {3}>>, <<{2, 3}, {3}, {0}, {0, 1}>>,
     <<{0, 3}, {1}, {0, 2}, {1, 3}>>, <<{0}, {0, 1}, {1, 2}, {2, 3}>> >> >>

R_67 == <<
  << <<{0}, {1}, {2}, {3}>>, <<{1}, {0, 2}, {1, 3}, {2}>>,
     <<{2}, {3}, {}, {0}>>, <<{1, 2}, {2, 3}, {3}, {0}>> >>,
  << <<{0}, {1}, {2}, {3}>>, <<{1}, {2}, {3}, {}>>,
     <<{0, 2}, {1, 3}, {2}, {0, 3}>>, <<{2}, {3}, {}, {0}>> >> >>

R(i, j) ==
  CASE j < 2 -> R_01[j + 1][i + 1]
    [] j \in 2 .. 3 -> R_23[j - 1][i + 1]
    [] j \in 4 .. 5 -> R_45[j - 3][i + 1]
    [] j > 5 -> R_67[j - 5][i + 1]

(* ... and the blocks that go into all four, of which those of the first   *)
(* four packets for parity packets 1 and 3 are computed once (mutant:      *)
(* without the last).                                                      *)
C_0123 == <<{3}, {3}, {2}, {2}, {}, {}, {}, {}>>
C_1 == <<{}, {}, {}, {}, {1}, {1, 2}, {0, 3}, {0}>>
C_2 == <<{0}, {2}, {0, 3}, {3}, {0}, {2}, {1}, {1}>>
C_3ButLast == <<{0}, {1}, {3}, {}, {0, 2}, {3}, {0, 1}, {}>>
C_3 == <<{0}, {1}, {3}, {}, {0, 2}, {3}, {0, 1}, {1}>>
C(i, j) ==
  CASE i = 0 -> {} [] i = 1 -> Xor(C_0123[j + 1], C_1[j + 1])
    [] i = 2 -> C_2[j + 1] [] i = 3 -> Xor(C_0123[j + 1], C_3[j + 1])

(* Four times an exclusive or of blocks of one packet.                     *)
Blocks(table, packet) == {b \in Block : Odd(table[b + 1] \cap packet)}

(* What the packets that are there come to, for each parity packet.        *)
gf_fun(p, lost) ==
  [i \in Row |->
     Xor(XorOf([j \in (0 .. 7) \ lost |->
                 Xor(Blocks(R(i, j), p[j]), IF Odd(C(i, j) \cap p[j]) THEN Block ELSE {})]),
         IF 8 + i \in lost THEN {} ELSE p[8 + i])]

-----------------------------------------------------------------------------
(* recover_packet multiplies by a coefficient in the same way.             *)
recover_1_4 == <<
  <<{0}, {1}, {2}, {3}>>,
  <<{3}, {0, 3}, {1, 3}, {2, 3}>>,
  <<{0, 3}, {0, 1, 3}, {1, 2, 3}, {2}>>,
  <<{2, 3}, {2}, {0, 2}, {1, 2}>> >>

recover_5_8 == <<
  <<{0, 2, 3}, {1, 2}, {0}, {1, 2, 3}>>,
  <<{2}, {0, 2, 3}, {0, 1, 2, 3}, {1, 3}>>,
  <<{0, 2}, {0, 1, 2, 3}, {0, 1, 3}, {1}>>,
  <<{1, 2}, {1, 3}, {1}, {0, 1}>> >>

recover_9_12 == <<
  <<{0, 1, 2}, {3}, {1, 2}, {0, 1, 3}>>,
  <<{1, 2, 3}, {0, 1}, {3}, {0, 1, 2, 3}>>,
  <<{0, 1, 2, 3}, {0}, {2, 3}, {0, 1, 2}>>,
  <<{1, 3}, {1, 2, 3}, {0, 1, 2}, {0, 2}>> >>

recover_13_15 == <<
  <<{0, 1, 3}, {2, 3}, {0, 1}, {0, 2, 3}>>,
  <<{1}, {0, 1, 2}, {0, 2, 3}, {0, 3}>>,
  <<{0, 1}, {0, 2}, {0, 3}, {0}>> >>

recover_table(n) ==
  CASE n < 5 -> recover_1_4[n]
    [] n \in 5 .. 8  -> recover_5_8[n - 4]
    [] n \in 9 .. 12 -> recover_9_12[n - 8]
    [] n > 12 -> recover_13_15[n - 12]

Number == [a \in Element |-> CHOOSE n \in 0 .. 15 : Bits(n) = a]

recover_packet(recover_vector, p) ==
  XorOf([j \in {c \in Row : recover_vector[c] # {}} |->
           Blocks(recover_table(Number[recover_vector[j]]), p[j])])

-----------------------------------------------------------------------------
Init ==
  /\ pc = "encode"
  /\ \E g \in Group :
       sent = [j \in 0 .. 11 |-> IF j < 8 THEN g[1][j] ELSE {}] /\ stale = g[2]
  /\ marks = {} /\ packets = sent /\ singular = <<>>
  /\ matrix = <<>> /\ inv = <<>> /\ col = 0 /\ lost_data_cnt = 0

(* encode makes copies as long as the longest packet, fills them up with   *)
(* zeros, and then makes the length a multiple of 4: up to three bytes of  *)
(* the last block are behind the end of every copy.                        *)
Copy(j) == IF j \in stale THEN sent[j] \cup {3} ELSE sent[j]

fec_encode ==
  /\ pc = "encode"
  /\ LET parity == gf_fun([j \in 0 .. 7 |-> Copy(j)], 8 .. 11)
     IN  sent' = [j \in 0 .. 11 |-> IF j < 8 THEN sent[j] ELSE parity[j - 8]]
  /\ pc' = "receive"
  /\ UNCHANGED <<stale, marks, packets, singular, matrix, inv, col, lost_data_cnt>>

(* Decoding starts when 8 of the 12 packets arrived and a data packet did  *)
(* not; the memory of those that did not, and what a packet is shorter     *)
(* than a parity packet, is zero.                                          *)
Lost == {lost \in SUBSET (0 .. 11) : Cardinality(lost) = 4 /\ lost \cap 0 .. 7 # {}}

fec_decode ==
  /\ pc = "receive"
  /\ \E lost \in Lost :
       /\ marks' = lost
       /\ packets' = [j \in 0 .. 11 |-> IF j \in lost THEN {} ELSE sent[j]]
       /\ singular' = gf_fun(packets', lost)
       /\ matrix' = [r \in Row |-> [c \in 0 .. 3 |-> Coefficient[r][Nth(lost, c)]]]
  /\ inv' = [r \in Row |-> [c \in 0 .. 3 |-> IF r = c THEN {0} ELSE {}]]
  /\ col' = 0 /\ lost_data_cnt' = 0
  /\ pc' = "invert"
  /\ UNCHANGED <<sent, stale>>

(* inverse_matrix: the row a column takes its pivot from, and what is done *)
(* to the rows of both matrices.  Without a pivot it returns NULL, and     *)
(* fec_decode does not look.                                               *)
Pivots == {r \in col .. 3 : matrix[r][col] # {}}

Swapped(a, pivot) == [a EXCEPT ![col] = a[pivot], ![pivot] = a[col]]
Normalised(a, by) == [a EXCEPT ![col] = [c \in 0 .. 3 |-> gf_mul_table[a[col][c]][gf_inv_table[by[col][col]]]]]
Eliminated(a, by) ==
  [r \in Row |-> IF r = col THEN a[r]
     ELSE [c \in 0 .. 3 |-> Xor(a[r][c], gf_mul_table[by[r][col]][a[col][c]])]]

inverse_matrix ==
  /\ pc = "invert"
  /\ Pivots # {}
  /\ LET swapped == Swapped(matrix, Min(Pivots))
         step(a) == Eliminated(Normalised(Swapped(a, Min(Pivots)), swapped), swapped)
     IN  matrix' = step(matrix) /\ inv' = step(inv)
  /\ col' = col + 1
  /\ pc' = IF col = 3 THEN "recover" ELSE "invert"
  /\ UNCHANGED <<sent, stale, marks, packets, singular, lost_data_cnt>>

(* The lost data packets in turn; if the first parity packet is there, the *)
(* last of them is what it lacks of all the others (mutant: the others     *)
(* that arrived).                                                          *)
LostData == marks \cap 0 .. 7
OthersArrived(i) == (0 .. 8) \ marks
Others(i) == (0 .. 8) \ {i}

recover_data ==
  /\ pc = "recover" /\ lost_data_cnt < Cardinality(LostData)
  /\ LET i == Nth(LostData, lost_data_cnt)
         last == lost_data_cnt + 1 = Cardinality(LostData)
     IN  packets' = [packets EXCEPT ![i] =
           IF last /\ 8 \notin marks THEN XorOf([j \in Others(i) |-> packets[j]])
           ELSE recover_packet(inv[lost_data_cnt], singular)]
  /\ lost_data_cnt' = lost_data_cnt + 1
  /\ UNCHANGED <<pc, sent, stale, marks, singular, matrix, inv, col>>

Next == fec_encode \/ fec_decode \/ inverse_matrix \/ recover_data
Spec == Init /\ [][Next]_vars
-----------------------------------------------------------------------------
Recovered == pc = "recover" /\ lost_data_cnt = Cardinality(LostData)

(* Whatever four of the twelve packets are lost, the matrix of their       *)
(* coefficients is inverted without the lack of a pivot, and every         *)
(* data packet comes back (fec84.c:105, 1641), unless the bytes behind the *)
(* end of the packets were not 0 when fec_encode read them (fec.c:432).    *)
Restores ==
  /\ pc = "invert" => Pivots # {}
  /\ Recovered /\ stale = {} => \A j \in 0 .. 7 : packets[j] = sent[j]

(* What gf_fun leaves of the packets that arrived is the product of the    *)
(* matrix with those that did not (fec84.c:285-1145): the exclusive ors    *)
(* written down for each packet multiply by the coefficients of gf_matrix. *)
SingularIsLost ==
  pc = "invert" /\ col = 0 /\ stale = {} =>
    \A i \in Row :
      singular[i] = XorOf([j \in marks |-> gf_mul_table[Coefficient[i][j]][sent[j]]])

(* "Send the reconstructed data packet" (fec.c:364): the packet that is    *)
(* sent on is the one that was lost, at every offset.                      *)
Reconstructed == Recovered => \A j \in 0 .. 7 : packets[j] = sent[j]
=============================================================================
