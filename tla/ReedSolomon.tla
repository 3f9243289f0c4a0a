---------------------------- MODULE ReedSolomon -----------------------------
(***************************************************************************)
(* The Reed-Solomon code of src/lib/rs.c, which modes 1 of encode and      *)
(* decode use (src/src/fec.c): the field, the matrices, the parity blocks  *)
(* of a group and the reconstruction of the blocks that did not arrive.    *)
(*                                                                         *)
(* A byte is the set of its bits, so that exclusive or is the symmetric    *)
(* difference; matrices and rows are functions from 0.  Bytes of a block   *)
(* are coded independently, so a block is one byte.                        *)
(***************************************************************************)
EXTENDS Integers, Sequences, FiniteSets, SequencesExt

CONSTANTS
  GF_BITS,  \* bits of a byte
  Pp,       \* the exponents of the irreducible polynomial, allPp[GF_BITS]
  Shape,    \* pairs <<config.data_num, config.parity_num>>
  Content   \* the bytes blocks are filled with

ASSUME ReedSolomonAssumption ==
  /\ GF_BITS \in Nat \ {0} /\ Pp \subseteq 0 .. GF_BITS
  /\ \A s \in Shape : s[1] > 0 /\ s[2] > 0 /\ s[1] + s[2] < 2 ^ GF_BITS
  /\ Content \subseteq SUBSET (0 .. GF_BITS - 1)

GF_SIZE == 2 ^ GF_BITS - 1
Byte    == SUBSET (0 .. GF_BITS - 1)
Xor(a, b) == (a \ b) \cup (b \ a)
UpTo(n) == [i \in 1 .. n |-> i - 1]
ByteOf(n) == {b \in 0 .. GF_BITS - 1 : (n \div 2 ^ b) % 2 = 1}

VARIABLES
  gf_exp, gf_log,  \* the tables: powers of alpha from the 0th, logarithms
  ds, ps,     \* rs->data_shards, rs->parity_shards
  pc,         \* "init", "new", "encode", "receive", "decode" or "done"
  m,          \* rs->m, or <<>> while it is not computed
  src, col, ipiv, swaps,  \* invert_mat: the matrix, the column, the columns
                          \* that have their pivot, indxr and indxc (last first)
  data,       \* history: the data blocks that were encoded
  shards,     \* the blocks, 0 .. ds - 1 the data
  marks       \* the blocks that did not arrive

tables == <<gf_exp, gf_log>>
invert_vars == <<src, col, ipiv, swaps>>
vars == <<tables, ds, ps, pc, m, invert_vars, data, shards, marks>>

-----------------------------------------------------------------------------
(* generate_gf: the next power of alpha = x, and its logarithm.            *)
TimesX(a) ==
  LET shifted == {b + 1 : b \in a}
  IN  IF GF_BITS \in shifted THEN Xor(shifted, Pp) ELSE shifted

(* modnn; mutant: one less.                                                *)
modnnTooSoon(i) == i % (GF_SIZE - 1)
modnn(i) == i % GF_SIZE

Exp(i) == gf_exp[modnn(i) + 1]

inverse(a) == Exp(GF_SIZE - gf_log[a])

(* init_mul_table *)
gf_mul(a, b) ==
  IF a = {} \/ b = {} THEN {} ELSE Exp(gf_log[a] + gf_log[b])

galExp(a, n) ==
  IF n = 0 THEN {0} ELSE IF a = {} THEN {} ELSE Exp(gf_log[a] * n)

-----------------------------------------------------------------------------
(* Rows and matrices.  mul with a coefficient of 0 clears nothing: its     *)
(* memset has the coefficient for a length.                                *)
Swap(f, i, j) == [f EXCEPT ![i] = f[j], ![j] = f[i]]
mul(dst, byte, c)    == IF c = {} THEN dst ELSE gf_mul(c, byte)
addmul(dst, byte, c) == Xor(dst, gf_mul(c, byte))

vandermonde(nrows, ncols) ==
  [r \in 0 .. nrows - 1 |-> [c \in 0 .. ncols - 1 |-> galExp(ByteOf(r), c)]]

multiply1(a, b, k) ==
  [r \in DOMAIN a |-> [c \in 0 .. k - 1 |->
     FoldLeft(LAMBDA tg, i : Xor(tg, gf_mul(a[r][i], b[i][c])), {}, UpTo(k))]]

(* code_some_shards, for one row of coefficients and one output.           *)
code_shard(row, inputs, output, k) ==
  FoldLeft(LAMBDA out, c : IF c = 0 THEN mul(out, inputs[0], row[0])
                                    ELSE addmul(out, inputs[c], row[c]),
           output, UpTo(k))

-----------------------------------------------------------------------------
Row == 0 .. ds - 1

(* invert_mat is called with the matrix a.                                 *)
Call(a) == src' = a /\ col' = 0 /\ ipiv' = {} /\ swaps' = <<>>

Init ==
  /\ gf_exp = <<{0}>> /\ gf_log = [a \in Byte \ {{}} |-> 0]
  /\ pc = "init"
  /\ ds = 0 /\ ps = 0 /\ m = <<>> /\ data = <<>> /\ shards = <<>> /\ marks = {}
  /\ src = <<>> /\ col = 0 /\ ipiv = {} /\ swaps = <<>>

generate_gf ==
  /\ pc = "init" /\ Len(gf_exp) < GF_SIZE
  /\ LET next == TimesX(Last(gf_exp))
     IN  gf_exp' = Append(gf_exp, next) /\ gf_log' = [gf_log EXCEPT ![next] = Len(gf_exp)]
  /\ UNCHANGED <<ds, ps, pc, m, invert_vars, data, shards, marks>>

(* reed_solomon_new starts with the top of a Vandermonde matrix.           *)
reed_solomon_start ==
  /\ pc = "init" /\ Len(gf_exp) = GF_SIZE
  /\ pc' = "new"
  /\ \E s \in Shape : ds' = s[1] /\ ps' = s[2] /\ Call(vandermonde(s[1], s[1]))
  /\ UNCHANGED <<tables, m, data, shards, marks>>

(* invert_mat: where a column finds its pivot, on the diagonal or at the   *)
(* first place in the rows and columns that have none yet (mutant: only    *)
(* on the diagonal);                                                       *)
Free == Row \ ipiv
PivotsOnDiagonal == IF col \in Free /\ src[col][col] # {} THEN {<<col, col>>} ELSE {}
Pivots ==
  IF col \in Free /\ src[col][col] # {} THEN {<<col, col>>}
  ELSE {p \in Free \X Free : src[p[1]][p[2]] # {}}
First(pivots) ==
  CHOOSE p \in pivots : \A q \in pivots : p[1] < q[1] \/ (p[1] = q[1] /\ p[2] <= q[2])

(* the row operations of one column, whose pivot is c.                     *)
PivotRow(row, c, icol) ==
  [x \in Row |-> gf_mul(inverse(c), IF x = icol THEN {0} ELSE row[x])]
Eliminated(a, icol) ==
  LET pivot == PivotRow(a[icol], a[icol][icol], icol)
  IN  [r \in Row |-> IF r = icol THEN pivot
         ELSE [x \in Row |-> addmul(IF x = icol THEN {} ELSE a[r][x], pivot[x], a[r][icol])]]

invert_column ==
  /\ pc \in {"new", "decode"}
  /\ col < ds
  /\ Pivots # {}
  /\ LET p == First(Pivots)
     IN  /\ src' = Eliminated(Swap(src, p[1], p[2]), p[2])
         /\ ipiv' = ipiv \cup {p[2]}
         /\ swaps' = <<p>> \o swaps
  /\ col' = col + 1
  /\ UNCHANGED <<tables, ds, ps, pc, m, data, shards, marks>>

(* At its end the columns are swapped back, last first.  A mutant forgets. *)
SwapBackNever(a) == a
SwapBack(a) == FoldLeft(LAMBDA b, p : [r \in DOMAIN b |-> Swap(b[r], p[1], p[2])], a, swaps)
Inverted == SwapBack(src)

(* The rest of reed_solomon_new: the top of rs->m is the identity.         *)
reed_solomon_new ==
  /\ pc = "new" /\ col = ds
  /\ pc' = "encode"
  /\ m' = multiply1(vandermonde(ds + ps, ds), Inverted, ds)
  /\ Call(<<>>)
  /\ UNCHANGED <<tables, ds, ps, data, shards, marks>>

(* reed_solomon_encode2 on blocks whose parity part is zero.               *)
reed_solomon_encode2 ==
  /\ pc = "encode"
  /\ pc' = "receive"
  /\ data' \in [Row -> Content]
  /\ shards' = [i \in 0 .. ds + ps - 1 |-> IF i \in Row THEN data'[i] ELSE code_shard(m[i], data', {}, ds)]
  /\ UNCHANGED <<tables, ds, ps, m, invert_vars, marks>>

(* serve_output decodes when ds of the blocks arrived and a data block did *)
(* not, whose memory is zero; as many parity blocks arrived as data blocks *)
(* are missing, so reed_solomon_reconstruct never gives up.                *)
Erased(lost) == {i \in lost : i < ds}
ValidFec(lost) == (ds .. ds + ps - 1) \ lost
Nth(S, n) == CHOOSE i \in S : Cardinality({j \in S : j < i}) = n

(* The rows and blocks it takes: the data blocks that arrived, then the    *)
(* parity blocks that did, each in their order.                            *)
Used(lost, n) ==
  LET arrived == Row \ lost
  IN  IF n < Cardinality(arrived) THEN Nth(arrived, n)
      ELSE Nth(ValidFec(lost), n - Cardinality(arrived))

reed_solomon_reconstruct ==
  /\ pc = "receive"
  /\ \E lost \in SUBSET (0 .. ds + ps - 1) :
       /\ Cardinality(lost) = ps /\ Erased(lost) # {}
       /\ marks' = lost
       /\ shards' = [i \in DOMAIN shards |-> IF i \in lost THEN {} ELSE shards[i]]
       /\ Call([n \in Row |-> m[Used(lost, n)]])
  /\ pc' = "decode"
  /\ UNCHANGED <<tables, ds, ps, m, data>>

reed_solomon_decode ==
  /\ pc = "decode" /\ col = ds
  /\ LET sub == [n \in Row |-> shards[Used(marks, n)]]
     IN  shards' = [i \in DOMAIN shards |->
                      IF i \in Erased(marks) THEN code_shard(Inverted[i], sub, shards[i], ds) ELSE shards[i]]
  /\ pc' = "done"
  /\ UNCHANGED <<tables, ds, ps, m, invert_vars, data, marks>>

Next ==
  \/ generate_gf \/ reed_solomon_start \/ invert_column
  \/ reed_solomon_new \/ reed_solomon_encode2
  \/ reed_solomon_reconstruct \/ reed_solomon_decode

Spec == Init /\ [][Next]_vars
-----------------------------------------------------------------------------
(* Whatever blocks are lost, as long as as many arrive as the group has    *)
(* data packets, every data block is what was encoded (rs.c:788-988).      *)
Reconstructs == pc = "done" => \A i \in Row : shards[i] = data[i]

(* invert_mat finds a pivot in every column of every matrix it is given,   *)
(* so the matrix is inverted (rs.c:431-463; its callers rely on it, with   *)
(* an assertion in rs.c:727 and without a check in rs.c:878).              *)
NeverSingular == pc \in {"new", "decode"} /\ col < ds => Pivots # {}

(* Once generate_gf has filled the tables, which nothing changes later,    *)
(* gf_mul is for every two bytes their product as polynomials modulo Pp    *)
(* (rs.c:150-197): the whole of gf_mul_table.                              *)
Product(a, b) ==
  FoldLeft(LAMBDA acc, i : Xor(TimesX(acc), IF GF_BITS - 1 - i \in b THEN a ELSE {}), {}, UpTo(GF_BITS))
TablesMultiply ==
  pc = "init" /\ Len(gf_exp) = GF_SIZE => \A a, b \in Byte : gf_mul(a, b) = Product(a, b)
=============================================================================
