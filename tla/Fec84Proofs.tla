---------------------------- MODULE Fec84Proofs -----------------------------
(***************************************************************************)
(* The 8 + 4 code restores whatever four packets are lost, for every       *)
(* content of the packets: the field, the two forms in which the code      *)
(* writes its multiplications down, the distance of the code, the steps of *)
(* inverse_matrix as steps on equations, and the invariant of decoding.    *)
(***************************************************************************)
EXTENDS Fec84, FiniteSetTheorems, FunctionTheorems, TLAPS

-----------------------------------------------------------------------------
(* One more makes an even number of an odd one.                            *)
LEMMA OddAdd ==
  ASSUME NEW S, IsFiniteSet(S), NEW x, x \notin S
  PROVE  Odd(S \cup {x}) <=> ~Odd(S)
<1>1. Cardinality(S) \in Nat /\ Cardinality(S \cup {x}) = Cardinality(S) + 1
  BY FS_CardinalityType, FS_AddElement
<1>2. \A n \in Nat : (n + 1) % 2 = 1 <=> ~(n % 2 = 1)
  OBVIOUS
<1> QED
  BY <1>1, <1>2 DEF Odd

LEMMA OddRemove ==
  ASSUME NEW S, IsFiniteSet(S), NEW x
  PROVE  Odd(S \ {x}) <=> (x \in S <=> ~Odd(S))
<1>1. CASE x \in S
  <2>1. IsFiniteSet(S \ {x}) /\ x \notin S \ {x} /\ S = (S \ {x}) \cup {x}
    BY <1>1, FS_RemoveElement
  <2> QED
    BY <1>1, <2>1, OddAdd
<1>2. CASE x \notin S
  BY <1>2, S \ {x} = S
<1> QED
  BY <1>1, <1>2

(* The parity of two sets that do not meet.                                *)
LEMMA OddUnion ==
  ASSUME NEW S, IsFiniteSet(S), NEW T, IsFiniteSet(T), S \cap T = {}
  PROVE  Odd(S \cup T) <=> ~(Odd(S) <=> Odd(T))
<1>1. /\ Cardinality(S) \in Nat /\ Cardinality(T) \in Nat
      /\ Cardinality(S \cup T) = Cardinality(S) + Cardinality(T)
  <2>1. Cardinality(S) \in Nat /\ Cardinality(T) \in Nat
    BY FS_CardinalityType
  <2>2. Cardinality(S \cup T) = Cardinality(S) + Cardinality(T) - Cardinality(S \cap T)
    BY FS_Union
  <2>3. Cardinality(S \cap T) = 0
    BY FS_EmptySet
  <2> QED
    BY <2>1, <2>2, <2>3
<1>2. \A m, n \in Nat : (m + n) % 2 = 1 <=> ~(m % 2 = 1 <=> n % 2 = 1)
  OBVIOUS
<1> QED
  BY <1>1, <1>2 DEF Odd

LEMMA OddEmpty == ~Odd({})
  BY FS_EmptySet DEF Odd

(* Of four, an odd number ...                                              *)
OddOf(p, q, r, s) == ~(~(p <=> q) <=> ~(r <=> s))

LEMMA OddFour ==
  ASSUME NEW w, NEW x, NEW y, NEW z, w # x, w # y, w # z, x # y, x # z, y # z,
         NEW S, S \subseteq {w, x, y, z}
  PROVE  Odd(S) <=> OddOf(w \in S, x \in S, y \in S, z \in S)
<1> DEFINE A == S \ {w}
           B == A \ {x}
           D == B \ {y}
<1>1. IsFiniteSet(S)
  <2>1. IsFiniteSet({w, x, y, z})
    <3>1. {w, x, y, z} = (({w} \cup {x}) \cup {y}) \cup {z}
      OBVIOUS
    <3>2. IsFiniteSet({w})
      BY FS_Singleton
    <3>3. IsFiniteSet({w} \cup {x})
      BY <3>2, FS_AddElement
    <3>4. IsFiniteSet(({w} \cup {x}) \cup {y})
      BY <3>3, FS_AddElement
    <3>5. IsFiniteSet((({w} \cup {x}) \cup {y}) \cup {z})
      BY <3>4, FS_AddElement
    <3> QED
      BY <3>1, <3>5
  <2> QED
    BY <2>1, FS_Subset
<1>2. IsFiniteSet(A) /\ IsFiniteSet(B) /\ IsFiniteSet(D)
  BY <1>1, FS_RemoveElement
<1>3. D \ {z} = {}
  OBVIOUS
<1>4. /\ Odd(A) <=> (w \in S <=> ~Odd(S))
      /\ Odd(B) <=> (x \in A <=> ~Odd(A))
      /\ Odd(D) <=> (y \in B <=> ~Odd(B))
      /\ Odd(D \ {z}) <=> (z \in D <=> ~Odd(D))
  <2> HIDE DEF A, B, D
  <2>1. Odd(S \ {w}) <=> (w \in S <=> ~Odd(S))
    BY <1>1, OddRemove
  <2>2. /\ Odd(A \ {x}) <=> (x \in A <=> ~Odd(A))
        /\ Odd(B \ {y}) <=> (y \in B <=> ~Odd(B))
        /\ Odd(D \ {z}) <=> (z \in D <=> ~Odd(D))
    BY <1>2, OddRemove
  <2> QED
    BY <2>1, <2>2 DEF A, B, D
<1>5. (x \in A <=> x \in S) /\ (y \in B <=> y \in S) /\ (z \in D <=> z \in S)
  OBVIOUS
<1>6. ~Odd(D \ {z})
  BY <1>3, OddEmpty
<1> QED
  BY <1>4, <1>5, <1>6 DEF OddOf

-----------------------------------------------------------------------------
(* Elements of the field are equal when their bits are, and their sums are *)
(* those of a group in which everything is its own inverse.                *)
LEMMA SameBits ==
  ASSUME NEW a \in Element, NEW b \in Element,
         0 \in a <=> 0 \in b, 1 \in a <=> 1 \in b,
         2 \in a <=> 2 \in b, 3 \in a <=> 3 \in b
  PROVE  a = b
<1>1. a \subseteq Block /\ b \subseteq Block
  BY DEF Element
<1>2. \A x \in Block : x = 0 \/ x = 1 \/ x = 2 \/ x = 3
  BY DEF Block
<1>3. \A x \in Block : x \in a <=> x \in b
  BY <1>2
<1> QED
  BY <1>1, <1>3

LEMMA XorLaws ==
  ASSUME NEW a \in Element, NEW b \in Element, NEW c \in Element
  PROVE  /\ Xor(a, b) \in Element
         /\ \A x : x \in Xor(a, b) <=> ~(x \in a <=> x \in b)
         /\ Xor(a, b) = Xor(b, a)
         /\ Xor(a, Xor(b, c)) = Xor(Xor(a, b), c)
         /\ Xor(a, a) = {} /\ Xor(a, {}) = a /\ Xor({}, a) = a
  BY DEF Xor, Element

(* The bits of an exclusive or of up to four elements.                     *)
LEMMA XorOfBits ==
  ASSUME NEW D \in SUBSET (0 .. 3), NEW f \in [D -> Element]
  PROVE  /\ XorOf(f) \in Element
         /\ \A b \in Block :
              b \in XorOf(f) <=> OddOf(0 \in D /\ b \in f[0], 1 \in D /\ b \in f[1],
                                       2 \in D /\ b \in f[2], 3 \in D /\ b \in f[3])
<1>1. DOMAIN f = D
  OBVIOUS
<1>2. XorOf(f) \in Element
  BY DEF XorOf, Element
<1>3. ASSUME NEW b \in Block
      PROVE  b \in XorOf(f) <=> OddOf(0 \in D /\ b \in f[0], 1 \in D /\ b \in f[1],
                                       2 \in D /\ b \in f[2], 3 \in D /\ b \in f[3])
  <2> DEFINE S == {j \in D : b \in f[j]}
  <2>1. S \subseteq {0, 1, 2, 3}
    <3>1. S \subseteq 0 .. 3
      OBVIOUS
    <3>2. 0 .. 3 = {0, 1, 2, 3}
      OBVIOUS
    <3> QED
      BY <3>1, <3>2
  <2>2. b \in XorOf(f) <=> Odd(S)
    BY <1>1 DEF XorOf
  <2>3. /\ 0 \in S <=> 0 \in D /\ b \in f[0]
        /\ 1 \in S <=> 1 \in D /\ b \in f[1]
        /\ 2 \in S <=> 2 \in D /\ b \in f[2]
        /\ 3 \in S <=> 3 \in D /\ b \in f[3]
    OBVIOUS
  <2> HIDE DEF S
  <2>4. Odd(S) <=> OddOf(0 \in S, 1 \in S, 2 \in S, 3 \in S)
    <3>1. 0 # 1 /\ 0 # 2 /\ 0 # 3 /\ 1 # 2 /\ 1 # 3 /\ 2 # 3
      OBVIOUS
    <3> QED
      BY ONLY <2>1, <3>1, OddFour, Zenon
  <2> QED
    BY <2>2, <2>3, <2>4 DEF OddOf
<1> QED
  BY <1>2, <1>3

(* The powers of x that a product of two elements needs.                   *)
LEMMA PowerBits ==
  /\ Power(0) = {0} /\ Power(1) = {1} /\ Power(2) = {2} /\ Power(3) = {3}
  /\ Power(4) = Block /\ Power(5) = {0} /\ Power(6) = {1}
  BY DEF Power

Mul(a, b) == gf_mul_table[a][b]

(* The bits of a product of polynomials, before it is reduced ...          *)
Term1(a, b) == ~(0 \in a /\ 1 \in b <=> 1 \in a /\ 0 \in b)
Term2(a, b) == OddOf(0 \in a /\ 2 \in b, 1 \in a /\ 1 \in b, 2 \in a /\ 0 \in b, FALSE)
Term3(a, b) == OddOf(0 \in a /\ 3 \in b, 1 \in a /\ 2 \in b, 2 \in a /\ 1 \in b, 3 \in a /\ 0 \in b)
Term4(a, b) == OddOf(1 \in a /\ 3 \in b, 2 \in a /\ 2 \in b, 3 \in a /\ 1 \in b, FALSE)
Term5(a, b) == ~(2 \in a /\ 3 \in b <=> 3 \in a /\ 2 \in b)

(* ... and what is left of them: x^4 is 1 + x + x^2 + x^3, and x^5 is 1.   *)
LEMMA MulBits ==
  ASSUME NEW a \in Element, NEW b \in Element
  PROVE  /\ Mul(a, b) \in Element
         /\ 0 \in Mul(a, b) <=> OddOf(0 \in a /\ 0 \in b, Term4(a, b), Term5(a, b), FALSE)
         /\ 1 \in Mul(a, b) <=> OddOf(Term1(a, b), Term4(a, b), 3 \in a /\ 3 \in b, FALSE)
         /\ 2 \in Mul(a, b) <=> ~(Term2(a, b) <=> Term4(a, b))
         /\ 3 \in Mul(a, b) <=> ~(Term3(a, b) <=> Term4(a, b))
<1> DEFINE f(i) == [j \in b |-> Power(i + j)]
           g == [i \in a |-> XorOf(f(i))]
<1>1. Mul(a, b) = XorOf(g)
  BY DEF Mul, gf_mul_table, _gf_mul
<1>2. a \subseteq 0 .. 3 /\ b \subseteq 0 .. 3
  BY DEF Element, Block
<1>3. \A n \in 0 .. 6 : Power(n) \in Element
  BY PowerBits DEF Element, Block
<1>4. \A i \in 0 .. 3 : f(i) \in [b -> Element]
  BY <1>2, <1>3
<1>5. ASSUME NEW i \in 0 .. 3
      PROVE  /\ XorOf(f(i)) \in Element
             /\ \A k \in Block :
                  k \in XorOf(f(i)) <=> OddOf(0 \in b /\ k \in Power(i), 1 \in b /\ k \in Power(i + 1),
                                              2 \in b /\ k \in Power(i + 2), 3 \in b /\ k \in Power(i + 3))
  <2>1. /\ 0 \in b => f(i)[0] = Power(i)
        /\ 1 \in b => f(i)[1] = Power(i + 1)
        /\ 2 \in b => f(i)[2] = Power(i + 2)
        /\ 3 \in b => f(i)[3] = Power(i + 3)
    BY i + 0 = i
  <2> DEFINE F == f(i)
  <2>2. F \in [b -> Element]
    BY <1>4
  <2> HIDE DEF F
  <2>3. /\ XorOf(F) \in Element
        /\ \A k \in Block :
             k \in XorOf(F) <=> OddOf(0 \in b /\ k \in F[0], 1 \in b /\ k \in F[1],
                                      2 \in b /\ k \in F[2], 3 \in b /\ k \in F[3])
    BY <1>2, <2>2, XorOfBits
  <2> QED
    BY <2>1, <2>3 DEF F, OddOf
<1>6. g \in [a -> Element]
  BY <1>2, <1>5
<1>7. \A i \in a : g[i] = XorOf(f(i))
  OBVIOUS
<1> DEFINE h(i, k) == OddOf(0 \in b /\ k \in Power(i), 1 \in b /\ k \in Power(i + 1),
                            2 \in b /\ k \in Power(i + 2), 3 \in b /\ k \in Power(i + 3))
<1>8. \A i \in a, k \in Block : k \in g[i] <=> h(i, k)
  BY <1>2, <1>5, <1>7
<1> HIDE DEF f, g
<1>9. /\ XorOf(g) \in Element
      /\ \A k \in Block :
           k \in XorOf(g) <=> OddOf(0 \in a /\ h(0, k), 1 \in a /\ h(1, k),
                                    2 \in a /\ h(2, k), 3 \in a /\ h(3, k))
  BY <1>2, <1>6, <1>8, XorOfBits DEF OddOf
<1>10. 0 \in Block /\ 1 \in Block /\ 2 \in Block /\ 3 \in Block
  BY DEF Block
<1>11. \A k \in Block :
         /\ h(0, k) <=> OddOf(0 \in b /\ k = 0, 1 \in b /\ k = 1, 2 \in b /\ k = 2, 3 \in b /\ k = 3)
         /\ h(1, k) <=> OddOf(0 \in b /\ k = 1, 1 \in b /\ k = 2, 2 \in b /\ k = 3, 3 \in b)
         /\ h(2, k) <=> OddOf(0 \in b /\ k = 2, 1 \in b /\ k = 3, 2 \in b, 3 \in b /\ k = 0)
         /\ h(3, k) <=> OddOf(0 \in b /\ k = 3, 1 \in b, 2 \in b /\ k = 0, 3 \in b /\ k = 1)
  BY PowerBits DEF OddOf
<1> HIDE DEF h
<1>12. 0 \in Mul(a, b) <=> OddOf(0 \in a /\ 0 \in b, Term4(a, b), Term5(a, b), FALSE)
  BY <1>1, <1>9, <1>10, <1>11 DEF OddOf, Term4, Term5
<1>13. 1 \in Mul(a, b) <=> OddOf(Term1(a, b), Term4(a, b), 3 \in a /\ 3 \in b, FALSE)
  BY <1>1, <1>9, <1>10, <1>11 DEF OddOf, Term1, Term4
<1>14. 2 \in Mul(a, b) <=> ~(Term2(a, b) <=> Term4(a, b))
  BY <1>1, <1>9, <1>10, <1>11 DEF OddOf, Term2, Term4
<1>15. 3 \in Mul(a, b) <=> ~(Term3(a, b) <=> Term4(a, b))
  BY <1>1, <1>9, <1>10, <1>11 DEF OddOf, Term3, Term4
<1> QED
  BY <1>1, <1>9, <1>12, <1>13, <1>14, <1>15

-----------------------------------------------------------------------------
(* The laws of a field.                                                    *)
LEMMA MulCommutes ==
  ASSUME NEW a \in Element, NEW b \in Element
  PROVE  Mul(a, b) = Mul(b, a)
<1> DEFINE m == Mul(a, b)
           n == Mul(b, a)
<1>1. /\ m \in Element
      /\ 0 \in m <=> OddOf(0 \in a /\ 0 \in b, Term4(a, b), Term5(a, b), FALSE)
      /\ 1 \in m <=> OddOf(Term1(a, b), Term4(a, b), 3 \in a /\ 3 \in b, FALSE)
      /\ 2 \in m <=> ~(Term2(a, b) <=> Term4(a, b))
      /\ 3 \in m <=> ~(Term3(a, b) <=> Term4(a, b))
  BY MulBits
<1>2. /\ n \in Element
      /\ 0 \in n <=> OddOf(0 \in b /\ 0 \in a, Term4(b, a), Term5(b, a), FALSE)
      /\ 1 \in n <=> OddOf(Term1(b, a), Term4(b, a), 3 \in b /\ 3 \in a, FALSE)
      /\ 2 \in n <=> ~(Term2(b, a) <=> Term4(b, a))
      /\ 3 \in n <=> ~(Term3(b, a) <=> Term4(b, a))
  BY MulBits
<1> HIDE DEF m, n
<1>3. /\ Term1(a, b) <=> Term1(b, a) 
      /\ Term2(a, b) <=> Term2(b, a)
      /\ Term3(a, b) <=> Term3(b, a)
      /\ Term4(a, b) <=> Term4(b, a)
      /\ Term5(a, b) <=> Term5(b, a)
  BY DEF Term1, Term2, Term3, Term4, Term5, OddOf
<1>4. m = n
  <2>1. /\ 0 \in m <=> 0 \in n
        /\ 1 \in m <=> 1 \in n
        /\ 2 \in m <=> 2 \in n
        /\ 3 \in m <=> 3 \in n
    BY <1>1, <1>2, <1>3 DEF OddOf
  <2> QED
    BY <1>1, <1>2, <2>1, SameBits
<1> QED
  BY <1>4 DEF m, n

(* Multiplication distributes over the exclusive or, ...                   *)
LEMMA MulDistributes ==
  ASSUME NEW a \in Element, NEW b \in Element, NEW c \in Element
  PROVE  Mul(a, Xor(b, c)) = Xor(Mul(a, b), Mul(a, c))
<1> DEFINE d == Xor(b, c)
           l == Mul(a, d)
           m == Mul(a, b)
           n == Mul(a, c)
           o == Xor(m, n)
<1>0. /\ d \in Element /\ o \in Element
      /\ \A x : x \in d <=> ~(x \in b <=> x \in c)
      /\ \A x : x \in o <=> ~(x \in m <=> x \in n)
  <2>1. m \in Element /\ n \in Element
    BY MulBits
  <2> HIDE DEF m, n
  <2> QED
    BY <2>1, XorLaws
<1>1. /\ l \in Element
      /\ 0 \in l <=> OddOf(0 \in a /\ 0 \in d, Term4(a, d), Term5(a, d), FALSE)
      /\ 1 \in l <=> OddOf(Term1(a, d), Term4(a, d), 3 \in a /\ 3 \in d, FALSE)
      /\ 2 \in l <=> ~(Term2(a, d) <=> Term4(a, d))
      /\ 3 \in l <=> ~(Term3(a, d) <=> Term4(a, d))
  BY <1>0, MulBits
<1>2. /\ m \in Element
      /\ 0 \in m <=> OddOf(0 \in a /\ 0 \in b, Term4(a, b), Term5(a, b), FALSE)
      /\ 1 \in m <=> OddOf(Term1(a, b), Term4(a, b), 3 \in a /\ 3 \in b, FALSE)
      /\ 2 \in m <=> ~(Term2(a, b) <=> Term4(a, b))
      /\ 3 \in m <=> ~(Term3(a, b) <=> Term4(a, b))
  BY MulBits
<1>3. /\ n \in Element
      /\ 0 \in n <=> OddOf(0 \in a /\ 0 \in c, Term4(a, c), Term5(a, c), FALSE)
      /\ 1 \in n <=> OddOf(Term1(a, c), Term4(a, c), 3 \in a /\ 3 \in c, FALSE)
      /\ 2 \in n <=> ~(Term2(a, c) <=> Term4(a, c))
      /\ 3 \in n <=> ~(Term3(a, c) <=> Term4(a, c))
  BY MulBits
<1> HIDE DEF d, l, m, n, o
<1>4. /\ Term1(a, d) <=> ~(Term1(a, b) <=> Term1(a, c))
      /\ Term2(a, d) <=> ~(Term2(a, b) <=> Term2(a, c))
      /\ Term3(a, d) <=> ~(Term3(a, b) <=> Term3(a, c))
      /\ Term4(a, d) <=> ~(Term4(a, b) <=> Term4(a, c))
      /\ Term5(a, d) <=> ~(Term5(a, b) <=> Term5(a, c))
  BY <1>0 DEF Term1, Term2, Term3, Term4, Term5, OddOf
<1>5. /\ 0 \in l <=> 0 \in o
      /\ 1 \in l <=> 1 \in o
      /\ 2 \in l <=> 2 \in o
      /\ 3 \in l <=> 3 \in o
  BY <1>0, <1>1, <1>2, <1>3, <1>4 DEF OddOf
<1>6. l = o
  BY <1>0, <1>1, <1>5, SameBits
<1> QED
  BY <1>6 DEF d, l, m, n, o

(* ... is associative ...                                                  *)
LEMMA MulAssociates ==
  ASSUME NEW a \in Element, NEW b \in Element, NEW c \in Element
  PROVE  Mul(a, Mul(b, c)) = Mul(Mul(a, b), c)
<1> DEFINE d == Mul(b, c)
           e == Mul(a, b)
           m == Mul(a, d)
           n == Mul(e, c)
<1>1. /\ d \in Element
      /\ 0 \in d <=> OddOf(0 \in b /\ 0 \in c, Term4(b, c), Term5(b, c), FALSE)
      /\ 1 \in d <=> OddOf(Term1(b, c), Term4(b, c), 3 \in b /\ 3 \in c, FALSE)
      /\ 2 \in d <=> ~(Term2(b, c) <=> Term4(b, c))
      /\ 3 \in d <=> ~(Term3(b, c) <=> Term4(b, c))
  BY MulBits
<1>2. /\ e \in Element
      /\ 0 \in e <=> OddOf(0 \in a /\ 0 \in b, Term4(a, b), Term5(a, b), FALSE)
      /\ 1 \in e <=> OddOf(Term1(a, b), Term4(a, b), 3 \in a /\ 3 \in b, FALSE)
      /\ 2 \in e <=> ~(Term2(a, b) <=> Term4(a, b))
      /\ 3 \in e <=> ~(Term3(a, b) <=> Term4(a, b))
  BY MulBits
<1>3. /\ m \in Element
      /\ 0 \in m <=> OddOf(0 \in a /\ 0 \in d, Term4(a, d), Term5(a, d), FALSE)
      /\ 1 \in m <=> OddOf(Term1(a, d), Term4(a, d), 3 \in a /\ 3 \in d, FALSE)
      /\ 2 \in m <=> ~(Term2(a, d) <=> Term4(a, d))
      /\ 3 \in m <=> ~(Term3(a, d) <=> Term4(a, d))
  BY <1>1, MulBits
<1>4. /\ n \in Element
      /\ 0 \in n <=> OddOf(0 \in e /\ 0 \in c, Term4(e, c), Term5(e, c), FALSE)
      /\ 1 \in n <=> OddOf(Term1(e, c), Term4(e, c), 3 \in e /\ 3 \in c, FALSE)
      /\ 2 \in n <=> ~(Term2(e, c) <=> Term4(e, c))
      /\ 3 \in n <=> ~(Term3(e, c) <=> Term4(e, c))
  BY <1>2, MulBits
<1> HIDE DEF d, e, m, n
<1>5. /\ 0 \in m <=> 0 \in n
      /\ 1 \in m <=> 1 \in n
      /\ 2 \in m <=> 2 \in n
      /\ 3 \in m <=> 3 \in n
  BY <1>1, <1>2, <1>3, <1>4 DEF OddOf, Term1, Term2, Term3, Term4, Term5
<1>6. m = n
  BY <1>3, <1>4, <1>5, SameBits
<1> QED
  BY <1>6 DEF d, e, m, n

(* ... and has one and zero.                                               *)
LEMMA MulOne ==
  ASSUME NEW a \in Element
  PROVE  /\ Mul({0}, a) = a /\ Mul(a, {0}) = a
         /\ Mul({}, a) = {} /\ Mul(a, {}) = {}
<1>1. {0} \in Element /\ {} \in Element
  BY DEF Element, Block
<1>2. /\ ~(1 \in {0}) /\ ~(2 \in {0}) /\ ~(3 \in {0})
  OBVIOUS
<1>3. Mul({0}, a) = a
  <2> DEFINE e == {0}
             m == Mul(e, a)
  <2>1. /\ m \in Element
        /\ 0 \in m <=> OddOf(0 \in e /\ 0 \in a, Term4(e, a), Term5(e, a), FALSE)
        /\ 1 \in m <=> OddOf(Term1(e, a), Term4(e, a), 3 \in e /\ 3 \in a, FALSE)
        /\ 2 \in m <=> ~(Term2(e, a) <=> Term4(e, a))
        /\ 3 \in m <=> ~(Term3(e, a) <=> Term4(e, a))
    BY <1>1, MulBits
  <2>2. 0 \in e /\ ~(1 \in e) /\ ~(2 \in e) /\ ~(3 \in e)
    BY <1>2
  <2> HIDE DEF e, m
  <2>3. /\ 0 \in m <=> 0 \in a
        /\ 1 \in m <=> 1 \in a
        /\ 2 \in m <=> 2 \in a
        /\ 3 \in m <=> 3 \in a
    BY <2>1, <2>2 DEF OddOf, Term1, Term2, Term3, Term4, Term5
  <2>4. m = a
    BY <2>1, <2>3, SameBits
  <2> QED
    BY <2>4 DEF e, m
<1>4. Mul({}, a) = {}
  <2> DEFINE e == {}
             m == Mul(e, a)
  <2>1. /\ m \in Element
        /\ 0 \in m <=> OddOf(0 \in e /\ 0 \in a, Term4(e, a), Term5(e, a), FALSE)
        /\ 1 \in m <=> OddOf(Term1(e, a), Term4(e, a), 3 \in e /\ 3 \in a, FALSE)
        /\ 2 \in m <=> ~(Term2(e, a) <=> Term4(e, a))
        /\ 3 \in m <=> ~(Term3(e, a) <=> Term4(e, a))
    BY <1>1, MulBits
  <2>2. e \in Element /\ ~(0 \in e) /\ ~(1 \in e) /\ ~(2 \in e) /\ ~(3 \in e)
    BY <1>1
  <2> HIDE DEF e, m
  <2>3. /\ 0 \in m <=> 0 \in e
        /\ 1 \in m <=> 1 \in e
        /\ 2 \in m <=> 2 \in e
        /\ 3 \in m <=> 3 \in e
    BY <2>1, <2>2 DEF OddOf, Term1, Term2, Term3, Term4, Term5
  <2>4. m = e
    BY <2>1, <2>2, <2>3, SameBits
  <2> QED
    BY <2>4 DEF e, m
<1> QED
  BY <1>1, <1>3, <1>4, MulCommutes

(* The fifteen elements but zero are a group of powers: the fourteenth     *)
(* power of one is its inverse.                                            *)
LEMMA HasInverse ==
  ASSUME NEW a \in Element, a # {}
  PROVE  \E b \in Element : Mul(a, b) = {0}
<1>1. PICK a2 \in Element : a2 = Mul(a, a)
  BY MulBits
<1>2. PICK a4 \in Element : a4 = Mul(a2, a2)
  BY MulBits
<1>3. PICK a8 \in Element : a8 = Mul(a4, a4)
  BY MulBits
<1>4. PICK a6 \in Element : a6 = Mul(a2, a4)
  BY MulBits
<1>5. PICK a14 \in Element : a14 = Mul(a6, a8)
  BY MulBits
<1>6. PICK m \in Element : m = Mul(a, a14)
  BY MulBits
<1>7. {0} \in Element /\ {} \in Element
  BY DEF Element, Block
<1>8. 0 \in a \/ 1 \in a \/ 2 \in a \/ 3 \in a
  BY <1>7, SameBits
<1>9. ASSUME NEW c \in Element, NEW d, d = Mul(c, c)
      PROVE  /\ 0 \in d <=> ~(0 \in c <=> 2 \in c)
             /\ 1 \in d <=> ~(2 \in c <=> 3 \in c)
             /\ 2 \in d <=> ~(1 \in c <=> 2 \in c)
             /\ 3 \in d <=> 2 \in c
  BY <1>9, MulBits DEF OddOf, Term1, Term2, Term3, Term4, Term5
<1>10. /\ 0 \in a2 <=> ~(0 \in a <=> 2 \in a)
       /\ 1 \in a2 <=> ~(2 \in a <=> 3 \in a)
       /\ 2 \in a2 <=> ~(1 \in a <=> 2 \in a)
       /\ 3 \in a2 <=> 2 \in a
  BY <1>1, <1>9
<1>11. /\ 0 \in a4 <=> ~(0 \in a2 <=> 2 \in a2)
       /\ 1 \in a4 <=> ~(2 \in a2 <=> 3 \in a2)
       /\ 2 \in a4 <=> ~(1 \in a2 <=> 2 \in a2)
       /\ 3 \in a4 <=> 2 \in a2
  BY <1>2, <1>9
<1>12. /\ 0 \in a8 <=> ~(0 \in a4 <=> 2 \in a4)
       /\ 1 \in a8 <=> ~(2 \in a4 <=> 3 \in a4)
       /\ 2 \in a8 <=> ~(1 \in a4 <=> 2 \in a4)
       /\ 3 \in a8 <=> 2 \in a4
  BY <1>3, <1>9
<1>13. /\ 0 \in a6 <=> OddOf(0 \in a2 /\ 0 \in a4, Term4(a2, a4), Term5(a2, a4), FALSE)
       /\ 1 \in a6 <=> OddOf(Term1(a2, a4), Term4(a2, a4), 3 \in a2 /\ 3 \in a4, FALSE)
       /\ 2 \in a6 <=> ~(Term2(a2, a4) <=> Term4(a2, a4))
       /\ 3 \in a6 <=> ~(Term3(a2, a4) <=> Term4(a2, a4))
  BY <1>4, MulBits
<1>14. /\ 0 \in a14 <=> OddOf(0 \in a6 /\ 0 \in a8, Term4(a6, a8), Term5(a6, a8), FALSE)
       /\ 1 \in a14 <=> OddOf(Term1(a6, a8), Term4(a6, a8), 3 \in a6 /\ 3 \in a8, FALSE)
       /\ 2 \in a14 <=> ~(Term2(a6, a8) <=> Term4(a6, a8))
       /\ 3 \in a14 <=> ~(Term3(a6, a8) <=> Term4(a6, a8))
  BY <1>5, MulBits
<1>15. /\ 0 \in m <=> OddOf(0 \in a /\ 0 \in a14, Term4(a, a14), Term5(a, a14), FALSE)
       /\ 1 \in m <=> OddOf(Term1(a, a14), Term4(a, a14), 3 \in a /\ 3 \in a14, FALSE)
       /\ 2 \in m <=> ~(Term2(a, a14) <=> Term4(a, a14))
       /\ 3 \in m <=> ~(Term3(a, a14) <=> Term4(a, a14))
  BY <1>6, MulBits
<1>16. 0 \in m /\ ~(1 \in m) /\ ~(2 \in m) /\ ~(3 \in m)
  BY <1>8, <1>10, <1>11, <1>12, <1>13, <1>14, <1>15
     DEF OddOf, Term1, Term2, Term3, Term4, Term5
<1>17. m = {0}
  BY <1>7, <1>16, SameBits
<1> QED
  BY <1>6, <1>17

(* gf_inv_table holds an inverse of everything but zero (fec84.c:67).      *)
LEMMA InverseMultiplies ==
  ASSUME NEW a \in Element, a # {}
  PROVE  gf_inv_table[a] \in Element /\ Mul(a, gf_inv_table[a]) = {0}
  BY HasInverse DEF gf_inv_table, Mul

-----------------------------------------------------------------------------
(* The tables the code writes down.  A number is the set of its bits ...   *)
LEMMA BitsOf ==
  /\ Bits(0) = {} /\ Bits(1) = {0} /\ Bits(2) = {1} /\ Bits(3) = {0, 1}
  /\ Bits(4) = {2} /\ Bits(5) = {0, 2} /\ Bits(6) = {1, 2} /\ Bits(7) = {0, 1, 2}
  /\ Bits(8) = {3} /\ Bits(9) = {0, 3} /\ Bits(10) = {1, 3} /\ Bits(11) = {0, 1, 3}
  /\ Bits(12) = {2, 3} /\ Bits(13) = {0, 2, 3} /\ Bits(14) = {1, 2, 3} /\ Bits(15) = {0, 1, 2, 3}
<1>1. \A n \in 0 .. 15 :
        /\ Bits(n) \subseteq Block
        /\ 0 \in Bits(n) <=> n % 2 = 1
        /\ 1 \in Bits(n) <=> (n \div 2) % 2 = 1
        /\ 2 \in Bits(n) <=> (n \div 4) % 2 = 1
        /\ 3 \in Bits(n) <=> (n \div 8) % 2 = 1
  BY DEF Bits, Block
<1>2. \A n \in 0 .. 15 : Bits(n) \in Element
  BY <1>1 DEF Element
<1>3. /\ {} \in Element
      /\ {0} \in Element /\ {1} \in Element /\ {0, 1} \in Element /\ {2} \in Element /\ {0, 2} \in Element
      /\ {1, 2} \in Element /\ {0, 1, 2} \in Element /\ {3} \in Element /\ {0, 3} \in Element /\ {1, 3} \in Element
      /\ {0, 1, 3} \in Element /\ {2, 3} \in Element /\ {0, 2, 3} \in Element /\ {1, 2, 3} \in Element /\ {0, 1, 2, 3} \in Element
  BY DEF Element, Block
<1>4. Bits(0) = {}
  BY <1>1, <1>2, <1>3, SameBits
<1>5. Bits(1) = {0}
  BY <1>1, <1>2, <1>3, SameBits
<1>6. Bits(2) = {1}
  BY <1>1, <1>2, <1>3, SameBits
<1>7. Bits(3) = {0, 1}
  BY <1>1, <1>2, <1>3, SameBits
<1>8. Bits(4) = {2}
  BY <1>1, <1>2, <1>3, SameBits
<1>9. Bits(5) = {0, 2}
  BY <1>1, <1>2, <1>3, SameBits
<1>10. Bits(6) = {1, 2}
  BY <1>1, <1>2, <1>3, SameBits
<1>11. Bits(7) = {0, 1, 2}
  BY <1>1, <1>2, <1>3, SameBits
<1>12. Bits(8) = {3}
  BY <1>1, <1>2, <1>3, SameBits
<1>13. Bits(9) = {0, 3}
  BY <1>1, <1>2, <1>3, SameBits
<1>14. Bits(10) = {1, 3}
  BY <1>1, <1>2, <1>3, SameBits
<1>15. Bits(11) = {0, 1, 3}
  BY <1>1, <1>2, <1>3, SameBits
<1>16. Bits(12) = {2, 3}
  BY <1>1, <1>2, <1>3, SameBits
<1>17. Bits(13) = {0, 2, 3}
  BY <1>1, <1>2, <1>3, SameBits
<1>18. Bits(14) = {1, 2, 3}
  BY <1>1, <1>2, <1>3, SameBits
<1>19. Bits(15) = {0, 1, 2, 3}
  BY <1>1, <1>2, <1>3, SameBits
<1> QED
  BY <1>4, <1>5, <1>6, <1>7, <1>8, <1>9, <1>10, <1>11, <1>12, <1>13, <1>14, <1>15, <1>16, <1>17, <1>18, <1>19

HasBits(m, p, q, r, s) == (0 \in m <=> p) /\ (1 \in m <=> q) /\ (2 \in m <=> r) /\ (3 \in m <=> s)

(* The exclusive or of some blocks of a packet.                            *)
In(S, p) == OddOf(0 \in S /\ 0 \in p, 1 \in S /\ 1 \in p, 2 \in S /\ 2 \in p, 3 \in S /\ 3 \in p)

LEMMA OddCap ==
  ASSUME NEW S \in Element, NEW p \in Element
  PROVE  Odd(S \cap p) <=> In(S, p)
<1> DEFINE T == S \cap p
<1>1. T \subseteq {0, 1, 2, 3}
  <2>1. T \subseteq 0 .. 3
    BY DEF Element, Block
  <2>2. 0 .. 3 = {0, 1, 2, 3}
    OBVIOUS
  <2> QED
    BY <2>1, <2>2
<1>2. /\ 0 \in T <=> 0 \in S /\ 0 \in p
      /\ 1 \in T <=> 1 \in S /\ 1 \in p
      /\ 2 \in T <=> 2 \in S /\ 2 \in p
      /\ 3 \in T <=> 3 \in S /\ 3 \in p
  OBVIOUS
<1> HIDE DEF T
<1>3. Odd(T) <=> OddOf(0 \in T, 1 \in T, 2 \in T, 3 \in T)
  <2>1. 0 # 1 /\ 0 # 2 /\ 0 # 3 /\ 1 # 2 /\ 1 # 3 /\ 2 # 3
    OBVIOUS
  <2> QED
    BY ONLY <1>1, <2>1, OddFour, Zenon
<1> QED
  BY <1>2, <1>3 DEF T, OddOf, In

(* The four blocks that a row of a table makes of a packet.                *)
LEMMA BlocksBits ==
  ASSUME NEW t, \A b \in 1 .. 4 : t[b] \in Element, NEW p \in Element
  PROVE  /\ Blocks(t, p) \in Element
         /\ HasBits(Blocks(t, p), In(t[1], p), In(t[2], p), In(t[3], p), In(t[4], p))
<1>1. 0 \in Block /\ 1 \in Block /\ 2 \in Block /\ 3 \in Block
  BY DEF Block
<1>2. Blocks(t, p) \in Element
  BY DEF Blocks, Element
<1>3. HasBits(Blocks(t, p), Odd(t[1] \cap p), Odd(t[2] \cap p), Odd(t[3] \cap p), Odd(t[4] \cap p))
  <2>1. 0 + 1 = 1 /\ 1 + 1 = 2 /\ 2 + 1 = 3 /\ 3 + 1 = 4
    OBVIOUS
  <2> QED
    BY <1>1, <2>1 DEF Blocks, HasBits
<1>4. \A b \in 1 .. 4 : Odd(t[b] \cap p) <=> In(t[b], p)
  BY OddCap
<1> QED
  BY <1>2, <1>3, <1>4 DEF HasBits, In, OddOf, Odd

(* The tables of recover_packet multiply.                                  *)
LEMMA TimesBits ==
  ASSUME NEW n \in 1 .. 15, NEW z \in Element
  PROVE  /\ Mul(Bits(n), z) \in Element
         /\ HasBits(Mul(Bits(n), z), In(recover_table(n)[1], z), In(recover_table(n)[2], z),
                                     In(recover_table(n)[3], z), In(recover_table(n)[4], z))
<1> DEFINE a == Bits(n)
           m == Mul(a, z)
<1>1. a \in Element
  BY DEF Bits, Element
<1>2. /\ m \in Element
      /\ 0 \in m <=> OddOf(0 \in a /\ 0 \in z, Term4(a, z), Term5(a, z), FALSE)
      /\ 1 \in m <=> OddOf(Term1(a, z), Term4(a, z), 3 \in a /\ 3 \in z, FALSE)
      /\ 2 \in m <=> ~(Term2(a, z) <=> Term4(a, z))
      /\ 3 \in m <=> ~(Term3(a, z) <=> Term4(a, z))
  BY <1>1, MulBits
<1> HIDE DEF a, m
<1> DEFINE t == recover_table(n)
           Goal == HasBits(m, In(t[1], z), In(t[2], z), In(t[3], z), In(t[4], z))
<1>3. ASSUME n = 1 PROVE Goal
  <2>1. recover_table(n) = <<{0}, {1}, {2}, {3}>> /\ a = {0}
    BY <1>3, BitsOf DEF a, recover_table, recover_1_4
  <2> QED
    BY <1>2, <2>1 DEF HasBits, In, OddOf, Term1, Term2, Term3, Term4, Term5
<1>4. ASSUME n = 2 PROVE Goal
  <2>1. recover_table(n) = <<{3}, {0, 3}, {1, 3}, {2, 3}>> /\ a = {1}
    BY <1>4, BitsOf DEF a, recover_table, recover_1_4
  <2> QED
    BY <1>2, <2>1 DEF HasBits, In, OddOf, Term1, Term2, Term3, Term4, Term5
<1>5. ASSUME n = 3 PROVE Goal
  <2>1. recover_table(n) = <<{0, 3}, {0, 1, 3}, {1, 2, 3}, {2}>> /\ a = {0, 1}
    BY <1>5, BitsOf DEF a, recover_table, recover_1_4
  <2> QED
    BY <1>2, <2>1 DEF HasBits, In, OddOf, Term1, Term2, Term3, Term4, Term5
<1>6. ASSUME n = 4 PROVE Goal
  <2>1. recover_table(n) = <<{2, 3}, {2}, {0, 2}, {1, 2}>> /\ a = {2}
    BY <1>6, BitsOf DEF a, recover_table, recover_1_4
  <2> QED
    BY <1>2, <2>1 DEF HasBits, In, OddOf, Term1, Term2, Term3, Term4, Term5
<1>7. ASSUME n = 5 PROVE Goal
  <2>1. recover_table(n) = <<{0, 2, 3}, {1, 2}, {0}, {1, 2, 3}>> /\ a = {0, 2}
    BY <1>7, BitsOf DEF a, recover_table, recover_5_8
  <2> QED
    BY <1>2, <2>1 DEF HasBits, In, OddOf, Term1, Term2, Term3, Term4, Term5
<1>8. ASSUME n = 6 PROVE Goal
  <2>1. recover_table(n) = <<{2}, {0, 2, 3}, {0, 1, 2, 3}, {1, 3}>> /\ a = {1, 2}
    BY <1>8, BitsOf DEF a, recover_table, recover_5_8
  <2> QED
    BY <1>2, <2>1 DEF HasBits, In, OddOf, Term1, Term2, Term3, Term4, Term5
<1>9. ASSUME n = 7 PROVE Goal
  <2>1. recover_table(n) = <<{0, 2}, {0, 1, 2, 3}, {0, 1, 3}, {1}>> /\ a = {0, 1, 2}
    BY <1>9, BitsOf DEF a, recover_table, recover_5_8
  <2> QED
    BY <1>2, <2>1 DEF HasBits, In, OddOf, Term1, Term2, Term3, Term4, Term5
<1>10. ASSUME n = 8 PROVE Goal
  <2>1. recover_table(n) = <<{1, 2}, {1, 3}, {1}, {0, 1}>> /\ a = {3}
    BY <1>10, BitsOf DEF a, recover_table, recover_5_8
  <2> QED
    BY <1>2, <2>1 DEF HasBits, In, OddOf, Term1, Term2, Term3, Term4, Term5
<1>11. ASSUME n = 9 PROVE Goal
  <2>1. recover_table(n) = <<{0, 1, 2}, {3}, {1, 2}, {0, 1, 3}>> /\ a = {0, 3}
    BY <1>11, BitsOf DEF a, recover_table, recover_9_12
  <2> QED
    BY <1>2, <2>1 DEF HasBits, In, OddOf, Term1, Term2, Term3, Term4, Term5
<1>12. ASSUME n = 10 PROVE Goal
  <2>1. recover_table(n) = <<{1, 2, 3}, {0, 1}, {3}, {0, 1, 2, 3}>> /\ a = {1, 3}
    BY <1>12, BitsOf DEF a, recover_table, recover_9_12
  <2> QED
    BY <1>2, <2>1 DEF HasBits, In, OddOf, Term1, Term2, Term3, Term4, Term5
<1>13. ASSUME n = 11 PROVE Goal
  <2>1. recover_table(n) = <<{0, 1, 2, 3}, {0}, {2, 3}, {0, 1, 2}>> /\ a = {0, 1, 3}
    BY <1>13, BitsOf DEF a, recover_table, recover_9_12
  <2> QED
    BY <1>2, <2>1 DEF HasBits, In, OddOf, Term1, Term2, Term3, Term4, Term5
<1>14. ASSUME n = 12 PROVE Goal
  <2>1. recover_table(n) = <<{1, 3}, {1, 2, 3}, {0, 1, 2}, {0, 2}>> /\ a = {2, 3}
    BY <1>14, BitsOf DEF a, recover_table, recover_9_12
  <2> QED
    BY <1>2, <2>1 DEF HasBits, In, OddOf, Term1, Term2, Term3, Term4, Term5
<1>15. ASSUME n = 13 PROVE Goal
  <2>1. recover_table(n) = <<{0, 1, 3}, {2, 3}, {0, 1}, {0, 2, 3}>> /\ a = {0, 2, 3}
    BY <1>15, BitsOf DEF a, recover_table, recover_13_15
  <2> QED
    BY <1>2, <2>1 DEF HasBits, In, OddOf, Term1, Term2, Term3, Term4, Term5
<1>16. ASSUME n = 14 PROVE Goal
  <2>1. recover_table(n) = <<{1}, {0, 1, 2}, {0, 2, 3}, {0, 3}>> /\ a = {1, 2, 3}
    BY <1>16, BitsOf DEF a, recover_table, recover_13_15
  <2> QED
    BY <1>2, <2>1 DEF HasBits, In, OddOf, Term1, Term2, Term3, Term4, Term5
<1>17. ASSUME n = 15 PROVE Goal
  <2>1. recover_table(n) = <<{0, 1}, {0, 2}, {0, 3}, {0}>> /\ a = {0, 1, 2, 3}
    BY <1>17, BitsOf DEF a, recover_table, recover_13_15
  <2> QED
    BY <1>2, <2>1 DEF HasBits, In, OddOf, Term1, Term2, Term3, Term4, Term5
<1> HIDE DEF Goal
<1>18. Goal
  <2>1. n = 1 \/ n = 2 \/ n = 3 \/ n = 4 \/ n = 5 \/ n = 6 \/ n = 7 \/ n = 8
        \/ n = 9 \/ n = 10 \/ n = 11 \/ n = 12 \/ n = 13 \/ n = 14 \/ n = 15
    OBVIOUS
  <2> QED
    BY <2>1, <1>3, <1>4, <1>5, <1>6, <1>7, <1>8, <1>9, <1>10, <1>11, <1>12, <1>13, <1>14, <1>15, <1>16, <1>17
<1> QED
  BY <1>2, <1>18 DEF a, m, t, Goal

(* The two forms in which the code multiplies by a coefficient agree: what *)
(* goes into a block and what goes into all blocks in gf_fun are together  *)
(* the row of the table of recover_packet.                                 *)
Agree(i, j) ==
  /\ C(i, j) \in Element
  /\ \A b \in 1 .. 4 :
       /\ R(i, j)[b] \in Element
       /\ recover_table(gf_matrix[i + 1][j + 1])[b] = Xor(R(i, j)[b], C(i, j))

LEMMA TablesAgree ==
  ASSUME NEW i \in Row, NEW j \in 0 .. 7
  PROVE  Agree(i, j)
<1>1. Agree(0, 0)
  BY DEF Agree, R, R_01, C, Xor, recover_table, recover_1_4,
         gf_matrix, Element, Block
<1>2. Agree(0, 1)
  BY DEF Agree, R, R_01, C, Xor, recover_table, recover_1_4,
         gf_matrix, Element, Block
<1>3. Agree(0, 2)
  BY DEF Agree, R, R_23, C, Xor, recover_table, recover_1_4,
         gf_matrix, Element, Block
<1>4. Agree(0, 3)
  BY DEF Agree, R, R_23, C, Xor, recover_table, recover_1_4,
         gf_matrix, Element, Block
<1>5. Agree(0, 4)
  BY DEF Agree, R, R_45, C, Xor, recover_table, recover_1_4,
         gf_matrix, Element, Block
<1>6. Agree(0, 5)
  BY DEF Agree, R, R_45, C, Xor, recover_table, recover_1_4,
         gf_matrix, Element, Block
<1>7. Agree(0, 6)
  BY DEF Agree, R, R_67, C, Xor, recover_table, recover_1_4,
         gf_matrix, Element, Block
<1>8. Agree(0, 7)
  BY DEF Agree, R, R_67, C, Xor, recover_table, recover_1_4,
         gf_matrix, Element, Block
<1>9. Agree(1, 0)
  BY DEF Agree, R, R_01, C, C_0123, C_1, Xor, recover_table, recover_1_4,
         gf_matrix, Element, Block
<1>10. Agree(1, 1)
  BY DEF Agree, R, R_01, C, C_0123, C_1, Xor, recover_table, recover_1_4,
         gf_matrix, Element, Block
<1>11. Agree(1, 2)
  BY DEF Agree, R, R_23, C, C_0123, C_1, Xor, recover_table, recover_1_4,
         gf_matrix, Element, Block
<1>12. Agree(1, 3)
  BY DEF Agree, R, R_23, C, C_0123, C_1, Xor, recover_table, recover_5_8,
         gf_matrix, Element, Block
<1>13. Agree(1, 4)
  BY DEF Agree, R, R_45, C, C_0123, C_1, Xor, recover_table, recover_5_8,
         gf_matrix, Element, Block
<1>14. Agree(1, 5)
  BY DEF Agree, R, R_45, C, C_0123, C_1, Xor, recover_table, recover_9_12,
         gf_matrix, Element, Block
<1>15. Agree(1, 6)
  BY DEF Agree, R, R_67, C, C_0123, C_1, Xor, recover_table, recover_13_15,
         gf_matrix, Element, Block
<1>16. Agree(1, 7)
  BY DEF Agree, R, R_67, C, C_0123, C_1, Xor, recover_table, recover_13_15,
         gf_matrix, Element, Block
<1>17. Agree(2, 0)
  BY DEF Agree, R, R_01, C, C_2, Xor, recover_table, recover_13_15,
         gf_matrix, Element, Block
<1>18. Agree(2, 1)
  BY DEF Agree, R, R_01, C, C_2, Xor, recover_table, recover_1_4,
         gf_matrix, Element, Block
<1>19. Agree(2, 2)
  BY DEF Agree, R, R_23, C, C_2, Xor, recover_table, recover_13_15,
         gf_matrix, Element, Block
<1>20. Agree(2, 3)
  BY DEF Agree, R, R_23, C, C_2, Xor, recover_table, recover_1_4,
         gf_matrix, Element, Block
<1>21. Agree(2, 4)
  BY DEF Agree, R, R_45, C, C_2, Xor, recover_table, recover_13_15,
         gf_matrix, Element, Block
<1>22. Agree(2, 5)
  BY DEF Agree, R, R_45, C, C_2, Xor, recover_table, recover_5_8,
         gf_matrix, Element, Block
<1>23. Agree(2, 6)
  BY DEF Agree, R, R_67, C, C_2, Xor, recover_table, recover_5_8,
         gf_matrix, Element, Block
<1>24. Agree(2, 7)
  BY DEF Agree, R, R_67, C, C_2, Xor, recover_table, recover_9_12,
         gf_matrix, Element, Block
<1>25. Agree(3, 0)
  BY DEF Agree, R, R_01, C, C_0123, C_3, Xor, recover_table, recover_13_15,
         gf_matrix, Element, Block
<1>26. Agree(3, 1)
  BY DEF Agree, R, R_01, C, C_0123, C_3, Xor, recover_table, recover_9_12,
         gf_matrix, Element, Block
<1>27. Agree(3, 2)
  BY DEF Agree, R, R_23, C, C_0123, C_3, Xor, recover_table, recover_5_8,
         gf_matrix, Element, Block
<1>28. Agree(3, 3)
  BY DEF Agree, R, R_23, C, C_0123, C_3, Xor, recover_table, recover_1_4,
         gf_matrix, Element, Block
<1>29. Agree(3, 4)
  BY DEF Agree, R, R_45, C, C_0123, C_3, Xor, recover_table, recover_9_12,
         gf_matrix, Element, Block
<1>30. Agree(3, 5)
  BY DEF Agree, R, R_45, C, C_0123, C_3, Xor, recover_table, recover_1_4,
         gf_matrix, Element, Block
<1>31. Agree(3, 6)
  BY DEF Agree, R, R_67, C, C_0123, C_3, Xor, recover_table, recover_5_8,
         gf_matrix, Element, Block
<1>32. Agree(3, 7)
  BY DEF Agree, R, R_67, C, C_0123, C_3, Xor, recover_table, recover_5_8,
         gf_matrix, Element, Block
<1> QED
  BY <1>1, <1>2, <1>3, <1>4, <1>5, <1>6, <1>7, <1>8, <1>9, <1>10, <1>11, <1>12, <1>13, <1>14, <1>15, <1>16, <1>17, <1>18, <1>19, <1>20, <1>21, <1>22, <1>23, <1>24, <1>25, <1>26, <1>27, <1>28, <1>29, <1>30, <1>31, <1>32 DEF Row

(* What gf_fun adds to parity packet i for data packet j: the exclusive    *)
(* ors written down for the two are those of their coefficient.            *)
FunOf(i, j, p) == Xor(Blocks(R(i, j), p), IF Odd(C(i, j) \cap p) THEN Block ELSE {})

(* The coefficients of the data packets are not zero.                      *)
LEMMA CoefficientIs ==
  ASSUME NEW i \in Row, NEW j \in 0 .. 7
  PROVE  /\ gf_matrix[i + 1][j + 1] \in 1 .. 15
         /\ Coefficient[i][j] = Bits(gf_matrix[i + 1][j + 1])
  BY DEF gf_matrix, Coefficient, Row

(* The blocks of a sum of two sets of blocks.                              *)
LEMMA InXor ==
  ASSUME NEW S \in Element, NEW T \in Element, NEW p
  PROVE  In(Xor(S, T), p) <=> ~(In(S, p) <=> In(T, p))
<1>1. \A x : x \in Xor(S, T) <=> ~(x \in S <=> x \in T)
  BY XorLaws
<1> QED
  BY <1>1 DEF In, OddOf

(* gf_fun (fec84.c:285) multiplies by the coefficients of the generator    *)
(* matrix: the exclusive ors written down for parity packet i and data     *)
(* packet j are a product in the field.                                    *)
THEOREM FunTimes ==
  ASSUME NEW i \in Row, NEW j \in 0 .. 7, NEW p \in Element
  PROVE  FunOf(i, j, p) \in Element /\ FunOf(i, j, p) = Mul(Coefficient[i][j], p)
<1> DEFINE n == gf_matrix[i + 1][j + 1]
           m == Mul(Bits(n), p)
           r == R(i, j)
           c == C(i, j)
           t == recover_table(n)
           f == Blocks(r, p)
           g == IF Odd(c \cap p) THEN Block ELSE {}
<1>1. n \in 1 .. 15 /\ Coefficient[i][j] = Bits(n)
  BY CoefficientIs
<1>2. c \in Element /\ \A b \in 1 .. 4 : r[b] \in Element /\ t[b] = Xor(r[b], c)
  BY TablesAgree DEF Agree
<1>3. FunOf(i, j, p) = Xor(f, g) /\ Mul(Coefficient[i][j], p) = m
  BY <1>1 DEF FunOf
<1> HIDE DEF n, r, c, t
<1>4. m \in Element /\ HasBits(m, In(t[1], p), In(t[2], p), In(t[3], p), In(t[4], p))
  BY <1>1, TimesBits DEF t
<1>5. f \in Element /\ HasBits(f, In(r[1], p), In(r[2], p), In(r[3], p), In(r[4], p))
  BY <1>2, BlocksBits
<1>6. g \in Element /\ HasBits(g, In(c, p), In(c, p), In(c, p), In(c, p))
  <2>1. Odd(c \cap p) <=> In(c, p)
    BY <1>2, OddCap
  <2>2. 0 \in Block /\ 1 \in Block /\ 2 \in Block /\ 3 \in Block /\ Block \in Element /\ {} \in Element
    BY DEF Block, Element
  <2>3. CASE Odd(c \cap p)
    BY <2>1, <2>2, <2>3 DEF HasBits
  <2>4. CASE ~Odd(c \cap p)
    BY <2>1, <2>2, <2>4 DEF HasBits
  <2> QED
    BY <2>3, <2>4
<1> HIDE DEF f, g, m
<1>7. Xor(f, g) \in Element /\ \A x : x \in Xor(f, g) <=> ~(x \in f <=> x \in g)
  BY <1>5, <1>6, XorLaws
<1>8. \A b \in 1 .. 4 : In(t[b], p) <=> ~(In(r[b], p) <=> In(c, p))
  BY <1>2, InXor
<1>9. Xor(f, g) = m
  <2>1. /\ 0 \in Xor(f, g) <=> 0 \in m
        /\ 1 \in Xor(f, g) <=> 1 \in m
        /\ 2 \in Xor(f, g) <=> 2 \in m
        /\ 3 \in Xor(f, g) <=> 3 \in m
    BY <1>4, <1>5, <1>6, <1>7, <1>8 DEF HasBits, In, OddOf
  <2> QED
    BY <1>4, <1>7, <2>1, SameBits
<1> QED
  BY <1>3, <1>7, <1>9

(* recover_packet (fec84.c:1149) multiplies by the coefficient it looks up *)
(* in its own tables.                                                      *)
THEOREM RecoverTimes ==
  ASSUME NEW a \in Element, a # {}, NEW p \in Element
  PROVE  Blocks(recover_table(Number[a]), p) = Mul(a, p)
<1> DEFINE n == Number[a]
           t == recover_table(n)
           f == Blocks(t, p)
           m == Mul(Bits(n), p)
<1>1. n \in 0 .. 15 /\ Bits(n) = a
  <2>1. \E k \in 0 .. 15 : Bits(k) = a
    <3> DEFINE b(x, v) == IF x \in a THEN v ELSE 0
               k == b(0, 1) + b(1, 2) + b(2, 4) + b(3, 8)
    <3>1. k \in 0 .. 15
      OBVIOUS
    <3>2. Bits(k) \in Element
      BY DEF Bits, Element
    <3>3. /\ 0 \in Bits(k) <=> k % 2 = 1
          /\ 1 \in Bits(k) <=> (k \div 2) % 2 = 1
          /\ 2 \in Bits(k) <=> (k \div 4) % 2 = 1
          /\ 3 \in Bits(k) <=> (k \div 8) % 2 = 1
      BY <3>1 DEF Bits, Block
    <3>4. /\ 0 \in Bits(k) <=> 0 \in a
          /\ 1 \in Bits(k) <=> 1 \in a
          /\ 2 \in Bits(k) <=> 2 \in a
          /\ 3 \in Bits(k) <=> 3 \in a
      BY <3>3
    <3> QED
      BY <3>1, <3>2, <3>4, SameBits
  <2> QED
    BY <2>1 DEF Number
<1>2. n # 0
  BY <1>1, BitsOf
<1>3. n \in 1 .. 15
  BY <1>1, <1>2
<1> HIDE DEF n
<1>4. \A b \in 1 .. 4 : t[b] \in Element
  <2>1. ASSUME NEW k \in 1 .. 4 PROVE \A b \in 1 .. 4 : recover_1_4[k][b] \in Element
    BY DEF recover_1_4, Element, Block
  <2>2. ASSUME NEW k \in 1 .. 4 PROVE \A b \in 1 .. 4 : recover_5_8[k][b] \in Element
    BY DEF recover_5_8, Element, Block
  <2>3. ASSUME NEW k \in 1 .. 4 PROVE \A b \in 1 .. 4 : recover_9_12[k][b] \in Element
    BY DEF recover_9_12, Element, Block
  <2>4. ASSUME NEW k \in 1 .. 3 PROVE \A b \in 1 .. 4 : recover_13_15[k][b] \in Element
    BY DEF recover_13_15, Element, Block
  <2>5. CASE n < 5
    BY <1>3, <2>1, <2>5 DEF recover_table
  <2>6. CASE n \in 5 .. 8
    BY <2>2, <2>6 DEF recover_table
  <2>7. CASE n \in 9 .. 12
    BY <2>3, <2>7 DEF recover_table
  <2>8. CASE n > 12
    BY <1>3, <2>4, <2>8 DEF recover_table
  <2> QED
    BY <1>3, <2>5, <2>6, <2>7, <2>8
<1>5. f \in Element /\ HasBits(f, In(t[1], p), In(t[2], p), In(t[3], p), In(t[4], p))
  BY <1>4, BlocksBits
<1>6. m \in Element /\ HasBits(m, In(t[1], p), In(t[2], p), In(t[3], p), In(t[4], p))
  BY <1>3, TimesBits
<1> HIDE DEF f, m, t
<1>7. f = m
  BY <1>5, <1>6, SameBits DEF HasBits
<1> QED
  BY <1>1, <1>7 DEF f, m, t, n

-----------------------------------------------------------------------------
(* What the code is chosen for: packets of which all but four are zero are *)
(* no code word unless those four are zero, too.                           *)
Parity(i, k, z) ==
  ~(OddOf(k \in Mul(Coefficient[i][0], z[0]), k \in Mul(Coefficient[i][1], z[1]),
          k \in Mul(Coefficient[i][2], z[2]), k \in Mul(Coefficient[i][3], z[3])) <=>
    OddOf(k \in Mul(Coefficient[i][4], z[4]), k \in Mul(Coefficient[i][5], z[5]),
          k \in Mul(Coefficient[i][6], z[6]), k \in Mul(Coefficient[i][7], z[7])))

Table(i, j) == recover_table(gf_matrix[i + 1][j + 1])

(* The code has distance 5: a word that is zero in all but four places is  *)
(* zero.  The code relies on it when it inverts the matrix of any four     *)
(* lost packets (fec84.c:105).                                             *)
THEOREM Distance ==
  ASSUME NEW z \in [0 .. 11 -> Element],
         \A i \in Row, k \in Block : k \in z[8 + i] <=> Parity(i, k, z),
         NEW a \in Int, NEW b \in Int, NEW c \in Int, NEW d \in Int,
         \A j \in 0 .. 11 : z[j] # {} => j \in {a, b, c, d}
  PROVE  \A j \in 0 .. 11 : z[j] = {}
<1>1. ASSUME NEW i \in Row, NEW j \in 0 .. 7, NEW k \in Block
      PROVE  k \in Mul(Coefficient[i][j], z[j])
               <=> In(recover_table(gf_matrix[i + 1][j + 1])[k + 1], z[j])
  <2> DEFINE n == gf_matrix[i + 1][j + 1]
  <2>1. n \in 1 .. 15 /\ Coefficient[i][j] = Bits(n)
    BY CoefficientIs
  <2>2. z[j] \in Element
    OBVIOUS
  <2> HIDE DEF n
  <2>3. LET t == recover_table(n)
        IN  HasBits(Mul(Bits(n), z[j]), In(t[1], z[j]), In(t[2], z[j]),
                                        In(t[3], z[j]), In(t[4], z[j]))
    BY <2>1, <2>2, TimesBits
  <2>4. k = 0 \/ k = 1 \/ k = 2 \/ k = 3
    BY DEF Block
  <2> QED
    BY <2>1, <2>3, <2>4 DEF n, HasBits
<1>2. ASSUME NEW i \in Row, NEW k \in Block
      PROVE  k \in z[8 + i] <=>
               ~(OddOf(In(Table(i, 0)[k + 1], z[0]), In(Table(i, 1)[k + 1], z[1]),
                       In(Table(i, 2)[k + 1], z[2]), In(Table(i, 3)[k + 1], z[3])) <=>
                 OddOf(In(Table(i, 4)[k + 1], z[4]), In(Table(i, 5)[k + 1], z[5]),
                       In(Table(i, 6)[k + 1], z[6]), In(Table(i, 7)[k + 1], z[7])))
  <2>1. \A j \in 0 .. 7 : k \in Mul(Coefficient[i][j], z[j]) <=> In(Table(i, j)[k + 1], z[j])
    BY <1>1 DEF Table
  <2> QED
    BY <2>1 DEF Parity, OddOf, In
<1>3. /\ 0 \in Block /\ 1 \in Block /\ 2 \in Block /\ 3 \in Block
      /\ 0 \in Row /\ 1 \in Row /\ 2 \in Row /\ 3 \in Row
      /\ 0 + 1 = 1 /\ 1 + 1 = 2 /\ 2 + 1 = 3 /\ 3 + 1 = 4
      /\ 8 + 0 = 8 /\ 8 + 1 = 9 /\ 8 + 2 = 10 /\ 8 + 3 = 11
  BY DEF Block, Row
<1> DEFINE z0 == z[0]   z1 == z[1]   z2 == z[2]   z3 == z[3]
           z4 == z[4]   z5 == z[5]   z6 == z[6]   z7 == z[7]
           z8 == z[8]   z9 == z[9]   z10 == z[10]   z11 == z[11]
<1>4. ASSUME NEW k \in Block
      PROVE  k \in z8 <=>
               ~(OddOf(In(Table(0, 0)[k + 1], z0), In(Table(0, 1)[k + 1], z1),
                       In(Table(0, 2)[k + 1], z2), In(Table(0, 3)[k + 1], z3)) <=>
                 OddOf(In(Table(0, 4)[k + 1], z4), In(Table(0, 5)[k + 1], z5),
                       In(Table(0, 6)[k + 1], z6), In(Table(0, 7)[k + 1], z7)))
  BY ONLY <1>2, <1>3, k \in Block
<1>5. ASSUME NEW k \in Block
      PROVE  k \in z9 <=>
               ~(OddOf(In(Table(1, 0)[k + 1], z0), In(Table(1, 1)[k + 1], z1),
                       In(Table(1, 2)[k + 1], z2), In(Table(1, 3)[k + 1], z3)) <=>
                 OddOf(In(Table(1, 4)[k + 1], z4), In(Table(1, 5)[k + 1], z5),
                       In(Table(1, 6)[k + 1], z6), In(Table(1, 7)[k + 1], z7)))
  BY ONLY <1>2, <1>3, k \in Block
<1>6. ASSUME NEW k \in Block
      PROVE  k \in z10 <=>
               ~(OddOf(In(Table(2, 0)[k + 1], z0), In(Table(2, 1)[k + 1], z1),
                       In(Table(2, 2)[k + 1], z2), In(Table(2, 3)[k + 1], z3)) <=>
                 OddOf(In(Table(2, 4)[k + 1], z4), In(Table(2, 5)[k + 1], z5),
                       In(Table(2, 6)[k + 1], z6), In(Table(2, 7)[k + 1], z7)))
  BY ONLY <1>2, <1>3, k \in Block
<1>7. ASSUME NEW k \in Block
      PROVE  k \in z11 <=>
               ~(OddOf(In(Table(3, 0)[k + 1], z0), In(Table(3, 1)[k + 1], z1),
                       In(Table(3, 2)[k + 1], z2), In(Table(3, 3)[k + 1], z3)) <=>
                 OddOf(In(Table(3, 4)[k + 1], z4), In(Table(3, 5)[k + 1], z5),
                       In(Table(3, 6)[k + 1], z6), In(Table(3, 7)[k + 1], z7)))
  BY ONLY <1>2, <1>3, k \in Block
<1> HIDE DEF z0, z1, z2, z3, z4, z5, z6, z7, z8, z9, z10, z11
<1>8. 0 \in z8 <=>
        ~(OddOf(In({0}, z0), In({0}, z1), In({0}, z2), In({0}, z3)) <=>
          OddOf(In({0}, z4), In({0}, z5), In({0}, z6), In({0}, z7)))
  <2>1. /\ Table(0, 0)[0 + 1] = {0} /\ Table(0, 1)[0 + 1] = {0} /\ Table(0, 2)[0 + 1] = {0}
        /\ Table(0, 3)[0 + 1] = {0} /\ Table(0, 4)[0 + 1] = {0} /\ Table(0, 5)[0 + 1] = {0}
        /\ Table(0, 6)[0 + 1] = {0} /\ Table(0, 7)[0 + 1] = {0}
    BY DEF Table, gf_matrix, recover_table, recover_1_4, recover_5_8, recover_9_12, recover_13_15
  <2>2. 0 \in z8 <=>
          ~(OddOf(In(Table(0, 0)[0 + 1], z0), In(Table(0, 1)[0 + 1], z1),
                  In(Table(0, 2)[0 + 1], z2), In(Table(0, 3)[0 + 1], z3)) <=>
            OddOf(In(Table(0, 4)[0 + 1], z4), In(Table(0, 5)[0 + 1], z5),
                  In(Table(0, 6)[0 + 1], z6), In(Table(0, 7)[0 + 1], z7)))
    BY ONLY <1>4, <1>3, Zenon
  <2> QED
    BY ONLY <2>1, <2>2
<1>9. 1 \in z8 <=>
        ~(OddOf(In({1}, z0), In({1}, z1), In({1}, z2), In({1}, z3)) <=>
          OddOf(In({1}, z4), In({1}, z5), In({1}, z6), In({1}, z7)))
  <2>1. /\ Table(0, 0)[1 + 1] = {1} /\ Table(0, 1)[1 + 1] = {1} /\ Table(0, 2)[1 + 1] = {1}
        /\ Table(0, 3)[1 + 1] = {1} /\ Table(0, 4)[1 + 1] = {1} /\ Table(0, 5)[1 + 1] = {1}
        /\ Table(0, 6)[1 + 1] = {1} /\ Table(0, 7)[1 + 1] = {1}
    BY DEF Table, gf_matrix, recover_table, recover_1_4, recover_5_8, recover_9_12, recover_13_15
  <2>2. 1 \in z8 <=>
          ~(OddOf(In(Table(0, 0)[1 + 1], z0), In(Table(0, 1)[1 + 1], z1),
                  In(Table(0, 2)[1 + 1], z2), In(Table(0, 3)[1 + 1], z3)) <=>
            OddOf(In(Table(0, 4)[1 + 1], z4), In(Table(0, 5)[1 + 1], z5),
                  In(Table(0, 6)[1 + 1], z6), In(Table(0, 7)[1 + 1], z7)))
    BY ONLY <1>4, <1>3, Zenon
  <2> QED
    BY ONLY <2>1, <2>2
<1>10. 2 \in z8 <=>
         ~(OddOf(In({2}, z0), In({2}, z1), In({2}, z2), In({2}, z3)) <=>
           OddOf(In({2}, z4), In({2}, z5), In({2}, z6), In({2}, z7)))
  <2>1. /\ Table(0, 0)[2 + 1] = {2} /\ Table(0, 1)[2 + 1] = {2} /\ Table(0, 2)[2 + 1] = {2}
        /\ Table(0, 3)[2 + 1] = {2} /\ Table(0, 4)[2 + 1] = {2} /\ Table(0, 5)[2 + 1] = {2}
        /\ Table(0, 6)[2 + 1] = {2} /\ Table(0, 7)[2 + 1] = {2}
    BY DEF Table, gf_matrix, recover_table, recover_1_4, recover_5_8, recover_9_12, recover_13_15
  <2>2. 2 \in z8 <=>
          ~(OddOf(In(Table(0, 0)[2 + 1], z0), In(Table(0, 1)[2 + 1], z1),
                  In(Table(0, 2)[2 + 1], z2), In(Table(0, 3)[2 + 1], z3)) <=>
            OddOf(In(Table(0, 4)[2 + 1], z4), In(Table(0, 5)[2 + 1], z5),
                  In(Table(0, 6)[2 + 1], z6), In(Table(0, 7)[2 + 1], z7)))
    BY ONLY <1>4, <1>3, Zenon
  <2> QED
    BY ONLY <2>1, <2>2
<1>11. 3 \in z8 <=>
         ~(OddOf(In({3}, z0), In({3}, z1), In({3}, z2), In({3}, z3)) <=>
           OddOf(In({3}, z4), In({3}, z5), In({3}, z6), In({3}, z7)))
  <2>1. /\ Table(0, 0)[3 + 1] = {3} /\ Table(0, 1)[3 + 1] = {3} /\ Table(0, 2)[3 + 1] = {3}
        /\ Table(0, 3)[3 + 1] = {3} /\ Table(0, 4)[3 + 1] = {3} /\ Table(0, 5)[3 + 1] = {3}
        /\ Table(0, 6)[3 + 1] = {3} /\ Table(0, 7)[3 + 1] = {3}
    BY DEF Table, gf_matrix, recover_table, recover_1_4, recover_5_8, recover_9_12, recover_13_15
  <2>2. 3 \in z8 <=>
          ~(OddOf(In(Table(0, 0)[3 + 1], z0), In(Table(0, 1)[3 + 1], z1),
                  In(Table(0, 2)[3 + 1], z2), In(Table(0, 3)[3 + 1], z3)) <=>
            OddOf(In(Table(0, 4)[3 + 1], z4), In(Table(0, 5)[3 + 1], z5),
                  In(Table(0, 6)[3 + 1], z6), In(Table(0, 7)[3 + 1], z7)))
    BY ONLY <1>4, <1>3, Zenon
  <2> QED
    BY ONLY <2>1, <2>2
<1>12. 0 \in z9 <=>
         ~(OddOf(In({3}, z0), In({0, 3}, z1), In({2, 3}, z2), In({0, 2, 3}, z3)) <=>
           OddOf(In({1, 2}, z4), In({1, 3}, z5), In({0, 1, 3}, z6), In({0, 1}, z7)))
  <2>1. /\ Table(1, 0)[0 + 1] = {3} /\ Table(1, 1)[0 + 1] = {0, 3} /\ Table(1, 2)[0 + 1] = {2, 3}
        /\ Table(1, 3)[0 + 1] = {0, 2, 3} /\ Table(1, 4)[0 + 1] = {1, 2} /\ Table(1, 5)[0 + 1] = {1, 3}
        /\ Table(1, 6)[0 + 1] = {0, 1, 3} /\ Table(1, 7)[0 + 1] = {0, 1}
    BY DEF Table, gf_matrix, recover_table, recover_1_4, recover_5_8, recover_9_12, recover_13_15
  <2>2. 0 \in z9 <=>
          ~(OddOf(In(Table(1, 0)[0 + 1], z0), In(Table(1, 1)[0 + 1], z1),
                  In(Table(1, 2)[0 + 1], z2), In(Table(1, 3)[0 + 1], z3)) <=>
            OddOf(In(Table(1, 4)[0 + 1], z4), In(Table(1, 5)[0 + 1], z5),
                  In(Table(1, 6)[0 + 1], z6), In(Table(1, 7)[0 + 1], z7)))
    BY ONLY <1>5, <1>3, Zenon
  <2> QED
    BY ONLY <2>1, <2>2
<1>13. 1 \in z9 <=>
         ~(OddOf(In({0, 3}, z0), In({0, 1, 3}, z1), In({2}, z2), In({1, 2}, z3)) <=>
           OddOf(In({1, 3}, z4), In({1, 2, 3}, z5), In({2, 3}, z6), In({0, 2}, z7)))
  <2>1. /\ Table(1, 0)[1 + 1] = {0, 3} /\ Table(1, 1)[1 + 1] = {0, 1, 3} /\ Table(1, 2)[1 + 1] = {2}
        /\ Table(1, 3)[1 + 1] = {1, 2} /\ Table(1, 4)[1 + 1] = {1, 3} /\ Table(1, 5)[1 + 1] = {1, 2, 3}
        /\ Table(1, 6)[1 + 1] = {2, 3} /\ Table(1, 7)[1 + 1] = {0, 2}
    BY DEF Table, gf_matrix, recover_table, recover_1_4, recover_5_8, recover_9_12, recover_13_15
  <2>2. 1 \in z9 <=>
          ~(OddOf(In(Table(1, 0)[1 + 1], z0), In(Table(1, 1)[1 + 1], z1),
                  In(Table(1, 2)[1 + 1], z2), In(Table(1, 3)[1 + 1], z3)) <=>
            OddOf(In(Table(1, 4)[1 + 1], z4), In(Table(1, 5)[1 + 1], z5),
                  In(Table(1, 6)[1 + 1], z6), In(Table(1, 7)[1 + 1], z7)))
    BY ONLY <1>5, <1>3, Zenon
  <2> QED
    BY ONLY <2>1, <2>2
<1>14. 2 \in z9 <=>
         ~(OddOf(In({1, 3}, z0), In({1, 2, 3}, z1), In({0, 2}, z2), In({0}, z3)) <=>
           OddOf(In({1}, z4), In({0, 1, 2}, z5), In({0, 1}, z6), In({0, 3}, z7)))
  <2>1. /\ Table(1, 0)[2 + 1] = {1, 3} /\ Table(1, 1)[2 + 1] = {1, 2, 3} /\ Table(1, 2)[2 + 1] = {0, 2}
        /\ Table(1, 3)[2 + 1] = {0} /\ Table(1, 4)[2 + 1] = {1} /\ Table(1, 5)[2 + 1] = {0, 1, 2}
        /\ Table(1, 6)[2 + 1] = {0, 1} /\ Table(1, 7)[2 + 1] = {0, 3}
    BY DEF Table, gf_matrix, recover_table, recover_1_4, recover_5_8, recover_9_12, recover_13_15
  <2>2. 2 \in z9 <=>
          ~(OddOf(In(Table(1, 0)[2 + 1], z0), In(Table(1, 1)[2 + 1], z1),
                  In(Table(1, 2)[2 + 1], z2), In(Table(1, 3)[2 + 1], z3)) <=>
            OddOf(In(Table(1, 4)[2 + 1], z4), In(Table(1, 5)[2 + 1], z5),
                  In(Table(1, 6)[2 + 1], z6), In(Table(1, 7)[2 + 1], z7)))
    BY ONLY <1>5, <1>3, Zenon
  <2> QED
    BY ONLY <2>1, <2>2
<1>15. 3 \in z9 <=>
         ~(OddOf(In({2, 3}, z0), In({2}, z1), In({1, 2}, z2), In({1, 2, 3}, z3)) <=>
           OddOf(In({0, 1}, z4), In({0, 2}, z5), In({0, 2, 3}, z6), In({0}, z7)))
  <2>1. /\ Table(1, 0)[3 + 1] = {2, 3} /\ Table(1, 1)[3 + 1] = {2} /\ Table(1, 2)[3 + 1] = {1, 2}
        /\ Table(1, 3)[3 + 1] = {1, 2, 3} /\ Table(1, 4)[3 + 1] = {0, 1} /\ Table(1, 5)[3 + 1] = {0, 2}
        /\ Table(1, 6)[3 + 1] = {0, 2, 3} /\ Table(1, 7)[3 + 1] = {0}
    BY DEF Table, gf_matrix, recover_table, recover_1_4, recover_5_8, recover_9_12, recover_13_15
  <2>2. 3 \in z9 <=>
          ~(OddOf(In(Table(1, 0)[3 + 1], z0), In(Table(1, 1)[3 + 1], z1),
                  In(Table(1, 2)[3 + 1], z2), In(Table(1, 3)[3 + 1], z3)) <=>
            OddOf(In(Table(1, 4)[3 + 1], z4), In(Table(1, 5)[3 + 1], z5),
                  In(Table(1, 6)[3 + 1], z6), In(Table(1, 7)[3 + 1], z7)))
    BY ONLY <1>5, <1>3, Zenon
  <2> QED
    BY ONLY <2>1, <2>2
<1>16. 0 \in z10 <=>
         ~(OddOf(In({0, 1}, z0), In({2, 3}, z1), In({0, 1, 3}, z2), In({3}, z3)) <=>
           OddOf(In({1}, z4), In({0, 2, 3}, z5), In({1, 2}, z6), In({0, 1, 2}, z7)))
  <2>1. /\ Table(2, 0)[0 + 1] = {0, 1} /\ Table(2, 1)[0 + 1] = {2, 3} /\ Table(2, 2)[0 + 1] = {0, 1, 3}
        /\ Table(2, 3)[0 + 1] = {3} /\ Table(2, 4)[0 + 1] = {1} /\ Table(2, 5)[0 + 1] = {0, 2, 3}
        /\ Table(2, 6)[0 + 1] = {1, 2} /\ Table(2, 7)[0 + 1] = {0, 1, 2}
    BY DEF Table, gf_matrix, recover_table, recover_1_4, recover_5_8, recover_9_12, recover_13_15
  <2>2. 0 \in z10 <=>
          ~(OddOf(In(Table(2, 0)[0 + 1], z0), In(Table(2, 1)[0 + 1], z1),
                  In(Table(2, 2)[0 + 1], z2), In(Table(2, 3)[0 + 1], z3)) <=>
            OddOf(In(Table(2, 4)[0 + 1], z4), In(Table(2, 5)[0 + 1], z5),
                  In(Table(2, 6)[0 + 1], z6), In(Table(2, 7)[0 + 1], z7)))
    BY ONLY <1>6, <1>3, Zenon
  <2> QED
    BY ONLY <2>1, <2>2
<1>17. 1 \in z10 <=>
         ~(OddOf(In({0, 2}, z0), In({2}, z1), In({2, 3}, z2), In({0, 3}, z3)) <=>
           OddOf(In({0, 1, 2}, z4), In({1, 2}, z5), In({1, 3}, z6), In({3}, z7)))
  <2>1. /\ Table(2, 0)[1 + 1] = {0, 2} /\ Table(2, 1)[1 + 1] = {2} /\ Table(2, 2)[1 + 1] = {2, 3}
        /\ Table(2, 3)[1 + 1] = {0, 3} /\ Table(2, 4)[1 + 1] = {0, 1, 2} /\ Table(2, 5)[1 + 1] = {1, 2}
        /\ Table(2, 6)[1 + 1] = {1, 3} /\ Table(2, 7)[1 + 1] = {3}
    BY DEF Table, gf_matrix, recover_table, recover_1_4, recover_5_8, recover_9_12, recover_13_15
  <2>2. 1 \in z10 <=>
          ~(OddOf(In(Table(2, 0)[1 + 1], z0), In(Table(2, 1)[1 + 1], z1),
                  In(Table(2, 2)[1 + 1], z2), In(Table(2, 3)[1 + 1], z3)) <=>
            OddOf(In(Table(2, 4)[1 + 1], z4), In(Table(2, 5)[1 + 1], z5),
                  In(Table(2, 6)[1 + 1], z6), In(Table(2, 7)[1 + 1], z7)))
    BY ONLY <1>6, <1>3, Zenon
  <2> QED
    BY ONLY <2>1, <2>2
<1>18. 2 \in z10 <=>
         ~(OddOf(In({0, 3}, z0), In({0, 2}, z1), In({0, 1}, z2), In({1, 3}, z3)) <=>
           OddOf(In({0, 2, 3}, z4), In({0}, z5), In({1}, z6), In({1, 2}, z7)))
  <2>1. /\ Table(2, 0)[2 + 1] = {0, 3} /\ Table(2, 1)[2 + 1] = {0, 2} /\ Table(2, 2)[2 + 1] = {0, 1}
        /\ Table(2, 3)[2 + 1] = {1, 3} /\ Table(2, 4)[2 + 1] = {0, 2, 3} /\ Table(2, 5)[2 + 1] = {0}
        /\ Table(2, 6)[2 + 1] = {1} /\ Table(2, 7)[2 + 1] = {1, 2}
    BY DEF Table, gf_matrix, recover_table, recover_1_4, recover_5_8, recover_9_12, recover_13_15
  <2>2. 2 \in z10 <=>
          ~(OddOf(In(Table(2, 0)[2 + 1], z0), In(Table(2, 1)[2 + 1], z1),
                  In(Table(2, 2)[2 + 1], z2), In(Table(2, 3)[2 + 1], z3)) <=>
            OddOf(In(Table(2, 4)[2 + 1], z4), In(Table(2, 5)[2 + 1], z5),
                  In(Table(2, 6)[2 + 1], z6), In(Table(2, 7)[2 + 1], z7)))
    BY ONLY <1>6, <1>3, Zenon
  <2> QED
    BY ONLY <2>1, <2>2
<1>19. 3 \in z10 <=>
         ~(OddOf(In({0}, z0), In({1, 2}, z1), In({0, 2, 3}, z2), In({2, 3}, z3)) <=>
           OddOf(In({0, 3}, z4), In({1, 2, 3}, z5), In({0, 1}, z6), In({0, 1, 3}, z7)))
  <2>1. /\ Table(2, 0)[3 + 1] = {0} /\ Table(2, 1)[3 + 1] = {1, 2} /\ Table(2, 2)[3 + 1] = {0, 2, 3}
        /\ Table(2, 3)[3 + 1] = {2, 3} /\ Table(2, 4)[3 + 1] = {0, 3} /\ Table(2, 5)[3 + 1] = {1, 2, 3}
        /\ Table(2, 6)[3 + 1] = {0, 1} /\ Table(2, 7)[3 + 1] = {0, 1, 3}
    BY DEF Table, gf_matrix, recover_table, recover_1_4, recover_5_8, recover_9_12, recover_13_15
  <2>2. 3 \in z10 <=>
          ~(OddOf(In(Table(2, 0)[3 + 1], z0), In(Table(2, 1)[3 + 1], z1),
                  In(Table(2, 2)[3 + 1], z2), In(Table(2, 3)[3 + 1], z3)) <=>
            OddOf(In(Table(2, 4)[3 + 1], z4), In(Table(2, 5)[3 + 1], z5),
                  In(Table(2, 6)[3 + 1], z6), In(Table(2, 7)[3 + 1], z7)))
    BY ONLY <1>6, <1>3, Zenon
  <2> QED
    BY ONLY <2>1, <2>2
<1>20. 0 \in z11 <=>
         ~(OddOf(In({0, 1, 3}, z0), In({1, 2, 3}, z1), In({2}, z2), In({2, 3}, z3)) <=>
           OddOf(In({0, 1, 2, 3}, z4), In({0, 3}, z5), In({0, 2}, z6), In({1, 2}, z7)))
  <2>1. /\ Table(3, 0)[0 + 1] = {0, 1, 3} /\ Table(3, 1)[0 + 1] = {1, 2, 3} /\ Table(3, 2)[0 + 1] = {2}
        /\ Table(3, 3)[0 + 1] = {2, 3} /\ Table(3, 4)[0 + 1] = {0, 1, 2, 3} /\ Table(3, 5)[0 + 1] = {0, 3}
        /\ Table(3, 6)[0 + 1] = {0, 2} /\ Table(3, 7)[0 + 1] = {1, 2}
    BY DEF Table, gf_matrix, recover_table, recover_1_4, recover_5_8, recover_9_12, recover_13_15
  <2>2. 0 \in z11 <=>
          ~(OddOf(In(Table(3, 0)[0 + 1], z0), In(Table(3, 1)[0 + 1], z1),
                  In(Table(3, 2)[0 + 1], z2), In(Table(3, 3)[0 + 1], z3)) <=>
            OddOf(In(Table(3, 4)[0 + 1], z4), In(Table(3, 5)[0 + 1], z5),
                  In(Table(3, 6)[0 + 1], z6), In(Table(3, 7)[0 + 1], z7)))
    BY ONLY <1>7, <1>3, Zenon
  <2> QED
    BY ONLY <2>1, <2>2
<1>21. 1 \in z11 <=>
         ~(OddOf(In({2, 3}, z0), In({0, 1}, z1), In({0, 2, 3}, z2), In({2}, z3)) <=>
           OddOf(In({0}, z4), In({0, 1, 3}, z5), In({0, 1, 2, 3}, z6), In({1, 3}, z7)))
  <2>1. /\ Table(3, 0)[1 + 1] = {2, 3} /\ Table(3, 1)[1 + 1] = {0, 1} /\ Table(3, 2)[1 + 1] = {0, 2, 3}
        /\ Table(3, 3)[1 + 1] = {2} /\ Table(3, 4)[1 + 1] = {0} /\ Table(3, 5)[1 + 1] = {0, 1, 3}
        /\ Table(3, 6)[1 + 1] = {0, 1, 2, 3} /\ Table(3, 7)[1 + 1] = {1, 3}
    BY DEF Table, gf_matrix, recover_table, recover_1_4, recover_5_8, recover_9_12, recover_13_15
  <2>2. 1 \in z11 <=>
          ~(OddOf(In(Table(3, 0)[1 + 1], z0), In(Table(3, 1)[1 + 1], z1),
                  In(Table(3, 2)[1 + 1], z2), In(Table(3, 3)[1 + 1], z3)) <=>
            OddOf(In(Table(3, 4)[1 + 1], z4), In(Table(3, 5)[1 + 1], z5),
                  In(Table(3, 6)[1 + 1], z6), In(Table(3, 7)[1 + 1], z7)))
    BY ONLY <1>7, <1>3, Zenon
  <2> QED
    BY ONLY <2>1, <2>2
<1>22. 2 \in z11 <=>
         ~(OddOf(In({0, 1}, z0), In({3}, z1), In({0, 1, 2, 3}, z2), In({0, 2}, z3)) <=>
           OddOf(In({2, 3}, z4), In({1, 2, 3}, z5), In({0, 1, 3}, z6), In({1}, z7)))
  <2>1. /\ Table(3, 0)[2 + 1] = {0, 1} /\ Table(3, 1)[2 + 1] = {3} /\ Table(3, 2)[2 + 1] = {0, 1, 2, 3}
        /\ Table(3, 3)[2 + 1] = {0, 2} /\ Table(3, 4)[2 + 1] = {2, 3} /\ Table(3, 5)[2 + 1] = {1, 2, 3}
        /\ Table(3, 6)[2 + 1] = {0, 1, 3} /\ Table(3, 7)[2 + 1] = {1}
    BY DEF Table, gf_matrix, recover_table, recover_1_4, recover_5_8, recover_9_12, recover_13_15
  <2>2. 2 \in z11 <=>
          ~(OddOf(In(Table(3, 0)[2 + 1], z0), In(Table(3, 1)[2 + 1], z1),
                  In(Table(3, 2)[2 + 1], z2), In(Table(3, 3)[2 + 1], z3)) <=>
            OddOf(In(Table(3, 4)[2 + 1], z4), In(Table(3, 5)[2 + 1], z5),
                  In(Table(3, 6)[2 + 1], z6), In(Table(3, 7)[2 + 1], z7)))
    BY ONLY <1>7, <1>3, Zenon
  <2> QED
    BY ONLY <2>1, <2>2
<1>23. 3 \in z11 <=>
         ~(OddOf(In({0, 2, 3}, z0), In({0, 1, 2, 3}, z1), In({1, 3}, z2), In({1, 2}, z3)) <=>
           OddOf(In({0, 1, 2}, z4), In({2}, z5), In({1}, z6), In({0, 1}, z7)))
  <2>1. /\ Table(3, 0)[3 + 1] = {0, 2, 3} /\ Table(3, 1)[3 + 1] = {0, 1, 2, 3} /\ Table(3, 2)[3 + 1] = {1, 3}
        /\ Table(3, 3)[3 + 1] = {1, 2} /\ Table(3, 4)[3 + 1] = {0, 1, 2} /\ Table(3, 5)[3 + 1] = {2}
        /\ Table(3, 6)[3 + 1] = {1} /\ Table(3, 7)[3 + 1] = {0, 1}
    BY DEF Table, gf_matrix, recover_table, recover_1_4, recover_5_8, recover_9_12, recover_13_15
  <2>2. 3 \in z11 <=>
          ~(OddOf(In(Table(3, 0)[3 + 1], z0), In(Table(3, 1)[3 + 1], z1),
                  In(Table(3, 2)[3 + 1], z2), In(Table(3, 3)[3 + 1], z3)) <=>
            OddOf(In(Table(3, 4)[3 + 1], z4), In(Table(3, 5)[3 + 1], z5),
                  In(Table(3, 6)[3 + 1], z6), In(Table(3, 7)[3 + 1], z7)))
    BY ONLY <1>7, <1>3, Zenon
  <2> QED
    BY ONLY <2>1, <2>2
<1>24. /\ 0 \in z0 \/ 1 \in z0 \/ 2 \in z0 \/ 3 \in z0 => a = 0 \/ b = 0 \/ c = 0 \/ d = 0
       /\ 0 \in z1 \/ 1 \in z1 \/ 2 \in z1 \/ 3 \in z1 => a = 1 \/ b = 1 \/ c = 1 \/ d = 1
       /\ 0 \in z2 \/ 1 \in z2 \/ 2 \in z2 \/ 3 \in z2 => a = 2 \/ b = 2 \/ c = 2 \/ d = 2
       /\ 0 \in z3 \/ 1 \in z3 \/ 2 \in z3 \/ 3 \in z3 => a = 3 \/ b = 3 \/ c = 3 \/ d = 3
       /\ 0 \in z4 \/ 1 \in z4 \/ 2 \in z4 \/ 3 \in z4 => a = 4 \/ b = 4 \/ c = 4 \/ d = 4
       /\ 0 \in z5 \/ 1 \in z5 \/ 2 \in z5 \/ 3 \in z5 => a = 5 \/ b = 5 \/ c = 5 \/ d = 5
       /\ 0 \in z6 \/ 1 \in z6 \/ 2 \in z6 \/ 3 \in z6 => a = 6 \/ b = 6 \/ c = 6 \/ d = 6
       /\ 0 \in z7 \/ 1 \in z7 \/ 2 \in z7 \/ 3 \in z7 => a = 7 \/ b = 7 \/ c = 7 \/ d = 7
       /\ 0 \in z8 \/ 1 \in z8 \/ 2 \in z8 \/ 3 \in z8 => a = 8 \/ b = 8 \/ c = 8 \/ d = 8
       /\ 0 \in z9 \/ 1 \in z9 \/ 2 \in z9 \/ 3 \in z9 => a = 9 \/ b = 9 \/ c = 9 \/ d = 9
       /\ 0 \in z10 \/ 1 \in z10 \/ 2 \in z10 \/ 3 \in z10 => a = 10 \/ b = 10 \/ c = 10 \/ d = 10
       /\ 0 \in z11 \/ 1 \in z11 \/ 2 \in z11 \/ 3 \in z11 => a = 11 \/ b = 11 \/ c = 11 \/ d = 11
  <2>1. \A j \in 0 .. 11 : (0 \in z[j] \/ 1 \in z[j] \/ 2 \in z[j] \/ 3 \in z[j])
                            => a = j \/ b = j \/ c = j \/ d = j
    OBVIOUS
  <2> QED
    BY <2>1 DEF z0, z1, z2, z3, z4, z5, z6, z7, z8, z9, z10, z11
<1>25. /\ ~(0 \in z0) /\ ~(1 \in z0) /\ ~(2 \in z0) /\ ~(3 \in z0)
       /\ ~(0 \in z1) /\ ~(1 \in z1) /\ ~(2 \in z1) /\ ~(3 \in z1)
       /\ ~(0 \in z2) /\ ~(1 \in z2) /\ ~(2 \in z2) /\ ~(3 \in z2)
       /\ ~(0 \in z3) /\ ~(1 \in z3) /\ ~(2 \in z3) /\ ~(3 \in z3)
       /\ ~(0 \in z4) /\ ~(1 \in z4) /\ ~(2 \in z4) /\ ~(3 \in z4)
       /\ ~(0 \in z5) /\ ~(1 \in z5) /\ ~(2 \in z5) /\ ~(3 \in z5)
       /\ ~(0 \in z6) /\ ~(1 \in z6) /\ ~(2 \in z6) /\ ~(3 \in z6)
       /\ ~(0 \in z7) /\ ~(1 \in z7) /\ ~(2 \in z7) /\ ~(3 \in z7)
  BY ONLY <1>8, <1>9, <1>10, <1>11, <1>12, <1>13, <1>14, <1>15, <1>16, <1>17, <1>18, <1>19,
     <1>20, <1>21, <1>22, <1>23, <1>24,
     a \in Int, b \in Int, c \in Int, d \in Int, SMTT(200) DEF In, OddOf
<1>26. /\ ~(0 \in z8) /\ ~(1 \in z8) /\ ~(2 \in z8) /\ ~(3 \in z8)
       /\ ~(0 \in z9) /\ ~(1 \in z9) /\ ~(2 \in z9) /\ ~(3 \in z9)
       /\ ~(0 \in z10) /\ ~(1 \in z10) /\ ~(2 \in z10) /\ ~(3 \in z10)
       /\ ~(0 \in z11) /\ ~(1 \in z11) /\ ~(2 \in z11) /\ ~(3 \in z11)
  <2>1. \A S : ~In(S, z0) /\ ~In(S, z1) /\ ~In(S, z2) /\ ~In(S, z3)
                /\ ~In(S, z4) /\ ~In(S, z5) /\ ~In(S, z6) /\ ~In(S, z7)
    BY <1>25 DEF In, OddOf
  <2> QED
    BY ONLY <1>8, <1>9, <1>10, <1>11, <1>12, <1>13, <1>14, <1>15, <1>16, <1>17, <1>18, <1>19,
       <1>20, <1>21, <1>22, <1>23, <2>1 DEF OddOf
<1> QED
  <2>1. ASSUME NEW y \in Element, ~(0 \in y), ~(1 \in y), ~(2 \in y), ~(3 \in y)
        PROVE  y = {}
    BY <2>1, SameBits DEF Element
  <2>2. \A j \in 0 .. 11 : z[j] \in Element /\ ~(0 \in z[j]) /\ ~(1 \in z[j]) /\ ~(2 \in z[j]) /\ ~(3 \in z[j])
    BY <1>25, <1>26 DEF z0, z1, z2, z3, z4, z5, z6, z7, z8, z9, z10, z11
  <2> QED
    BY <2>1, <2>2

-----------------------------------------------------------------------------
(* The members of a finite set of numbers in turn: each has its place, and *)
(* its place is its own.                                                   *)
Below(S, x) == {y \in S : y < x}

LEMMA BelowInjective ==
  ASSUME NEW S \in SUBSET Int, IsFiniteSet(S), NEW x \in S, NEW w \in S, x < w
  PROVE  Cardinality(Below(S, x)) < Cardinality(Below(S, w))
<1>1. Below(S, w) \in SUBSET S /\ IsFiniteSet(Below(S, w))
  BY FS_Subset DEF Below
<1>2. Below(S, x) \in SUBSET Below(S, w)
  <2>1. ASSUME NEW y \in S, y < x
        PROVE  y < w
    <3>1. y \in Int /\ x \in Int /\ w \in Int
      OBVIOUS
    <3> QED
      BY <2>1, <3>1
  <2> QED
    BY <2>1 DEF Below
<1>3. Below(S, w) # Below(S, x)
  <2>1. x \in Below(S, w)
    BY DEF Below
  <2>2. x \notin Below(S, x)
    BY DEF Below
  <2> QED
    BY <2>1, <2>2
<1>4. /\ Cardinality(Below(S, x)) <= Cardinality(Below(S, w))
      /\ Cardinality(Below(S, w)) # Cardinality(Below(S, x))
      /\ IsFiniteSet(Below(S, x))
  BY <1>1, <1>2, <1>3, FS_Subset
<1>5. Cardinality(Below(S, x)) \in Nat /\ Cardinality(Below(S, w)) \in Nat
  BY <1>1, <1>4, FS_CardinalityType
<1> QED
  BY <1>4, <1>5

(* Nth takes each member in its place, once.                               *)
LEMMA NthPlace ==
  ASSUME NEW S \in SUBSET Int, IsFiniteSet(S)
  PROVE  /\ \A k \in 0 .. Cardinality(S) - 1 :
              Nth(S, k) \in S /\ Cardinality(Below(S, Nth(S, k))) = k
         /\ \A x \in S : /\ Cardinality(Below(S, x)) \in 0 .. Cardinality(S) - 1
                         /\ Nth(S, Cardinality(Below(S, x))) = x
<1> DEFINE n == Cardinality(S)
           rank == [x \in S |-> Cardinality(Below(S, x))]
<1>1. n \in Nat
  BY FS_CardinalityType
<1>2. ASSUME NEW x \in S
      PROVE  rank[x] \in 0 .. n - 1
  <2>1. Below(S, x) \in SUBSET S /\ IsFiniteSet(Below(S, x)) /\ x \notin Below(S, x)
    BY FS_Subset DEF Below
  <2>2. Cardinality(Below(S, x)) <= n /\ Cardinality(Below(S, x)) # n
    BY <2>1, FS_Subset
  <2>3. Cardinality(Below(S, x)) \in Nat
    BY <2>1, FS_CardinalityType
  <2> QED
    BY <1>1, <2>2, <2>3
<1>3. ASSUME NEW x \in S, NEW w \in S, rank[x] = rank[w]
      PROVE  x = w
  <2>1. CASE x < w
    <3>1. rank[x] < rank[w]
      BY <2>1, BelowInjective
    <3> QED
      BY <1>2, <1>3, <3>1
  <2>2. CASE w < x
    <3>1. rank[w] < rank[x]
      BY <2>2, BelowInjective
    <3> QED
      BY <1>2, <1>3, <3>1
  <2> QED
    BY <2>1, <2>2
<1>4. rank \in Injection(S, 0 .. n - 1)
  BY <1>2, <1>3, Fun_IsInj
<1>5. IsFiniteSet(0 .. n - 1) /\ Cardinality(0 .. n - 1) = n
  <2> DEFINE m == n - 1
  <2>1. n \in Nat /\ m \in Int /\ 0 \in Int /\ (IF 0 > m THEN 0 ELSE m - 0 + 1) = n
    BY <1>1
  <2> HIDE DEF m, n
  <2>2. IsFiniteSet(0 .. m) /\ Cardinality(0 .. m) = IF 0 > m THEN 0 ELSE m - 0 + 1
    BY ONLY <2>1, FS_Interval, Zenon
  <2> QED
    BY <2>1, <2>2 DEF m
<1>6. rank \in Surjection(S, 0 .. n - 1)
  BY <1>4, <1>5, FS_Injection
<1>7. \A k \in 0 .. n - 1 : \E x \in S : rank[x] = k
  <2> DEFINE T == 0 .. n - 1
  <2> HIDE DEF rank, n, T
  <2>1. rank \in Surjection(S, T)
    BY <1>6 DEF T
  <2>2. \A t \in T : \E x \in S : rank[x] = t
    BY ONLY <2>1, Fun_SurjectionProperties, Zenon
  <2> QED
    BY <2>2 DEF T
<1>8. \A k : Nth(S, k) = CHOOSE y \in S : Cardinality(Below(S, y)) = k
  BY DEF Nth, Below
<1>9. ASSUME NEW k \in 0 .. n - 1
      PROVE  Nth(S, k) \in S /\ rank[Nth(S, k)] = k
  BY <1>7, <1>8
<1>10. ASSUME NEW x \in S
       PROVE  Nth(S, rank[x]) = x
  BY <1>2, <1>3, <1>9
<1> QED
  BY <1>2, <1>9, <1>10

-----------------------------------------------------------------------------
(* Four elements, and their products with four others.                     *)
Vector == [0 .. 3 -> Element]
Dot(a, x) == Xor(Xor(Mul(a[0], x[0]), Mul(a[1], x[1])), Xor(Mul(a[2], x[2]), Mul(a[3], x[3])))

LEMMA XorMembers ==
  ASSUME NEW a, NEW b, NEW x
  PROVE  x \in Xor(a, b) <=> ~(x \in a <=> x \in b)
  BY DEF Xor

(* Exclusive ors may be taken in any order.                                *)
LEMMA XorRegroups ==
  ASSUME NEW a, NEW b, NEW c, NEW d
  PROVE  Xor(Xor(a, b), Xor(c, d)) = Xor(Xor(a, c), Xor(b, d))
<1> DEFINE l == Xor(Xor(a, b), Xor(c, d))
           r == Xor(Xor(a, c), Xor(b, d))
<1>1. ASSUME NEW x
      PROVE  x \in l <=> x \in r
  <2>1. x \in l <=> ~(~(x \in a <=> x \in b) <=> ~(x \in c <=> x \in d))
    BY XorMembers
  <2>2. x \in r <=> ~(~(x \in a <=> x \in c) <=> ~(x \in b <=> x \in d))
    BY XorMembers
  <2> QED
    BY <2>1, <2>2
<1> HIDE DEF l, r
<1>2. l = r
  BY <1>1
<1> QED
  BY <1>2 DEF l, r

LEMMA XorElement ==
  ASSUME NEW a \in Element, NEW b \in Element
  PROVE  Xor(a, b) \in Element
  BY XorLaws

LEMMA MulElement ==
  ASSUME NEW a \in Element, NEW b \in Element
  PROVE  Mul(a, b) \in Element
  BY MulBits

(* A product with a sum on the left.                                       *)
LEMMA MulDistributesRight ==
  ASSUME NEW a \in Element, NEW b \in Element, NEW c \in Element
  PROVE  Mul(Xor(a, b), c) = Xor(Mul(a, c), Mul(b, c))
<1>1. Xor(a, b) \in Element
  BY XorLaws
<1>2. Mul(Xor(a, b), c) = Mul(c, Xor(a, b)) /\ Mul(a, c) = Mul(c, a) /\ Mul(b, c) = Mul(c, b)
  BY <1>1, MulCommutes
<1> QED
  BY <1>2, MulDistributes

LEMMA DotElement ==
  ASSUME NEW a \in Vector, NEW x \in Vector
  PROVE  Dot(a, x) \in Element
<1>1. \A c \in 0 .. 3 : Mul(a[c], x[c]) \in Element
  BY MulElement DEF Vector
<1>2. /\ Xor(Mul(a[0], x[0]), Mul(a[1], x[1])) \in Element
      /\ Xor(Mul(a[2], x[2]), Mul(a[3], x[3])) \in Element
  BY <1>1, XorLaws
<1> QED
  BY <1>2, XorLaws DEF Dot

(* Normalising a row multiplies its product with a vector by the same.     *)
LEMMA DotScaled ==
  ASSUME NEW a \in Vector, NEW x \in Vector, NEW s \in Element, NEW e,
         e = [c \in 0 .. 3 |-> Mul(a[c], s)]
  PROVE  e \in Vector /\ Dot(e, x) = Mul(s, Dot(a, x))
<1>1. \A c \in 0 .. 3 : a[c] \in Element /\ x[c] \in Element
  BY DEF Vector
<1>2. ASSUME NEW c \in 0 .. 3
      PROVE  /\ e[c] \in Element /\ Mul(a[c], x[c]) \in Element
             /\ Mul(e[c], x[c]) = Mul(s, Mul(a[c], x[c]))
  <2>1. e[c] = Mul(a[c], s) /\ Mul(a[c], s) = Mul(s, a[c])
    BY <1>1, MulCommutes
  <2>2. Mul(s, Mul(a[c], x[c])) = Mul(Mul(s, a[c]), x[c])
    BY <1>1, MulAssociates
  <2> QED
    BY <1>1, <2>1, <2>2, MulElement
<1> DEFINE m == [c \in 0 .. 3 |-> Mul(a[c], x[c])]
<1>3. /\ m[0] \in Element /\ m[1] \in Element /\ m[2] \in Element /\ m[3] \in Element
      /\ Mul(e[0], x[0]) = Mul(s, m[0]) /\ Mul(e[1], x[1]) = Mul(s, m[1])
      /\ Mul(e[2], x[2]) = Mul(s, m[2]) /\ Mul(e[3], x[3]) = Mul(s, m[3])
  BY <1>2
<1>4. Dot(a, x) = Xor(Xor(m[0], m[1]), Xor(m[2], m[3]))
  BY DEF Dot
<1> HIDE DEF m
<1>5. /\ Xor(m[0], m[1]) \in Element /\ Xor(m[2], m[3]) \in Element
      /\ Mul(s, Xor(m[0], m[1])) = Xor(Mul(s, m[0]), Mul(s, m[1]))
      /\ Mul(s, Xor(m[2], m[3])) = Xor(Mul(s, m[2]), Mul(s, m[3]))
  <2>1. Xor(m[0], m[1]) \in Element /\ Xor(m[2], m[3]) \in Element
    BY <1>3, XorElement
  <2>2. Mul(s, Xor(m[0], m[1])) = Xor(Mul(s, m[0]), Mul(s, m[1]))
    BY <1>3, MulDistributes
  <2>3. Mul(s, Xor(m[2], m[3])) = Xor(Mul(s, m[2]), Mul(s, m[3]))
    BY <1>3, MulDistributes
  <2> QED
    BY <2>1, <2>2, <2>3
<1>6. Mul(s, Xor(Xor(m[0], m[1]), Xor(m[2], m[3])))
        = Xor(Mul(s, Xor(m[0], m[1])), Mul(s, Xor(m[2], m[3])))
  BY <1>5, MulDistributes
<1>7. e \in Vector
  BY <1>2 DEF Vector
<1> QED
  BY <1>3, <1>4, <1>5, <1>6, <1>7 DEF Dot

(* Adding a multiple of a row to another adds the multiple of its product. *)
LEMMA DotAdded ==
  ASSUME NEW a \in Vector, NEW b \in Vector, NEW x \in Vector, NEW s \in Element, NEW e,
         e = [c \in 0 .. 3 |-> Xor(a[c], Mul(s, b[c]))]
  PROVE  e \in Vector /\ Dot(e, x) = Xor(Dot(a, x), Mul(s, Dot(b, x)))
<1>1. \A c \in 0 .. 3 : a[c] \in Element /\ b[c] \in Element /\ x[c] \in Element
  BY DEF Vector
<1> DEFINE d == [c \in 0 .. 3 |-> Mul(b[c], s)]
<1>2. d \in Vector /\ Dot(d, x) = Mul(s, Dot(b, x))
  BY DotScaled
<1>3. ASSUME NEW c \in 0 .. 3
      PROVE  /\ e[c] \in Element
             /\ Mul(e[c], x[c]) = Xor(Mul(a[c], x[c]), Mul(d[c], x[c]))
  <2>1. e[c] = Xor(a[c], d[c]) /\ d[c] \in Element
    BY <1>1, MulCommutes, MulElement
  <2>2. e[c] \in Element
    BY <1>1, <2>1, XorElement
  <2>3. Mul(Xor(a[c], d[c]), x[c]) = Xor(Mul(a[c], x[c]), Mul(d[c], x[c]))
    BY <1>1, <2>1, MulDistributesRight
  <2> QED
    BY <2>1, <2>2, <2>3
<1> HIDE DEF d
<1>4. Dot(e, x) = Xor(Dot(a, x), Dot(d, x))
  <2>1. /\ Mul(e[0], x[0]) = Xor(Mul(a[0], x[0]), Mul(d[0], x[0]))
        /\ Mul(e[1], x[1]) = Xor(Mul(a[1], x[1]), Mul(d[1], x[1]))
        /\ Mul(e[2], x[2]) = Xor(Mul(a[2], x[2]), Mul(d[2], x[2]))
        /\ Mul(e[3], x[3]) = Xor(Mul(a[3], x[3]), Mul(d[3], x[3]))
    BY <1>3
  <2> DEFINE m(c) == Mul(a[c], x[c])
             o(c) == Mul(d[c], x[c])
  <2>2. Dot(a, x) = Xor(Xor(m(0), m(1)), Xor(m(2), m(3)))
    BY DEF Dot
  <2>3. Dot(d, x) = Xor(Xor(o(0), o(1)), Xor(o(2), o(3)))
    BY DEF Dot
  <2>4. Dot(e, x) = Xor(Xor(Xor(m(0), o(0)), Xor(m(1), o(1))), Xor(Xor(m(2), o(2)), Xor(m(3), o(3))))
    BY <2>1 DEF Dot
  <2> HIDE DEF m, o
  <2>5. Xor(Xor(Xor(m(0), o(0)), Xor(m(1), o(1))), Xor(Xor(m(2), o(2)), Xor(m(3), o(3))))
          = Xor(Xor(Xor(m(0), m(1)), Xor(m(2), m(3))), Xor(Xor(o(0), o(1)), Xor(o(2), o(3))))
    <3>1. Xor(Xor(m(0), o(0)), Xor(m(1), o(1))) = Xor(Xor(m(0), m(1)), Xor(o(0), o(1)))
      BY ONLY XorRegroups
    <3>2. Xor(Xor(m(2), o(2)), Xor(m(3), o(3))) = Xor(Xor(m(2), m(3)), Xor(o(2), o(3)))
      BY ONLY XorRegroups
    <3>3. Xor(Xor(Xor(m(0), m(1)), Xor(o(0), o(1))), Xor(Xor(m(2), m(3)), Xor(o(2), o(3))))
            = Xor(Xor(Xor(m(0), m(1)), Xor(m(2), m(3))), Xor(Xor(o(0), o(1)), Xor(o(2), o(3))))
      BY ONLY XorRegroups
    <3> QED
      BY ONLY <3>1, <3>2, <3>3
  <2> QED
    BY ONLY <2>2, <2>3, <2>4, <2>5
<1>5. e \in Vector
  BY <1>3 DEF Vector
<1> QED
  BY <1>2, <1>4, <1>5

-----------------------------------------------------------------------------
(* A column of inverse_matrix, for a pivot row p: what becomes of the rows *)
(* of a matrix, and of their products with a vector.                       *)
Step(a, p, by) == Eliminated(Normalised(Swapped(a, p), by), by)

(* The two rows change places.                                             *)
LEMMA SwappedRows ==
  ASSUME NEW a \in [Row -> Vector], NEW p \in Row, col \in Row
  PROVE  /\ Swapped(a, p) \in [Row -> Vector]
         /\ Swapped(a, p)[col] = a[p]
         /\ Swapped(a, p)[p] = a[col]
         /\ \A r \in Row \ {col, p} : Swapped(a, p)[r] = a[r]
  BY DEF Swapped

(* The rows after the step of a column, and their products with a vector.  *)
LEMMA StepRows ==
  ASSUME NEW a \in [Row -> Vector], NEW p \in Row, NEW by \in [Row -> Vector],
         col \in Row, by[col][col] # {}
  PROVE  LET s == Swapped(a, p)
             e == Step(a, p, by)
             q == gf_inv_table[by[col][col]]
         IN  /\ e \in [Row -> Vector]
             /\ \A c \in 0 .. 3 : e[col][c] = Mul(a[p][c], q)
             /\ \A r \in Row \ {col}, c \in 0 .. 3 : e[r][c] = Xor(s[r][c], Mul(by[r][col], e[col][c]))
             /\ \A x \in Vector :
                  /\ Dot(e[col], x) = Mul(q, Dot(a[p], x))
                  /\ \A r \in Row \ {col} : Dot(e[r], x) = Xor(Dot(s[r], x), Mul(by[r][col], Dot(e[col], x)))
<1> DEFINE s == Swapped(a, p)
           n == Normalised(s, by)
           e == Step(a, p, by)
           q == gf_inv_table[by[col][col]]
<1>1. s \in [Row -> Vector] /\ s[col] = a[p]
  BY SwappedRows
<1>2. q \in Element /\ \A r \in Row : by[r][col] \in Element
  <2>1. \A r \in Row : by[r][col] \in Element
    BY DEF Row, Vector
  <2> QED
    BY <2>1, InverseMultiplies
<1> HIDE DEF s, q
<1>3. /\ n[col] = [c \in 0 .. 3 |-> Mul(a[p][c], q)]
      /\ \A r \in Row \ {col} : n[r] = s[r]
  BY <1>1 DEF Normalised, Mul, q
<1>4. n[col] \in Vector /\ \A x \in Vector : Dot(n[col], x) = Mul(q, Dot(a[p], x))
  <2>1. a[p] \in Vector
    OBVIOUS
  <2> HIDE DEF n
  <2> QED
    BY <1>2, <1>3, <2>1, DotScaled
<1>5. /\ e[col] = n[col]
      /\ \A r \in Row \ {col} : e[r] = [c \in 0 .. 3 |-> Xor(s[r][c], Mul(by[r][col], n[col][c]))]
  BY <1>3 DEF Step, Eliminated, Mul, s
<1>6. e = [r \in Row |-> e[r]]
  BY DEF Step, Eliminated
<1> HIDE DEF n, e
<1>7. ASSUME NEW r \in Row \ {col}
      PROVE  /\ e[r] \in Vector
             /\ \A x \in Vector : Dot(e[r], x) = Xor(Dot(s[r], x), Mul(by[r][col], Dot(n[col], x)))
  <2>1. s[r] \in Vector /\ by[r][col] \in Element
    BY <1>1, <1>2
  <2>2. e[r] = [c \in 0 .. 3 |-> Xor(s[r][c], Mul(by[r][col], n[col][c]))]
    BY <1>5
  <2>3. n[col] \in Vector
    BY <1>4
  <2> DEFINE b == n[col]
             d == e[r]
             g == by[r][col]
             h == s[r]
  <2> HIDE DEF b, d, g, h
  <2>4. /\ h \in Vector /\ g \in Element /\ b \in Vector
        /\ d = [c \in 0 .. 3 |-> Xor(h[c], Mul(g, b[c]))]
    BY <2>1, <2>2, <2>3 DEF b, d, g, h
  <2>5. d \in Vector /\ \A x \in Vector : Dot(d, x) = Xor(Dot(h, x), Mul(g, Dot(b, x)))
    BY <2>4, DotAdded
  <2> QED
    BY <2>5 DEF b, d, g, h
<1>8. e \in [Row -> Vector]
  <2>1. \A r \in Row : e[r] \in Vector
    BY <1>4, <1>5, <1>7
  <2> QED
    BY <1>6, <2>1
<1>9. \A c \in 0 .. 3 : e[col][c] = Mul(a[p][c], q)
  BY <1>3, <1>5
<1>10. ASSUME NEW r \in Row \ {col}, NEW c \in 0 .. 3
       PROVE  e[r][c] = Xor(s[r][c], Mul(by[r][col], e[col][c]))
  <2>1. e[r] = [i \in 0 .. 3 |-> Xor(s[r][i], Mul(by[r][col], n[col][i]))]
    BY <1>5
  <2>2. e[r][c] = Xor(s[r][c], Mul(by[r][col], n[col][c]))
    BY <2>1
  <2> QED
    BY <1>5, <2>2
<1>11. \A x \in Vector :
         /\ Dot(e[col], x) = Mul(q, Dot(a[p], x))
         /\ \A r \in Row \ {col} : Dot(e[r], x) = Xor(Dot(s[r], x), Mul(by[r][col], Dot(e[col], x)))
  BY <1>4, <1>5, <1>7
<1> QED
  BY <1>8, <1>9, <1>10, <1>11 DEF s, e, q

LEMMA StepMatrix ==
  ASSUME NEW a \in [Row -> Vector], NEW p \in Row, NEW by \in [Row -> Vector],
         col \in Row, by[col][col] # {}
  PROVE  Step(a, p, by) \in [Row -> Vector]
  BY StepRows, SMTT(30)

(* The columns before n are those of the identity.                         *)
Unit(a, n) == \A r, c \in Row : c < n => a[r][c] = IF r = c THEN {0} ELSE {}

(* Nothing but zero is mapped to zero.                                     *)
Nonsingular(a) ==
  \A y \in Vector : (\A r \in Row : Dot(a[r], y) = {}) => \A c \in Row : y[c] = {}

(* Two matrices map two vectors to the same.                               *)
Same(a, x, b, y) == \A r \in Row : Dot(a[r], x) = Dot(b[r], y)

(* What maps two vectors to the same does so after the step, too ...       *)
LEMMA StepSame ==
  ASSUME NEW a \in [Row -> Vector], NEW b \in [Row -> Vector], NEW by \in [Row -> Vector],
         NEW p \in Row, col \in Row, by[col][col] # {},
         NEW x \in Vector, NEW y \in Vector, Same(a, x, b, y)
  PROVE  Same(Step(a, p, by), x, Step(b, p, by), y)
<1> DEFINE s == Swapped(a, p)
           t == Swapped(b, p)
           e == Step(a, p, by)
           f == Step(b, p, by)
           q == gf_inv_table[by[col][col]]
<1>1. /\ Dot(e[col], x) = Mul(q, Dot(a[p], x))
      /\ \A r \in Row \ {col} : Dot(e[r], x) = Xor(Dot(s[r], x), Mul(by[r][col], Dot(e[col], x)))
  BY StepRows, SMTT(30)
<1>2. /\ Dot(f[col], y) = Mul(q, Dot(b[p], y))
      /\ \A r \in Row \ {col} : Dot(f[r], y) = Xor(Dot(t[r], y), Mul(by[r][col], Dot(f[col], y)))
  BY StepRows, SMTT(30)
<1>3. Dot(a[p], x) = Dot(b[p], y)
  BY DEF Same
<1>4. Dot(e[col], x) = Dot(f[col], y)
  BY <1>1, <1>2, <1>3
<1>5. ASSUME NEW r \in Row \ {col}
      PROVE  Dot(s[r], x) = Dot(t[r], y)
  <2>1. s[p] = a[col] /\ \A i \in Row \ {col, p} : s[i] = a[i]
    BY SwappedRows
  <2>2. t[p] = b[col] /\ \A i \in Row \ {col, p} : t[i] = b[i]
    BY SwappedRows
  <2> HIDE DEF s, t
  <2>3. CASE r = p
    BY <2>1, <2>2, <2>3 DEF Same
  <2>4. CASE r # p
    BY <2>1, <2>2, <2>4 DEF Same
  <2> QED
    BY <2>3, <2>4
<1> HIDE DEF s, t, e, f, q
<1>6. \A r \in Row : Dot(e[r], x) = Dot(f[r], y)
  BY <1>1, <1>2, <1>4, <1>5
<1> QED
  BY <1>6 DEF Same, e, f

(* ... the column of the step is that of the identity, and those before    *)
(* it stay so ...                                                          *)
LEMMA StepUnit ==
  ASSUME NEW a \in [Row -> Vector], col \in Row, NEW p \in col .. 3, a[p][col] # {}, Unit(a, col)
  PROVE  Unit(Step(a, p, Swapped(a, p)), col + 1)
<1> DEFINE s == Swapped(a, p)
           e == Step(a, p, s)
           q == gf_inv_table[s[col][col]]
<1>1. p \in Row /\ col \in 0 .. 3 /\ \A r \in Row : r \in Int
  BY DEF Row
<1>2. /\ s \in [Row -> Vector] /\ s[col] = a[p] /\ s[p] = a[col]
      /\ \A r \in Row \ {col, p} : s[r] = a[r]
  BY <1>1, SwappedRows
<1>3. /\ \A c \in 0 .. 3 : e[col][c] = Mul(a[p][c], q)
      /\ \A r \in Row \ {col}, c \in 0 .. 3 : e[r][c] = Xor(s[r][c], Mul(s[r][col], e[col][c]))
  <2>1. s[col][col] # {}
    BY <1>2
  <2> QED
    BY <1>1, <1>2, <2>1, StepRows, SMTT(30)
<1>4. s[col][col] \in Element /\ q \in Element /\ Mul(a[p][col], q) = {0}
  <2>1. a[p][col] \in Element
    BY <1>1 DEF Vector
  <2> QED
    BY <1>2, <2>1, InverseMultiplies
<1>5. \A r \in Row, c \in 0 .. 3 : s[r][c] \in Element
  BY <1>2 DEF Vector
<1> HIDE DEF s, e, q
<1>6. ASSUME NEW r \in Row, NEW c \in Row, c < col
      PROVE  s[r][c] = IF r = c THEN {0} ELSE {}
  <2>1. p # c /\ col # c
    BY <1>1, <1>6
  <2>2. CASE r = col
    BY <1>1, <1>2, <1>6, <2>1, <2>2 DEF Unit
  <2>3. CASE r = p
    BY <1>1, <1>2, <1>6, <2>1, <2>3 DEF Unit
  <2>4. CASE r # col /\ r # p
    BY <1>1, <1>2, <1>6, <2>4 DEF Unit
  <2> QED
    BY <2>2, <2>3, <2>4
<1>7. ASSUME NEW r \in Row, NEW c \in Row, c < col + 1
      PROVE  e[r][c] = IF r = c THEN {0} ELSE {}
  <2>1. c \in 0 .. 3 /\ (c < col \/ c = col)
    BY <1>1, <1>7 DEF Row
  <2>2. CASE c = col
    <3>1. e[col][col] = {0}
      BY <1>1, <1>3, <1>4
    <3>2. CASE r = col
      BY <2>2, <3>1, <3>2
    <3>3. CASE r # col
      <4>1. e[r][c] = Xor(s[r][col], Mul(s[r][col], {0})) /\ s[r][col] \in Element
        BY <1>1, <1>3, <1>5, <2>2, <3>1, <3>3
      <4>2. Mul(s[r][col], {0}) = s[r][col]
        BY <4>1, MulOne
      <4>3. Xor(s[r][col], s[r][col]) = {}
        BY DEF Xor
      <4> QED
        BY <2>2, <3>3, <4>1, <4>2, <4>3
    <3> QED
      BY <3>2, <3>3
  <2>3. CASE c < col
    <3>1. e[col][c] = {}
      <4>1. a[p][c] = {}
        <5>1. col \in Row /\ c \in Row /\ col # c
          BY <1>1, <2>3
        <5>2. s[col][c] = {}
          BY <1>6, <2>3, <5>1
        <5> QED
          BY ONLY <1>2, <5>2
      <4>2. e[col][c] = Mul({}, q)
        BY <1>3, <2>1, <4>1
      <4>3. Mul({}, q) = {}
        BY <1>4, MulOne
      <4> QED
        BY <4>2, <4>3
    <3>2. CASE r = col
      BY <1>1, <2>3, <3>1, <3>2
    <3>3. CASE r # col
      <4>1. e[r][c] = Xor(s[r][c], Mul(s[r][col], {})) /\ s[r][col] \in Element /\ s[r][c] \in Element
        BY <1>1, <1>3, <1>5, <2>1, <3>1, <3>3
      <4>2. Mul(s[r][col], {}) = {}
        BY <4>1, MulOne
      <4>3. Xor(s[r][c], {}) = s[r][c]
        BY DEF Xor
      <4> QED
        BY <1>6, <2>3, <4>1, <4>2, <4>3
    <3> QED
      BY <3>2, <3>3
  <2> QED
    BY <2>1, <2>2, <2>3
<1> QED
  BY <1>7 DEF Unit, e, s

(* ... and a matrix that has an inverse keeps one.                         *)
LEMMA StepNonsingular ==
  ASSUME NEW a \in [Row -> Vector], col \in Row, NEW p \in Row, a[p][col] # {}, Nonsingular(a)
  PROVE  Nonsingular(Step(a, p, Swapped(a, p)))
<1> DEFINE s == Swapped(a, p)
           e == Step(a, p, s)
           v == a[p][col]
           q == gf_inv_table[s[col][col]]
<1>1. /\ s \in [Row -> Vector] /\ s[col] = a[p] /\ s[p] = a[col]
      /\ \A r \in Row \ {col, p} : s[r] = a[r]
  BY SwappedRows
<1>2. v \in Element
  BY DEF Row, Vector
<1>3. q \in Element /\ Mul(v, q) = {0}
  BY <1>1, <1>2, InverseMultiplies
<1>4. s[col][col] # {}
  BY <1>1
<1> HIDE DEF v
<1>5. /\ \A x \in Vector : Dot(e[col], x) = Mul(q, Dot(a[p], x))
      /\ \A x \in Vector, r \in Row \ {col} : Dot(e[r], x) = Xor(Dot(s[r], x), Mul(s[r][col], Dot(e[col], x)))
  BY <1>1, <1>4, StepRows, SMTT(30)
<1> HIDE DEF s
<1>6. \A r \in Row : s[r][col] \in Element
  BY <1>1 DEF Row, Vector
<1> HIDE DEF e, q
<1>7. ASSUME NEW y \in Vector, \A r \in Row : Dot(e[r], y) = {}
      PROVE  \A c \in Row : y[c] = {}
  <2> DEFINE d == Dot(a[p], y)
  <2>1. d \in Element /\ Mul(q, d) = {}
    BY <1>5, <1>7, DotElement
  <2>2. d = {}
    <3> HIDE DEF d
    <3>1. Mul(v, Mul(q, d)) = Mul(Mul(v, q), d)
      <4>1. v \in Element /\ q \in Element /\ d \in Element
        BY <1>2, <1>3, <2>1
      <4> QED
        BY ONLY <4>1, MulAssociates, Zenon
    <3>2. Mul({0}, d) = d /\ Mul(v, {}) = {}
      BY <1>2, <2>1, MulOne
    <3> QED
      BY <1>3, <2>1, <3>1, <3>2
  <2>3. ASSUME NEW r \in Row \ {col}
        PROVE  Dot(s[r], y) = {}
    <3>1. Xor(Dot(s[r], y), Mul(s[r][col], {})) = {}
      BY <1>5, <1>7
    <3>2. Mul(s[r][col], {}) = {}
      BY <1>6, MulOne
    <3>3. Xor(Dot(s[r], y), {}) = Dot(s[r], y)
      BY DEF Xor
    <3> QED
      BY <3>1, <3>2, <3>3
  <2>4. ASSUME NEW r \in Row
        PROVE  Dot(a[r], y) = {}
    <3>1. CASE r = p
      BY <2>2, <3>1
    <3>2. CASE r # p /\ r = col
      BY <1>1, <2>3, <3>2
    <3>3. CASE r # p /\ r # col
      BY <1>1, <2>3, <3>3
    <3> QED
      BY <3>1, <3>2, <3>3
  <2> QED
    BY <2>4 DEF Nonsingular
<1> QED
  BY <1>7 DEF Nonsingular, e, s

(* Without a pivot in column n, a vector that is not zero would be mapped  *)
(* to zero: the column with a one in its own place.                        *)
LEMMA PivotExists ==
  ASSUME NEW a \in [Row -> Vector], NEW n \in Row, Unit(a, n), Nonsingular(a)
  PROVE  \E r \in n .. 3 : a[r][n] # {}
<1> SUFFICES ASSUME \A r \in n .. 3 : a[r][n] = {}
             PROVE  FALSE
  OBVIOUS
<1> DEFINE y == [c \in 0 .. 3 |-> IF c < n THEN a[c][n] ELSE IF c = n THEN {0} ELSE {}]
           m(r, c) == Mul(a[r][c], y[c])
<1>1. /\ n \in 0 .. 3 /\ \A r \in Row : r \in 0 .. 3 /\ a[r] \in Vector
      /\ \A r \in Row, c \in 0 .. 3 : a[r][c] \in Element
      /\ {} \in Element /\ {0} \in Element
  BY DEF Row, Vector, Element, Block
<1>2. y \in Vector
  BY <1>1 DEF Row, Vector
<1>3. ASSUME NEW r \in Row, NEW c \in 0 .. 3
      PROVE  m(r, c) = IF r < n /\ (c = r \/ c = n) THEN a[r][n] ELSE {}
  <2>1. a[r][c] \in Element /\ y[c] \in Element
    BY <1>1, <1>2 DEF Vector
  <2>2. CASE c > n
    <3>1. y[c] = {}
      BY <1>1, <2>2
    <3>2. m(r, c) = {}
      BY <2>1, <3>1, MulOne
    <3> QED
      BY <1>1, <2>2, <3>2
  <2>3. CASE c = n
    <3>1. y[c] = {0}
      BY <1>1, <2>3
    <3>2. m(r, c) = a[r][n]
      BY <2>1, <2>3, <3>1, MulOne
    <3>3. r < n \/ r \in n .. 3
      BY <1>1
    <3> QED
      BY <1>1, <2>3, <3>2, <3>3
  <2>4. CASE c < n
    <3>1. c \in Row /\ a[r][c] = IF r = c THEN {0} ELSE {}
      BY <2>4 DEF Unit, Row
    <3>2. CASE r = c
      <4>1. y[c] = a[r][n] /\ a[r][c] = {0}
        BY <2>4, <3>1, <3>2
      <4>2. m(r, c) = a[r][n]
        BY <2>1, <4>1, MulOne
      <4> QED
        BY <2>4, <3>2, <4>2
    <3>3. CASE r # c
      <4>1. m(r, c) = {}
        BY <2>1, <3>1, <3>3, MulOne
      <4>2. ~(c = r \/ c = n)
        BY <1>1, <2>4, <3>3
      <4> QED
        BY ONLY <4>1, <4>2
    <3> QED
      BY <3>2, <3>3
  <2> QED
    BY <1>1, <2>2, <2>3, <2>4
<1> HIDE DEF m
<1>4. ASSUME NEW r \in Row
      PROVE  Dot(a[r], y) = {}
  <2>1. Dot(a[r], y) = Xor(Xor(m(r, 0), m(r, 1)), Xor(m(r, 2), m(r, 3)))
    BY DEF Dot, m
  <2>2. /\ Xor({}, {}) = {} /\ Xor(a[r][n], a[r][n]) = {}
        /\ Xor({}, a[r][n]) = a[r][n] /\ Xor(a[r][n], {}) = a[r][n]
    BY DEF Xor
  <2>3. n \in 0 .. 3 /\ r \in 0 .. 3
    BY <1>1
  <2> HIDE DEF y
  <2>4. CASE ~(r < n)
    <3>1. m(r, 0) = {} /\ m(r, 1) = {} /\ m(r, 2) = {} /\ m(r, 3) = {}
      BY <1>3, <2>4
    <3> QED
      BY <2>1, <2>2, <3>1
  <2>5. CASE r < n
    <3>1. \A c \in 0 .. 3 : m(r, c) = IF c = r \/ c = n THEN a[r][n] ELSE {}
      BY <1>3, <2>5
    <3>2. (r = 0 \/ r = 1 \/ r = 2) /\ (n = 1 \/ n = 2 \/ n = 3)
      BY <2>3, <2>5
    <3> DEFINE v == a[r][n]
    <3> HIDE DEF v
    <3>3. /\ m(r, 0) = IF 0 = r \/ 0 = n THEN v ELSE {}
          /\ m(r, 1) = IF 1 = r \/ 1 = n THEN v ELSE {}
          /\ m(r, 2) = IF 2 = r \/ 2 = n THEN v ELSE {}
          /\ m(r, 3) = IF 3 = r \/ 3 = n THEN v ELSE {}
      BY <3>1 DEF v
    <3>4. Xor({}, {}) = {} /\ Xor(v, v) = {} /\ Xor({}, v) = v /\ Xor(v, {}) = v
      BY <2>2 DEF v
    <3> QED
      BY ONLY <2>1, r < n, <3>2, <3>3, <3>4
  <2> QED
    BY <2>4, <2>5
<1>5. y[n] = {}
  BY <1>2, <1>4 DEF Nonsingular
<1>6. y[n] = {0}
  BY <1>1
<1> QED
  BY <1>5, <1>6

(* The identity maps a vector to itself.                                   *)
LEMMA UnitDone ==
  ASSUME NEW a \in [Row -> Vector], Unit(a, 4), NEW x \in Vector, NEW r \in Row
  PROVE  Dot(a[r], x) = x[r]
<1>1. r \in 0 .. 3 /\ \A c \in 0 .. 3 : a[r][c] = IF r = c THEN {0} ELSE {}
  <2>1. \A c \in 0 .. 3 : c < 4
    OBVIOUS
  <2> QED
    BY <2>1 DEF Unit, Row
<1>2. \A c \in 0 .. 3 : x[c] \in Element
  BY DEF Vector
<1>3. \A c \in 0 .. 3 : Mul({0}, x[c]) = x[c] /\ Mul({}, x[c]) = {}
  BY <1>2, MulOne
<1>4. \A c \in 0 .. 3 : Mul(a[r][c], x[c]) = IF c = r THEN x[r] ELSE {}
  BY <1>1, <1>3
<1>5. Xor({}, {}) = {} /\ Xor({}, x[r]) = x[r] /\ Xor(x[r], {}) = x[r]
  BY DEF Xor
<1>6. r = 0 \/ r = 1 \/ r = 2 \/ r = 3
  BY <1>1
<1> QED
  BY <1>4, <1>5, <1>6 DEF Dot

-----------------------------------------------------------------------------
(* The packets of a word z that put a 1 into block k of parity packet i:   *)
(* of the data packets, and of some of the twelve.                         *)
Ones(i, k, z) == {j \in 0 .. 7 : k \in Mul(Coefficient[i][j], z[j])}
OnesOf(lost, i, k, z) == {j \in lost : k \in Mul(Coefficient[i][j], z[j])}

(* The columns of the parity packets are those of the identity, and the    *)
(* first parity packet takes every data packet once.                       *)
LEMMA CoefficientElements ==
  ASSUME NEW i \in Row
  PROVE  /\ \A j \in 0 .. 11 : Coefficient[i][j] \in Element
         /\ \A j \in 8 .. 11 : Coefficient[i][j] = IF j = 8 + i THEN {0} ELSE {}
         /\ \A j \in 0 .. 7 : Coefficient[0][j] = {0}
<1>1. \A j \in 0 .. 11 : Coefficient[i][j] = Bits(gf_matrix[i + 1][j + 1])
  BY DEF Coefficient
<1>2. \A n \in 0 .. 15 : Bits(n) \in Element
  BY DEF Bits, Element
<1>3. ASSUME NEW j \in 8 .. 11
      PROVE  gf_matrix[i + 1][j + 1] = IF j = 8 + i THEN 1 ELSE 0
  BY DEF gf_matrix, Row
<1>4. ASSUME NEW j \in 0 .. 7
      PROVE  gf_matrix[0 + 1][j + 1] = 1 /\ Coefficient[0][j] = Bits(gf_matrix[0 + 1][j + 1])
  BY DEF gf_matrix, Coefficient, Row
<1>5. \A j \in 0 .. 11 : Bits(gf_matrix[i + 1][j + 1]) \in Element
  <2>1. ASSUME NEW j \in 0 .. 7 PROVE Bits(gf_matrix[i + 1][j + 1]) \in Element
    BY <1>2, CoefficientIs
  <2>2. ASSUME NEW j \in 8 .. 11 PROVE Bits(gf_matrix[i + 1][j + 1]) \in Element
    BY <1>2, <1>3
  <2> QED
    BY <2>1, <2>2
<1>6. Bits(0) = {} /\ Bits(1) = {0}
  BY BitsOf
<1>7. \A j \in 8 .. 11 : Coefficient[i][j] = IF j = 8 + i THEN {0} ELSE {}
  BY <1>1, <1>3, <1>6
<1>8. \A j \in 0 .. 7 : Coefficient[0][j] = {0}
  BY <1>4, <1>6
<1>9. \A j \in 0 .. 11 : Coefficient[i][j] \in Element
  BY <1>1, <1>5
<1> QED
  BY <1>7, <1>8, <1>9

(* Among the packets that are lost, a parity packet counts for itself.     *)
LEMMA LostSum ==
  ASSUME NEW z \in [0 .. 11 -> Element], NEW lost \in SUBSET (0 .. 11), NEW i \in Row, NEW k \in Block
  PROVE  Odd(OnesOf(lost, i, k, z)) <=> ~(Odd(Ones(i, k, z) \cap lost) <=> (8 + i \in lost /\ k \in z[8 + i]))
<1> DEFINE A == Ones(i, k, z) \cap lost
           T == OnesOf(lost, i, k, z)
<1>1. IsFiniteSet(A) /\ 8 + i \notin A /\ 8 + i \in 8 .. 11
  <2>1. A \in SUBSET (0 .. 7)
    BY DEF Ones
  <2>3. IsFiniteSet(0 .. 7)
    BY 0 \in Int, 7 \in Int, FS_Interval, Zenon
  <2>2. 8 + i \notin 0 .. 7 /\ 8 + i \in 8 .. 11
    BY DEF Row
  <2> HIDE DEF A
  <2> QED
    BY <2>1, <2>2, <2>3, FS_Subset
<1>2. ASSUME NEW j \in 8 .. 11
      PROVE  Mul(Coefficient[i][j], z[j]) = IF j = 8 + i THEN z[j] ELSE {}
  <2>1. Coefficient[i][j] = IF j = 8 + i THEN {0} ELSE {}
    BY CoefficientElements
  <2>2. z[j] \in Element
    OBVIOUS
  <2>3. Mul({0}, z[j]) = z[j] /\ Mul({}, z[j]) = {}
    BY <2>2, MulOne
  <2> QED
    BY <2>1, <2>3
<1>3. ASSUME NEW j
      PROVE  j \in T <=> j \in A \/ (j = 8 + i /\ 8 + i \in lost /\ k \in z[8 + i])
  <2>1. j \in T <=> j \in lost /\ k \in Mul(Coefficient[i][j], z[j])
    BY DEF OnesOf
  <2>2. j \in A <=> j \in lost /\ j \in 0 .. 7 /\ k \in Mul(Coefficient[i][j], z[j])
    BY DEF Ones
  <2>3. j \in lost => j \in 0 .. 7 \/ j \in 8 .. 11
    OBVIOUS
  <2>4. j \in 8 .. 11 => j \notin 0 .. 7
    OBVIOUS
  <2> HIDE DEF T, A
  <2> QED
    BY <1>1, <1>2, <2>1, <2>2, <2>3, <2>4
<1> HIDE DEF T, A
<1>4. CASE 8 + i \in lost /\ k \in z[8 + i]
  <2>1. T = A \cup {8 + i}
    BY <1>3, <1>4
  <2>2. Odd(T) <=> ~Odd(A)
    BY <1>1, <2>1, OddAdd
  <2> QED
    BY <1>4, <2>2 DEF T, A
<1>5. CASE ~(8 + i \in lost /\ k \in z[8 + i])
  <2>1. T = A
    BY <1>3, <1>5
  <2> QED
    BY <1>5, <2>1 DEF T, A
<1> QED
  BY <1>4, <1>5

LEMMA OddHalf ==
  ASSUME NEW n \in Nat, NEW S \in SUBSET {n, n + 1, n + 2, n + 3}
  PROVE  Odd(S) <=> OddOf(n \in S, n + 1 \in S, n + 2 \in S, n + 3 \in S)
<1> DEFINE w == n  x == n + 1  y == n + 2  z == n + 3
<1>1. w # x /\ w # y /\ w # z /\ x # y /\ x # z /\ y # z
  OBVIOUS
<1>2. S \subseteq {w, x, y, z}
  OBVIOUS
<1> HIDE DEF w, x, y, z
<1>3. Odd(S) <=> OddOf(w \in S, x \in S, y \in S, z \in S)
  BY ONLY <1>1, <1>2, OddFour, Zenon
<1> QED
  BY <1>3 DEF w, x, y, z

(* The parity of a set of data packets, four at a time.                    *)
LEMMA OddEight ==
  ASSUME NEW S \in SUBSET (0 .. 7)
  PROVE  Odd(S) <=> ~(OddOf(0 \in S, 1 \in S, 2 \in S, 3 \in S) <=>
                      OddOf(4 \in S, 5 \in S, 6 \in S, 7 \in S))
<1> DEFINE L == S \cap 0 .. 3
           H == S \cap 4 .. 7
<1>1. L \subseteq {0, 1, 2, 3} /\ H \subseteq {4, 5, 6, 7}
  <2>1. 0 .. 3 = {0, 1, 2, 3} /\ 4 .. 7 = {4, 5, 6, 7}
    OBVIOUS
  <2> QED
    BY <2>1
<1>2. /\ (0 \in L <=> 0 \in S) /\ (1 \in L <=> 1 \in S) /\ (2 \in L <=> 2 \in S) /\ (3 \in L <=> 3 \in S)
      /\ (4 \in H <=> 4 \in S) /\ (5 \in H <=> 5 \in S) /\ (6 \in H <=> 6 \in S) /\ (7 \in H <=> 7 \in S)
  OBVIOUS
<1>3. S = L \cup H /\ L \cap H = {}
  <2>1. \A x \in 0 .. 7 : x \in 0 .. 3 <=> x \notin 4 .. 7
    OBVIOUS
  <2> QED
    BY <2>1
<1>4. IsFiniteSet(L) /\ IsFiniteSet(H)
  <2>1. IsFiniteSet(0 .. 3) /\ IsFiniteSet(4 .. 7)
    BY 0 \in Int, 3 \in Int, 4 \in Int, 7 \in Int, FS_Interval, Zenon
  <2>2. L \in SUBSET (0 .. 3) /\ H \in SUBSET (4 .. 7)
    OBVIOUS
  <2> HIDE DEF L, H
  <2> QED
    BY <2>1, <2>2, FS_Subset
<1> HIDE DEF L, H
<1>5. Odd(L) <=> OddOf(0 \in L, 1 \in L, 2 \in L, 3 \in L)
  <2>1. 0 # 1 /\ 0 # 2 /\ 0 # 3 /\ 1 # 2 /\ 1 # 3 /\ 2 # 3
    OBVIOUS
  <2> QED
    BY ONLY <1>1, <2>1, OddFour, Zenon
<1>6. Odd(H) <=> OddOf(4 \in H, 5 \in H, 6 \in H, 7 \in H)
  <2>1. 4 \in Nat /\ 4 + 1 = 5 /\ 4 + 2 = 6 /\ 4 + 3 = 7
    OBVIOUS
  <2>2. H \in SUBSET {4, 4 + 1, 4 + 2, 4 + 3}
    BY <1>1, <2>1
  <2>3. Odd(H) <=> OddOf(4 \in H, 4 + 1 \in H, 4 + 2 \in H, 4 + 3 \in H)
    BY ONLY <2>1, <2>2, OddHalf, Zenon
  <2> QED
    BY <2>1, <2>3
<1>7. Odd(S) <=> ~(Odd(L) <=> Odd(H))
  BY <1>3, <1>4, OddUnion
<1> QED
  BY <1>2, <1>5, <1>6, <1>7 DEF OddOf

LEMMA OnesParity ==
  ASSUME NEW i, NEW k, NEW z
  PROVE  Odd(Ones(i, k, z)) <=> Parity(i, k, z)
<1> DEFINE A == Ones(i, k, z)
<1>1. A \in SUBSET (0 .. 7)
  BY DEF Ones
<1>2. \A j \in 0 .. 7 : j \in A <=> k \in Mul(Coefficient[i][j], z[j])
  BY DEF Ones
<1> HIDE DEF A
<1>3. Odd(A) <=> ~(OddOf(0 \in A, 1 \in A, 2 \in A, 3 \in A) <=>
                   OddOf(4 \in A, 5 \in A, 6 \in A, 7 \in A))
  BY <1>1, OddEight
<1> QED
  BY <1>2, <1>3 DEF Parity, OddOf, A

-----------------------------------------------------------------------------
(* The four packets that are lost, in turn.                                *)
LEMMA FourMarks ==
  ASSUME NEW lost \in Lost
  PROVE  /\ lost \in SUBSET (0 .. 11) /\ lost \in SUBSET Int /\ IsFiniteSet(lost)
         /\ \A c \in 0 .. 3 : Nth(lost, c) \in lost /\ Cardinality(Below(lost, Nth(lost, c))) = c
         /\ \A x \in lost : /\ Cardinality(Below(lost, x)) \in 0 .. 3
                            /\ Nth(lost, Cardinality(Below(lost, x))) = x
         /\ lost = {Nth(lost, 0), Nth(lost, 1), Nth(lost, 2), Nth(lost, 3)}
         /\ Nth(lost, 0) # Nth(lost, 1) /\ Nth(lost, 0) # Nth(lost, 2) /\ Nth(lost, 0) # Nth(lost, 3)
         /\ Nth(lost, 1) # Nth(lost, 2) /\ Nth(lost, 1) # Nth(lost, 3) /\ Nth(lost, 2) # Nth(lost, 3)
<1>1. lost \in SUBSET (0 .. 11) /\ Cardinality(lost) = 4
  BY DEF Lost
<1>2. IsFiniteSet(lost)
  <2>1. IsFiniteSet(0 .. 11)
    BY 0 \in Int, 11 \in Int, FS_Interval, Zenon
  <2> QED
    BY <1>1, <2>1, FS_Subset
<1>3. lost \in SUBSET Int
  BY <1>1
<1>4. Cardinality(lost) - 1 = 3
  BY <1>1
<1>5. /\ \A c \in 0 .. 3 : Nth(lost, c) \in lost /\ Cardinality(Below(lost, Nth(lost, c))) = c
      /\ \A x \in lost : /\ Cardinality(Below(lost, x)) \in 0 .. 3
                         /\ Nth(lost, Cardinality(Below(lost, x))) = x
  <2>1. /\ \A c \in 0 .. Cardinality(lost) - 1 :
             Nth(lost, c) \in lost /\ Cardinality(Below(lost, Nth(lost, c))) = c
        /\ \A x \in lost : /\ Cardinality(Below(lost, x)) \in 0 .. Cardinality(lost) - 1
                           /\ Nth(lost, Cardinality(Below(lost, x))) = x
    BY <1>2, <1>3, NthPlace
  <2> QED
    BY <1>4, <2>1
<1>6. lost = {Nth(lost, 0), Nth(lost, 1), Nth(lost, 2), Nth(lost, 3)}
  <2>1. ASSUME NEW x \in lost
        PROVE  x \in {Nth(lost, 0), Nth(lost, 1), Nth(lost, 2), Nth(lost, 3)}
    <3> DEFINE c == Cardinality(Below(lost, x))
    <3>1. c \in 0 .. 3 /\ Nth(lost, c) = x
      BY <1>5
    <3> HIDE DEF c
    <3>2. c = 0 \/ c = 1 \/ c = 2 \/ c = 3
      BY <3>1
    <3> QED
      BY <3>1, <3>2
  <2>2. Nth(lost, 0) \in lost /\ Nth(lost, 1) \in lost /\ Nth(lost, 2) \in lost /\ Nth(lost, 3) \in lost
    BY <1>5
  <2> QED
    BY <2>1, <2>2
<1>7. /\ Nth(lost, 0) # Nth(lost, 1) /\ Nth(lost, 0) # Nth(lost, 2) /\ Nth(lost, 0) # Nth(lost, 3)
      /\ Nth(lost, 1) # Nth(lost, 2) /\ Nth(lost, 1) # Nth(lost, 3) /\ Nth(lost, 2) # Nth(lost, 3)
  <2>1. /\ Cardinality(Below(lost, Nth(lost, 0))) = 0 /\ Cardinality(Below(lost, Nth(lost, 1))) = 1
        /\ Cardinality(Below(lost, Nth(lost, 2))) = 2 /\ Cardinality(Below(lost, Nth(lost, 3))) = 3
    BY <1>5
  <2> QED
    BY <2>1
<1> QED
  BY <1>1, <1>2, <1>3, <1>5, <1>6, <1>7

(* The matrix of their coefficients, and what a word has in their places.  *)
LostMatrix(lost) == [r \in Row |-> [c \in 0 .. 3 |-> Coefficient[r][Nth(lost, c)]]]
LostOf(lost, z) == [c \in 0 .. 3 |-> z[Nth(lost, c)]]

LEMMA LostVectors ==
  ASSUME NEW lost \in Lost, NEW z \in [0 .. 11 -> Element]
  PROVE  LostMatrix(lost) \in [Row -> Vector] /\ LostOf(lost, z) \in Vector
<1>1. \A c \in 0 .. 3 : Nth(lost, c) \in 0 .. 11
  BY FourMarks
<1>2. \A r \in Row, j \in 0 .. 11 : Coefficient[r][j] \in Element
  BY CoefficientElements
<1> QED
  BY <1>1, <1>2 DEF LostMatrix, LostOf, Vector

(* The sum over the lost packets is a row of their matrix times the vector *)
(* of what they hold.                                                      *)
LEMMA LostDot ==
  ASSUME NEW lost \in Lost, NEW z \in [0 .. 11 -> Element], NEW i \in Row
  PROVE  /\ XorOf([j \in lost |-> Mul(Coefficient[i][j], z[j])])
              = Dot(LostMatrix(lost)[i], LostOf(lost, z))
         /\ \A k \in Block : k \in Dot(LostMatrix(lost)[i], LostOf(lost, z))
                               <=> Odd(OnesOf(lost, i, k, z))
<1> DEFINE f == [j \in lost |-> Mul(Coefficient[i][j], z[j])]
           w == Nth(lost, 0)
           x == Nth(lost, 1)
           y == Nth(lost, 2)
           v == Nth(lost, 3)
<1>1. /\ lost \in SUBSET (0 .. 11)
      /\ w \in lost /\ x \in lost /\ y \in lost /\ v \in lost /\ lost = {w, x, y, v}
      /\ w # x /\ w # y /\ w # v /\ x # y /\ x # v /\ y # v
  BY FourMarks
<1>2. f \in [lost -> Element]
  <2>1. \A j \in 0 .. 11 : Coefficient[i][j] \in Element /\ z[j] \in Element
    BY CoefficientElements
  <2> QED
    BY <1>1, <2>1, MulElement
<1>3. /\ f[w] = Mul(Coefficient[i][w], z[w]) /\ f[x] = Mul(Coefficient[i][x], z[x])
      /\ f[y] = Mul(Coefficient[i][y], z[y]) /\ f[v] = Mul(Coefficient[i][v], z[v])
  BY <1>1
<1>4. Dot(LostMatrix(lost)[i], LostOf(lost, z)) = Xor(Xor(f[w], f[x]), Xor(f[y], f[v]))
  <2>1. /\ LostMatrix(lost)[i][0] = Coefficient[i][w] /\ LostMatrix(lost)[i][1] = Coefficient[i][x]
        /\ LostMatrix(lost)[i][2] = Coefficient[i][y] /\ LostMatrix(lost)[i][3] = Coefficient[i][v]
        /\ LostOf(lost, z)[0] = z[w] /\ LostOf(lost, z)[1] = z[x]
        /\ LostOf(lost, z)[2] = z[y] /\ LostOf(lost, z)[3] = z[v]
    BY DEF LostMatrix, LostOf
  <2> HIDE DEF f, w, x, y, v
  <2> QED
    BY <1>3, <2>1 DEF Dot
<1>5. \A k \in Block : k \in XorOf(f) <=> Odd(OnesOf(lost, i, k, z))
  <2>1. ASSUME NEW k \in Block
        PROVE  {j \in DOMAIN f : k \in f[j]} = OnesOf(lost, i, k, z)
    BY DEF OnesOf
  <2>2. ASSUME NEW k \in Block
        PROVE  k \in XorOf(f) <=> Odd({j \in DOMAIN f : k \in f[j]})
    BY DEF XorOf
  <2> QED
    BY <2>1, <2>2
<1> HIDE DEF f, w, x, y, v
<1>6. ASSUME NEW k \in Block
      PROVE  k \in XorOf(f) <=> k \in Xor(Xor(f[w], f[x]), Xor(f[y], f[v]))
  <2> DEFINE S == OnesOf(lost, i, k, z)
  <2>1. /\ S \subseteq {w, x, y, v}
        /\ w \in S <=> k \in f[w]
        /\ x \in S <=> k \in f[x]
        /\ y \in S <=> k \in f[y]
        /\ v \in S <=> k \in f[v]
    BY <1>1, <1>3 DEF OnesOf
  <2> HIDE DEF S
  <2>2. Odd(S) <=> OddOf(w \in S, x \in S, y \in S, v \in S)
    <3>1. w # x /\ w # y /\ w # v /\ x # y /\ x # v /\ y # v
      BY <1>1
    <3>2. S \subseteq {w, x, y, v}
      BY <2>1
    <3> QED
      BY ONLY <3>1, <3>2, OddFour, Zenon
  <2>3. k \in Xor(Xor(f[w], f[x]), Xor(f[y], f[v]))
          <=> ~(~(k \in f[w] <=> k \in f[x]) <=> ~(k \in f[y] <=> k \in f[v]))
    BY XorMembers
  <2> QED
    BY <1>5, <2>1, <2>2, <2>3 DEF OddOf, S
<1>7. XorOf(f) = Xor(Xor(f[w], f[x]), Xor(f[y], f[v]))
  <2>1. XorOf(f) \in Element
    BY DEF XorOf, Element
  <2>2. Xor(Xor(f[w], f[x]), Xor(f[y], f[v])) \in Element
    BY <1>1, <1>2, XorElement
  <2> QED
    BY <1>6, <2>1, <2>2 DEF Element
<1> QED
  BY <1>4, <1>5, <1>7 DEF f

(* The code has distance 5: whatever four packets are lost, their matrix   *)
(* is not singular.                                                        *)
THEOREM LostNonsingular ==
  ASSUME NEW lost \in Lost
  PROVE  Nonsingular(LostMatrix(lost))
<1> SUFFICES ASSUME NEW y \in Vector, \A r \in Row : Dot(LostMatrix(lost)[r], y) = {}
             PROVE  \A c \in Row : y[c] = {}
  BY DEF Nonsingular
<1> DEFINE a == Nth(lost, 0)
           b == Nth(lost, 1)
           c == Nth(lost, 2)
           d == Nth(lost, 3)
           z == [j \in 0 .. 11 |-> IF j \in lost THEN y[Cardinality(Below(lost, j))] ELSE {}]
<1>1. /\ lost \in SUBSET (0 .. 11) /\ lost = {a, b, c, d}
      /\ a \in Int /\ b \in Int /\ c \in Int /\ d \in Int
  BY FourMarks
<1>2. z \in [0 .. 11 -> Element]
  <2>1. \A j \in lost : Cardinality(Below(lost, j)) \in 0 .. 3
    BY FourMarks
  <2>2. {} \in Element /\ \A n \in 0 .. 3 : y[n] \in Element
    BY DEF Element, Vector
  <2> QED
    BY <2>1, <2>2
<1>3. \A n \in 0 .. 3 : z[Nth(lost, n)] = y[n]
  <2>1. \A n \in 0 .. 3 : Nth(lost, n) \in lost /\ Cardinality(Below(lost, Nth(lost, n))) = n
    BY FourMarks
  <2> QED
    BY <1>1, <2>1
<1>4. \A j \in 0 .. 11 : j \notin lost => z[j] = {}
  OBVIOUS
<1> HIDE DEF z
<1>5. LostOf(lost, z) = y
  BY <1>3 DEF LostOf, Vector
<1>6. ASSUME NEW i \in Row, NEW k \in Block
      PROVE  k \in z[8 + i] <=> Parity(i, k, z)
  <2>1. ~Odd(OnesOf(lost, i, k, z))
    <3>1. Dot(LostMatrix(lost)[i], LostOf(lost, z)) = {}
      BY <1>5
    <3>2. k \in Dot(LostMatrix(lost)[i], LostOf(lost, z)) <=> Odd(OnesOf(lost, i, k, z))
      BY <1>2, LostDot
    <3> QED
      BY <3>1, <3>2
  <2>2. Odd(OnesOf(lost, i, k, z)) <=> ~(Odd(Ones(i, k, z) \cap lost) <=> (8 + i \in lost /\ k \in z[8 + i]))
    BY <1>1, <1>2, LostSum
  <2>3. Ones(i, k, z) \cap lost = Ones(i, k, z)
    <3>1. ASSUME NEW j \in 0 .. 7, j \notin lost
          PROVE  Mul(Coefficient[i][j], z[j]) = {}
      <4>1. z[j] = {} /\ Coefficient[i][j] \in Element
        BY <1>4, <3>1, CoefficientElements
      <4> QED
        BY <4>1, MulOne
    <3> QED
      BY <3>1 DEF Ones
  <2>4. 8 + i \in 0 .. 11
    BY DEF Row
  <2>5. Odd(Ones(i, k, z)) <=> k \in z[8 + i]
    BY <1>4, <2>1, <2>2, <2>3, <2>4
  <2> QED
    BY <2>5, OnesParity
<1>7. \A j \in 0 .. 11 : z[j] = {}
  <2>1. \A j \in 0 .. 11 : z[j] # {} => j \in {a, b, c, d}
    BY <1>1, <1>4
  <2> HIDE DEF a, b, c, d
  <2> QED
    BY <1>1, <1>2, <1>6, <2>1, Distance
<1>8. \A n \in 0 .. 3 : Nth(lost, n) \in 0 .. 11
  BY FourMarks
<1> QED
  BY <1>3, <1>7, <1>8 DEF Row

-----------------------------------------------------------------------------
(* What the data packets that are there come to in gf_fun.                 *)
FunSum(i, p, lost) == XorOf([j \in (0 .. 7) \ lost |-> FunOf(i, j, p[j])])

(* gf_fun, one parity packet at a time.                                    *)
LEMMA GfFunIs ==
  ASSUME NEW p, NEW lost, NEW i \in Row
  PROVE  gf_fun(p, lost)[i] = Xor(FunSum(i, p, lost), IF 8 + i \in lost THEN {} ELSE p[8 + i])
  BY DEF gf_fun, FunSum, FunOf

(* The exclusive ors that gf_fun writes down add up the products.          *)
LEMMA FunSumBits ==
  ASSUME NEW p, \A j \in 0 .. 7 : p[j] \in Element, NEW lost, NEW i \in Row
  PROVE  /\ FunSum(i, p, lost) \in Element
         /\ \A k \in Block : k \in FunSum(i, p, lost) <=> Odd(Ones(i, k, p) \ lost)
<1> DEFINE f == [j \in (0 .. 7) \ lost |-> FunOf(i, j, p[j])]
<1>1. \A j \in 0 .. 7 : FunOf(i, j, p[j]) = Mul(Coefficient[i][j], p[j])
  BY FunTimes
<1>2. ASSUME NEW k \in Block
      PROVE  {j \in DOMAIN f : k \in f[j]} = Ones(i, k, p) \ lost
  <2>1. DOMAIN f = (0 .. 7) \ lost /\ \A j \in (0 .. 7) \ lost : f[j] = Mul(Coefficient[i][j], p[j])
    BY <1>1
  <2> HIDE DEF f
  <2> QED
    BY <2>1 DEF Ones
<1> HIDE DEF f
<1>3. XorOf(f) \in Element /\ \A k \in Block : k \in XorOf(f) <=> Odd(Ones(i, k, p) \ lost)
  BY <1>2 DEF XorOf, Element
<1> QED
  BY <1>3 DEF FunSum, f

LEMMA GfFunElements ==
  ASSUME NEW p \in [0 .. 11 -> Element], NEW lost
  PROVE  gf_fun(p, lost) \in Vector
<1>1. ASSUME NEW i \in Row
      PROVE  gf_fun(p, lost)[i] \in Element
  <2>1. FunSum(i, p, lost) \in Element
    BY FunSumBits
  <2>2. (IF 8 + i \in lost THEN {} ELSE p[8 + i]) \in Element
    BY DEF Row, Element
  <2> QED
    BY <2>1, <2>2, XorElement, GfFunIs
<1>2. gf_fun(p, lost) = [i \in Row |-> gf_fun(p, lost)[i]]
  BY DEF gf_fun
<1> QED
  BY <1>1, <1>2 DEF Vector, Row

(* A word: each parity packet is what the data packets come to.            *)
Word(z) ==
  /\ z \in [0 .. 11 -> Element]
  /\ \A i \in Row, k \in Block : k \in z[8 + i] <=> Odd(Ones(i, k, z))

LEMMA OnesFinite ==
  ASSUME NEW i, NEW k, NEW z
  PROVE  Ones(i, k, z) \in SUBSET (0 .. 7) /\ IsFiniteSet(Ones(i, k, z))
<1>1. Ones(i, k, z) \in SUBSET (0 .. 7)
  BY DEF Ones
<1>2. IsFiniteSet(0 .. 7)
  BY 0 \in Int, 7 \in Int, FS_Interval, Zenon
<1> QED
  BY <1>1, <1>2, FS_Subset

(* gf_fun leaves of a word what the lost packets come to: each parity      *)
(* packet is zero together with all the packets it is made of.             *)
LEMMA SingularIs ==
  ASSUME NEW z, Word(z), NEW lost \in Lost, NEW i \in Row
  PROVE  gf_fun([j \in 0 .. 11 |-> IF j \in lost THEN {} ELSE z[j]], lost)[i]
           = XorOf([j \in lost |-> Mul(Coefficient[i][j], z[j])])
<1> DEFINE p == [j \in 0 .. 11 |-> IF j \in lost THEN {} ELSE z[j]]
           l == FunSum(i, p, lost)
           q == IF 8 + i \in lost THEN {} ELSE p[8 + i]
           x == XorOf([j \in lost |-> Mul(Coefficient[i][j], z[j])])
<1>1. z \in [0 .. 11 -> Element] /\ lost \in SUBSET (0 .. 11) /\ 8 + i \in 0 .. 11
  BY FourMarks DEF Word, Row
<1>2. p \in [0 .. 11 -> Element] /\ \A j \in (0 .. 11) \ lost : p[j] = z[j]
  BY <1>1 DEF Element
<1>3. q \in Element /\ \A k : k \in q <=> 8 + i \notin lost /\ k \in z[8 + i]
  BY <1>1, <1>2 DEF Element
<1> HIDE DEF p
<1>4. l \in Element /\ \A k \in Block : k \in l <=> Odd(Ones(i, k, p) \ lost)
  BY <1>2, FunSumBits
<1>5. x \in Element /\ \A k \in Block : k \in x <=> Odd(OnesOf(lost, i, k, z))
  <2>1. LostMatrix(lost)[i] \in Vector /\ LostOf(lost, z) \in Vector
    BY <1>1, LostVectors
  <2> QED
    BY <1>1, <2>1, LostDot, DotElement
<1> HIDE DEF l, q, x
<1>6. ASSUME NEW k \in Block
      PROVE  k \in Xor(l, q) <=> k \in x
  <2> DEFINE A == Ones(i, k, z)
             B == A \ lost
             D == A \cap lost
  <2>1. Ones(i, k, p) \ lost = B
    BY <1>2 DEF Ones
  <2>2. Odd(OnesOf(lost, i, k, z)) <=> ~(Odd(D) <=> (8 + i \in lost /\ k \in z[8 + i]))
    BY <1>1, LostSum
  <2>3. k \in z[8 + i] <=> Odd(A)
    BY DEF Word
  <2>4. Odd(A) <=> ~(Odd(B) <=> Odd(D))
    <3>1. IsFiniteSet(B) /\ IsFiniteSet(D)
      BY OnesFinite, FS_Subset
    <3>2. A = B \cup D /\ B \cap D = {}
      OBVIOUS
    <3> HIDE DEF A, B, D
    <3> QED
      BY <3>1, <3>2, OddUnion
  <2>5. k \in Xor(l, q) <=> ~(Odd(B) <=> (8 + i \notin lost /\ k \in z[8 + i]))
    BY <1>3, <1>4, <2>1, XorMembers
  <2> HIDE DEF A, B, D
  <2> QED
    BY <1>5, <2>2, <2>3, <2>4, <2>5
<1>7. Xor(l, q) = x
  <2>1. Xor(l, q) \in Element
    BY <1>3, <1>4, XorElement
  <2> QED
    BY <1>5, <1>6, <2>1 DEF Element
<1> QED
  BY <1>7, GfFunIs DEF l, q, x, p

(* fec_encode makes a word.                                                *)
LEMMA EncodeWord ==
  ASSUME NEW z \in [0 .. 11 -> Element],
         NEW p, \A j \in 0 .. 7 : p[j] = z[j],
         \A i \in Row : z[8 + i] = gf_fun(p, 8 .. 11)[i]
  PROVE  Word(z)
<1>1. ASSUME NEW i \in Row, NEW k \in Block
      PROVE  k \in z[8 + i] <=> Odd(Ones(i, k, z))
  <2>1. 8 + i \in 8 .. 11 /\ \A j \in 0 .. 7 : j \notin 8 .. 11
    BY DEF Row
  <2>2. gf_fun(p, 8 .. 11)[i] = Xor(FunSum(i, p, 8 .. 11), {})
    BY <2>1, GfFunIs
  <2>3. Xor(FunSum(i, p, 8 .. 11), {}) = FunSum(i, p, 8 .. 11)
    BY DEF Xor
  <2>4. k \in FunSum(i, p, 8 .. 11) <=> Odd(Ones(i, k, p) \ (8 .. 11))
    <3>1. \A j \in 0 .. 7 : p[j] \in Element
      OBVIOUS
    <3> QED
      BY <3>1, FunSumBits
  <2>5. Ones(i, k, p) \ (8 .. 11) = Ones(i, k, z)
    BY <2>1 DEF Ones
  <2> QED
    BY <2>2, <2>3, <2>4, <2>5
<1> QED
  BY <1>1 DEF Word

-----------------------------------------------------------------------------
(* recover_packet leaves out the coefficients that are 0, and comes to the *)
(* product of the row with the four packets.                               *)
LEMMA RecoverPacketIs ==
  ASSUME NEW v \in Vector, NEW p \in Vector
  PROVE  recover_packet(v, p) = Dot(v, p)
<1> DEFINE D == {c \in Row : v[c] # {}}
           f == [c \in D |-> Blocks(recover_table(Number[v[c]]), p[c])]
           g == [c \in D |-> Mul(v[c], p[c])]
<1>1. \A c \in 0 .. 3 : v[c] \in Element /\ p[c] \in Element
  BY DEF Vector
<1>2. f = g
  <2>1. \A c \in D : Blocks(recover_table(Number[v[c]]), p[c]) = Mul(v[c], p[c])
    BY <1>1, RecoverTimes DEF Row
  <2> QED
    BY <2>1
<1>3. recover_packet(v, p) = XorOf(g)
  BY <1>2 DEF recover_packet
<1>4. D \in SUBSET (0 .. 3) /\ \A c \in 0 .. 3 : c \in D <=> v[c] # {}
  BY DEF Row
<1>5. g \in [D -> Element] /\ \A c \in D : g[c] = Mul(v[c], p[c])
  BY <1>1, <1>4, MulElement
<1>6. \A c \in 0 .. 3 : c \notin D => Mul(v[c], p[c]) = {}
  BY <1>1, <1>4, MulOne
<1> HIDE DEF D, g
<1>7. /\ XorOf(g) \in Element
      /\ \A k \in Block :
           k \in XorOf(g) <=> OddOf(0 \in D /\ k \in g[0], 1 \in D /\ k \in g[1],
                                    2 \in D /\ k \in g[2], 3 \in D /\ k \in g[3])
  BY <1>4, <1>5, XorOfBits
<1>8. ASSUME NEW k \in Block
      PROVE  k \in XorOf(g) <=> k \in Dot(v, p)
  <2>1. \A c \in 0 .. 3 : (c \in D /\ k \in g[c]) <=> k \in Mul(v[c], p[c])
    BY <1>5, <1>6
  <2>2. /\ (0 \in D /\ k \in g[0]) <=> k \in Mul(v[0], p[0])
        /\ (1 \in D /\ k \in g[1]) <=> k \in Mul(v[1], p[1])
        /\ (2 \in D /\ k \in g[2]) <=> k \in Mul(v[2], p[2])
        /\ (3 \in D /\ k \in g[3]) <=> k \in Mul(v[3], p[3])
    BY <2>1
  <2>3. k \in Dot(v, p) <=> ~(~(k \in Mul(v[0], p[0]) <=> k \in Mul(v[1], p[1])) <=>
                              ~(k \in Mul(v[2], p[2]) <=> k \in Mul(v[3], p[3])))
    BY XorMembers DEF Dot
  <2> QED
    BY <1>7, <2>2, <2>3 DEF OddOf
<1>9. Dot(v, p) \in Element
  BY DotElement
<1> QED
  BY <1>3, <1>7, <1>8, <1>9 DEF Element

(* The first parity packet is the exclusive or of the data packets, so any *)
(* of them is that of all the others and the parity packet.                *)
LEMMA OthersAre ==
  ASSUME NEW z, Word(z), NEW i \in 0 .. 7,
         NEW p, \A j \in (0 .. 8) \ {i} : p[j] = z[j]
  PROVE  XorOf([j \in Others(i) |-> p[j]]) = z[i]
<1> DEFINE f == [j \in Others(i) |-> p[j]]
<1>1. z[i] \in Element /\ XorOf(f) \in Element
  BY DEF Word, XorOf, Element
<1>2. ASSUME NEW k \in Block
      PROVE  k \in XorOf(f) <=> k \in z[i]
  <2> DEFINE A == Ones(0, k, z)
             B == A \ {i}
             T == {j \in DOMAIN f : k \in f[j]}
  <2>1. \A j \in 0 .. 7 : j \in A <=> k \in z[j]
    <3>1. 0 \in Row
      BY DEF Row
    <3>2. \A j \in 0 .. 7 : Coefficient[0][j] = {0}
      BY <3>1, CoefficientElements
    <3>3. \A j \in 0 .. 7 : Mul({0}, z[j]) = z[j]
      BY MulOne DEF Word
    <3> QED
      BY <3>2, <3>3 DEF Ones
  <2>2. A \in SUBSET (0 .. 7) /\ IsFiniteSet(A)
    BY OnesFinite
  <2>3. k \in z[8] <=> Odd(A)
    <3>1. 0 \in Row /\ 8 + 0 = 8
      BY DEF Row
    <3> QED
      BY <3>1 DEF Word
  <2> HIDE DEF A
  <2>4. Odd(B) <=> (i \in A <=> ~Odd(A))
    BY <2>2, OddRemove
  <2>5. IsFiniteSet(B) /\ 8 \notin B
    <3>1. 8 \notin 0 .. 7
      OBVIOUS
    <3> QED
      BY <2>2, <3>1, FS_RemoveElement
  <2>6. \A j : j \in T <=> j \in B \/ (j = 8 /\ k \in z[8])
    <3>1. \A j : j \in T <=> j \in (0 .. 8) \ {i} /\ k \in z[j]
      BY DEF Others
    <3>2. \A j : j \in 0 .. 8 <=> j \in 0 .. 7 \/ j = 8
      OBVIOUS
    <3>3. i # 8
      OBVIOUS
    <3> HIDE DEF T
    <3> QED
      BY <2>1, <2>2, <3>1, <3>2, <3>3
  <2>7. k \in XorOf(f) <=> Odd(T)
    BY DEF XorOf
  <2> HIDE DEF T, B
  <2>8. CASE k \in z[8]
    <3>1. T = B \cup {8}
      BY <2>6, <2>8
    <3>2. Odd(T) <=> ~Odd(B)
      BY <2>5, <3>1, OddAdd
    <3> QED
      BY <2>1, <2>3, <2>4, <2>7, <2>8, <3>2
  <2>9. CASE k \notin z[8]
    <3>1. T = B
      BY <2>6, <2>9
    <3> QED
      BY <2>1, <2>3, <2>4, <2>7, <2>9, <3>1
  <2> QED
    BY <2>8, <2>9
<1> QED
  BY <1>1, <1>2 DEF Element

(* The lost data packets come before the lost parity packets.              *)
LEMMA LostDataPlace ==
  ASSUME NEW lost \in Lost, NEW n \in 0 .. Cardinality(lost \cap 0 .. 7) - 1
  PROVE  /\ n \in 0 .. 3
         /\ Nth(lost \cap 0 .. 7, n) \in lost \cap 0 .. 7
         /\ Nth(lost \cap 0 .. 7, n) = Nth(lost, n)
<1> DEFINE L == lost \cap 0 .. 7
           x == Nth(L, n)
<1>1. /\ lost \in SUBSET Int /\ IsFiniteSet(lost)
      /\ \A y \in lost : /\ Cardinality(Below(lost, y)) \in 0 .. 3
                         /\ Nth(lost, Cardinality(Below(lost, y))) = y
  BY FourMarks
<1>2. L \in SUBSET Int /\ IsFiniteSet(L)
  BY <1>1, FS_Subset
<1> HIDE DEF L
<1>3. n \in 0 .. Cardinality(L) - 1
  BY DEF L
<1>4. x \in L /\ Cardinality(Below(L, x)) = n
  BY <1>2, <1>3, NthPlace
<1> HIDE DEF x
<1>5. Below(L, x) = Below(lost, x)
  <2>1. x \in 0 .. 7
    BY <1>4 DEF L
  <2>2. ASSUME NEW y \in lost, y < x
        PROVE  y \in 0 .. 7
    <3>1. y \in 0 .. 11
      BY FourMarks
    <3> QED
      BY <2>1, <2>2, <3>1
  <2> QED
    BY <2>2 DEF Below, L
<1>6. x \in lost
  BY <1>4 DEF L
<1>7. n \in 0 .. 3 /\ Nth(lost, n) = x
  BY <1>1, <1>4, <1>5, <1>6
<1> QED
  BY <1>4, <1>7 DEF x, L

-----------------------------------------------------------------------------
(* The invariant.  What the variables are ...                              *)
Decoding == pc \in {"invert", "recover"}

TypeInv ==
  /\ pc \in {"encode", "receive", "invert", "recover"}
  /\ sent \in [0 .. 11 -> Element]
  /\ Decoding =>
       /\ marks \in Lost
       /\ packets \in [0 .. 11 -> Element]
       /\ singular \in Vector
       /\ matrix \in [Row -> Vector] /\ inv \in [Row -> Vector]
       /\ lost_data_cnt \in 0 .. Cardinality(LostData)
       /\ pc = "invert" => col \in Row /\ lost_data_cnt = 0
       /\ pc = "recover" => col = 4

(* ... the columns of inverse_matrix that are done, and that there is a    *)
(* solution to what is left ...                                            *)
MatrixInv ==
  Decoding => Unit(matrix, col) /\ (pc = "invert" => Nonsingular(matrix))

(* ... what was sent, unless it was encoded with stale bytes, is a word,   *)
(* both matrices map to the same, one the lost packets and the other what  *)
(* gf_fun left ...                                                         *)
WordInv == pc # "encode" /\ stale = {} => Word(sent)

SolutionInv ==
  Decoding /\ stale = {} =>
    /\ \A i \in Row : singular[i] = XorOf([j \in marks |-> Mul(Coefficient[i][j], sent[j])])
    /\ Same(matrix, LostOf(marks, sent), inv, singular)

(* ... and the packets that arrived, and those that are recovered, are     *)
(* those that were sent.                                                   *)
Here(j) == j \notin marks \/ (j \in LostData /\ Cardinality(Below(LostData, j)) < lost_data_cnt)
PacketsInv ==
  Decoding /\ stale = {} => \A j \in 0 .. 11 : Here(j) => packets[j] = sent[j]

Inv == TypeInv /\ MatrixInv /\ WordInv /\ SolutionInv /\ PacketsInv

(* The invariant holds at the start, and each action keeps it.             *)
LEMMA InitInv == Init => Inv
<1> SUFFICES ASSUME Init PROVE Inv
  OBVIOUS
<1>1. sent \in [0 .. 11 -> Element]
  <2>1. PICK g \in Group : sent = [j \in 0 .. 11 |-> IF j < 8 THEN g[1][j] ELSE {}]
    BY DEF Init
  <2>2. g[1] \in [0 .. 7 -> SUBSET Block]
    BY Fec84Assumption
  <2>3. ASSUME NEW j \in 0 .. 11
        PROVE  (IF j < 8 THEN g[1][j] ELSE {}) \in Element
    <3>1. CASE j < 8
      <4>1. j \in 0 .. 7
        BY <3>1
      <4> QED
        BY <2>2, <3>1, <4>1 DEF Element
    <3>2. CASE ~(j < 8)
      BY <3>2 DEF Element
    <3> QED
      BY <3>1, <3>2
  <2> QED
    BY <2>1, <2>3
<1> QED
  BY <1>1 DEF Init, Inv, TypeInv, MatrixInv, WordInv, SolutionInv, PacketsInv, Decoding

LEMMA EncodeStep == Inv /\ fec_encode => Inv'
<1> SUFFICES ASSUME Inv, fec_encode PROVE Inv'
  OBVIOUS
<1> DEFINE p == [j \in 0 .. 7 |-> Copy(j)]
           parity == gf_fun(p, 8 .. 11)
<1>1. /\ sent' = [j \in 0 .. 11 |-> IF j < 8 THEN sent[j] ELSE parity[j - 8]]
      /\ pc' = "receive" /\ stale' = stale
  BY DEF fec_encode
<1>2. sent \in [0 .. 11 -> Element]
  BY DEF Inv, TypeInv
<1>3. \A j \in 0 .. 7 : p[j] \in Element /\ (stale = {} => p[j] = sent[j])
  <2>1. \A j \in 0 .. 7 : sent[j] \in Element /\ sent[j] \cup {3} \in Element
    BY <1>2 DEF Element, Block
  <2> QED
    BY <2>1 DEF Copy
<1> HIDE DEF p
<1>4. \A i \in Row : parity[i] \in Element
  <2>1. ASSUME NEW i \in Row
        PROVE  parity[i] \in Element
    <3>1. 8 + i \in 8 .. 11
      BY DEF Row
    <3>2. parity[i] = Xor(FunSum(i, p, 8 .. 11), {})
      BY <3>1, GfFunIs
    <3>3. FunSum(i, p, 8 .. 11) \in Element /\ {} \in Element
      BY <1>3, FunSumBits DEF Element
    <3> QED
      BY <3>2, <3>3, XorElement
  <2> QED
    BY <2>1
<1> HIDE DEF parity
<1>5. sent' \in [0 .. 11 -> Element]
  <2>1. \A j \in 0 .. 11 : ~(j < 8) => j - 8 \in Row
    BY DEF Row
  <2> QED
    BY <1>1, <1>2, <1>4, <2>1
<1>6. ASSUME stale = {}
      PROVE  Word(sent')
  <2>1. \A j \in 0 .. 7 : p[j] = sent'[j]
    <3>1. \A j \in 0 .. 7 : j \in 0 .. 11 /\ j < 8
      OBVIOUS
    <3> QED
      BY <1>1, <1>3, <1>6, <3>1
  <2>2. \A i \in Row : sent'[8 + i] = gf_fun(p, 8 .. 11)[i]
    <3>1. \A i \in Row : 8 + i \in 0 .. 11 /\ ~(8 + i < 8) /\ (8 + i) - 8 = i
      BY DEF Row
    <3> QED
      BY <1>1, <3>1 DEF parity
  <2> DEFINE z == sent'
  <2>3. z \in [0 .. 11 -> Element]
    BY <1>5
  <2> HIDE DEF z
  <2>4. \A j \in 0 .. 7 : p[j] = z[j]
    BY <2>1 DEF z
  <2>5. \A i \in Row : z[8 + i] = gf_fun(p, 8 .. 11)[i]
    BY <2>2 DEF z
  <2>6. Word(z)
    BY <2>3, <2>4, <2>5, EncodeWord
  <2> QED
    BY <2>6 DEF z
<1> QED
  BY <1>1, <1>5, <1>6 DEF Inv, TypeInv, MatrixInv, WordInv, SolutionInv, PacketsInv, Decoding, Word

LEMMA DecodeStep == Inv /\ fec_decode => Inv'
<1> SUFFICES ASSUME Inv, fec_decode PROVE Inv'
  OBVIOUS
<1>1. PICK lost \in Lost :
        /\ marks' = lost
        /\ packets' = [j \in 0 .. 11 |-> IF j \in lost THEN {} ELSE sent[j]]
        /\ singular' = gf_fun(packets', lost)
        /\ matrix' = LostMatrix(lost)
  BY DEF fec_decode, LostMatrix
<1>2. /\ pc = "receive" /\ pc' = "invert" /\ sent' = sent /\ stale' = stale
      /\ col' = 0 /\ lost_data_cnt' = 0
      /\ inv' = [r \in Row |-> [c \in 0 .. 3 |-> IF r = c THEN {0} ELSE {}]]
  BY DEF fec_decode
<1> DEFINE x == LostOf(lost, sent)
           y == singular'
<1>3. sent \in [0 .. 11 -> Element] /\ {} \in Element /\ {0} \in Element
  BY DEF Inv, TypeInv, Element, Block
<1>4. packets' \in [0 .. 11 -> Element]
  BY <1>1, <1>3
<1>5. y \in Vector
  BY <1>1, <1>4, GfFunElements
<1>6. matrix' \in [Row -> Vector] /\ Nonsingular(matrix') /\ x \in Vector
  BY <1>1, <1>3, LostVectors, LostNonsingular
<1>7. inv' \in [Row -> Vector] /\ Unit(inv', 4)
  BY <1>2, <1>3 DEF Vector, Unit, Row
<1>8. ASSUME stale = {}
      PROVE  /\ \A i \in Row : y[i] = XorOf([j \in lost |-> Mul(Coefficient[i][j], sent[j])])
             /\ Same(matrix', x, inv', y)
  <2>1. Word(sent)
    BY <1>2, <1>8 DEF Inv, WordInv
  <2>2. \A i \in Row : y[i] = XorOf([j \in lost |-> Mul(Coefficient[i][j], sent[j])])
    BY <1>1, <2>1, SingularIs
  <2>3. ASSUME NEW i \in Row
        PROVE  Dot(matrix'[i], x) = Dot(inv'[i], y)
    <3>1. XorOf([j \in lost |-> Mul(Coefficient[i][j], sent[j])]) = Dot(matrix'[i], x)
      BY <1>1, <1>3, LostDot
    <3> DEFINE b == inv'
    <3>2. b \in [Row -> Vector] /\ Unit(b, 4)
      BY <1>7
    <3> HIDE DEF b, y
    <3>3. Dot(b[i], y) = y[i]
      BY <1>5, <3>2, UnitDone
    <3> QED
      BY <2>2, <3>1, <3>3 DEF b
  <2> QED
    BY <2>2, <2>3 DEF Same
<1>9. TypeInv'
  <2>1. 0 \in Row /\ 0 \in 0 .. Cardinality(LostData)'
    <3>1. Cardinality(lost \cap 0 .. 7) \in Nat
      <4>1. IsFiniteSet(lost)
        BY FourMarks
      <4>2. IsFiniteSet(lost \cap 0 .. 7)
        BY <4>1, FS_Subset
      <4> QED
        BY <4>2, FS_CardinalityType
    <3> QED
      BY <1>1, <3>1 DEF LostData, Row
  <2> QED
    BY <1>1, <1>2, <1>3, <1>4, <1>5, <1>6, <1>7, <2>1 DEF TypeInv, Decoding
<1>10. MatrixInv'
  <2>1. \A c \in Row : ~(c < 0)
    BY DEF Row
  <2> QED
    BY <1>2, <1>6, <2>1 DEF MatrixInv, Unit
<1>11. WordInv'
  BY <1>2 DEF Inv, WordInv
<1>12. SolutionInv'
  BY <1>1, <1>2, <1>8 DEF SolutionInv
<1>13. PacketsInv'
  <2>1. ASSUME NEW j \in LostData'
        PROVE  ~(Cardinality(Below(LostData', j)) < 0)
    <3>1. IsFiniteSet(lost)
      BY FourMarks
    <3>2. Below(LostData', j) \in SUBSET lost
      BY <1>1 DEF Below, LostData
    <3>3. Cardinality(Below(LostData', j)) \in Nat
      BY <3>1, <3>2, FS_Subset, FS_CardinalityType
    <3> QED
      BY <3>3
  <2> QED
    BY <1>1, <1>2, <2>1 DEF PacketsInv, Here
<1> QED
  BY <1>9, <1>10, <1>11, <1>12, <1>13 DEF Inv

LEMMA InvertStep == Inv /\ inverse_matrix => Inv'
<1> SUFFICES ASSUME Inv, inverse_matrix PROVE Inv'
  OBVIOUS
<1> DEFINE p == Min(Pivots)
           s == Swapped(matrix, p)
           x == LostOf(marks, sent)
<1>1. /\ pc = "invert" /\ Pivots # {}
      /\ matrix' = Step(matrix, p, s) /\ inv' = Step(inv, p, s)
      /\ col' = col + 1 /\ pc' = IF col = 3 THEN "recover" ELSE "invert"
      /\ sent' = sent /\ stale' = stale /\ marks' = marks /\ packets' = packets
      /\ singular' = singular /\ lost_data_cnt' = lost_data_cnt
  BY DEF inverse_matrix, Step
<1>2. /\ sent \in [0 .. 11 -> Element] /\ marks \in Lost /\ packets \in [0 .. 11 -> Element]
      /\ singular \in Vector /\ matrix \in [Row -> Vector] /\ inv \in [Row -> Vector]
      /\ lost_data_cnt \in 0 .. Cardinality(LostData) /\ col \in Row /\ lost_data_cnt = 0
  BY <1>1 DEF Inv, TypeInv, Decoding
<1>3. Unit(matrix, col) /\ Nonsingular(matrix)
  BY <1>1 DEF Inv, MatrixInv, Decoding
<1>4. p \in Pivots
  <2>1. Pivots \in SUBSET (0 .. 3)
    BY <1>2 DEF Pivots, Row
  <2>2. PICK m \in Pivots : \A r \in Pivots : m <= r
    <3>1. \A r \in Pivots : r = 0 \/ r = 1 \/ r = 2 \/ r = 3
      BY <2>1
    <3>2. CASE 0 \in Pivots
      BY <3>1, <3>2
    <3>3. CASE 0 \notin Pivots /\ 1 \in Pivots
      BY <3>1, <3>3
    <3>4. CASE 0 \notin Pivots /\ 1 \notin Pivots /\ 2 \in Pivots
      BY <3>1, <3>4
    <3>5. CASE 0 \notin Pivots /\ 1 \notin Pivots /\ 2 \notin Pivots
      BY <1>1, <3>1, <3>5
    <3> QED
      BY <3>2, <3>3, <3>4, <3>5
  <2> QED
    BY <2>2 DEF Min
<1> HIDE DEF p
<1>5. p \in col .. 3 /\ matrix[p][col] # {} /\ p \in Row
  BY <1>2, <1>4 DEF Pivots, Row
<1>6. s \in [Row -> Vector] /\ s[col][col] # {}
  BY <1>2, <1>5, SwappedRows
<1>7. matrix' \in [Row -> Vector] /\ inv' \in [Row -> Vector]
  <2>0. s \in [Row -> Vector] /\ s[col][col] # {}
    BY <1>6
  <2> HIDE DEF s
  <2>1. Step(matrix, p, s) \in [Row -> Vector]
    BY <1>2, <1>5, <2>0, StepMatrix
  <2>2. Step(inv, p, s) \in [Row -> Vector]
    BY <1>2, <1>5, <2>0, StepMatrix
  <2> QED
    BY <1>1, <2>1, <2>2
<1>8. Unit(matrix', col + 1)
  BY <1>1, <1>2, <1>3, <1>5, StepUnit
<1>9. Nonsingular(matrix')
  BY <1>1, <1>2, <1>3, <1>5, StepNonsingular
<1>10. TypeInv'
  <2>1. col # 3 => col + 1 \in Row
    BY <1>2 DEF Row
  <2> QED
    BY <1>1, <1>2, <1>7, <2>1 DEF TypeInv, Decoding, LostData
<1>11. MatrixInv'
  BY <1>1, <1>8, <1>9 DEF MatrixInv
<1>12. WordInv'
  BY <1>1 DEF Inv, WordInv
<1>13. SolutionInv'
  <2>1. ASSUME stale = {}
        PROVE  Same(matrix', x, inv', singular)
    <3>1. Same(matrix, x, inv, singular)
      BY <1>1, <2>1 DEF Inv, SolutionInv, Decoding
    <3>2. x \in Vector
      BY <1>2, LostVectors
    <3> HIDE DEF x, s
    <3> QED
      BY <1>1, <1>2, <1>5, <1>6, <3>1, <3>2, StepSame
  <2> QED
    BY <1>1, <2>1 DEF Inv, SolutionInv, Decoding
<1>14. PacketsInv'
  BY <1>1 DEF Inv, PacketsInv, Decoding, Here, LostData
<1> QED
  BY <1>10, <1>11, <1>12, <1>13, <1>14 DEF Inv

LEMMA RecoverStep == Inv /\ recover_data => Inv'
<1> SUFFICES ASSUME Inv, recover_data PROVE Inv'
  OBVIOUS
<1> DEFINE n == lost_data_cnt
           i == Nth(LostData, n)
           last == n + 1 = Cardinality(LostData)
           value == IF last /\ 8 \notin marks THEN XorOf([j \in Others(i) |-> packets[j]])
                    ELSE recover_packet(inv[n], singular)
<1>1. /\ pc = "recover" /\ n < Cardinality(LostData)
      /\ packets' = [packets EXCEPT ![i] = value]
      /\ lost_data_cnt' = n + 1
      /\ pc' = pc /\ sent' = sent /\ stale' = stale /\ marks' = marks /\ singular' = singular
      /\ matrix' = matrix /\ inv' = inv /\ col' = col
  BY DEF recover_data
<1>2. /\ sent \in [0 .. 11 -> Element] /\ marks \in Lost /\ packets \in [0 .. 11 -> Element]
      /\ singular \in Vector /\ matrix \in [Row -> Vector] /\ inv \in [Row -> Vector]
      /\ n \in 0 .. Cardinality(LostData) /\ col = 4
  BY <1>1 DEF Inv, TypeInv, Decoding
<1>3. LostData \in SUBSET Int /\ IsFiniteSet(LostData) /\ Cardinality(LostData) \in Nat
  <2>1. marks \in SUBSET Int /\ IsFiniteSet(marks)
    BY <1>2, FourMarks
  <2>2. LostData \in SUBSET marks
    BY DEF LostData
  <2>3. IsFiniteSet(LostData)
    BY <2>1, <2>2, FS_Subset
  <2> QED
    BY <2>1, <2>2, <2>3, FS_CardinalityType
<1>4. n \in 0 .. Cardinality(LostData) - 1
  BY <1>1, <1>2, <1>3
<1>5. /\ n \in Row /\ i \in LostData /\ i \in 0 .. 7 /\ i \in 0 .. 11 /\ i = Nth(marks, n)
      /\ Cardinality(Below(LostData, i)) = n
  <2>1. n \in 0 .. 3 /\ i \in LostData /\ i = Nth(marks, n)
    BY <1>2, <1>4, LostDataPlace DEF LostData
  <2>2. Cardinality(Below(LostData, i)) = n
    BY <1>3, <1>4, NthPlace
  <2> QED
    BY <2>1, <2>2 DEF LostData, Row
<1> HIDE DEF i
<1>6. inv[n] \in Vector
  BY <1>2, <1>5
<1>7. value \in Element
  <2>1. recover_packet(inv[n], singular) \in Element
    BY <1>2, <1>6, RecoverPacketIs, DotElement
  <2>2. XorOf([j \in Others(i) |-> packets[j]]) \in Element
    BY DEF XorOf, Element
  <2> QED
    BY <2>1, <2>2
<1>8. ASSUME stale = {}
      PROVE  value = sent[i]
  <2>1. Word(sent) /\ Same(matrix, LostOf(marks, sent), inv, singular) /\ Unit(matrix, 4)
        /\ \A j \in 0 .. 11 : Here(j) => packets[j] = sent[j]
    BY <1>1, <1>2, <1>8 DEF Inv, WordInv, SolutionInv, MatrixInv, PacketsInv, Decoding
  <2>2. recover_packet(inv[n], singular) = sent[i]
    <3>1. recover_packet(inv[n], singular) = Dot(inv[n], singular)
      BY <1>2, <1>6, RecoverPacketIs
    <3>2. Dot(matrix[n], LostOf(marks, sent)) = Dot(inv[n], singular)
      BY <1>5, <2>1 DEF Same
    <3>3. LostOf(marks, sent) \in Vector
      BY <1>2, LostVectors
    <3>4. Dot(matrix[n], LostOf(marks, sent)) = LostOf(marks, sent)[n]
      BY <1>2, <1>5, <2>1, <3>3, UnitDone
    <3>5. LostOf(marks, sent)[n] = sent[i]
      BY <1>5 DEF LostOf, Row
    <3> QED
      BY <3>1, <3>2, <3>4, <3>5
  <2>3. ASSUME last, 8 \notin marks
        PROVE  XorOf([j \in Others(i) |-> packets[j]]) = sent[i]
    <3>1. ASSUME NEW j \in (0 .. 8) \ {i}
          PROVE  packets[j] = sent[j]
      <4>1. j \in 0 .. 11
        OBVIOUS
      <4>2. CASE j \notin marks
        BY <2>1, <4>1, <4>2 DEF Here
      <4>3. CASE j \in marks
        <5>1. j \in LostData
          <6>1. j # 8
            BY <2>3, <4>3
          <6>2. j \in 0 .. 7
            BY <6>1
          <6> QED
            BY <4>3, <6>2 DEF LostData
        <5> DEFINE k == Cardinality(Below(LostData, j))
        <5>2. k \in 0 .. Cardinality(LostData) - 1 /\ Nth(LostData, k) = j
          BY <1>3, <5>1, NthPlace
        <5>3. k # n
          BY <5>2 DEF i
        <5>4. k < n
          BY <1>2, <1>3, <2>3, <5>2, <5>3
        <5> QED
          BY <2>1, <4>1, <5>1, <5>4 DEF Here
      <4> QED
        BY <4>2, <4>3
    <3> QED
      BY <1>5, <2>1, <3>1, OthersAre
  <2> QED
    BY <2>2, <2>3
<1> HIDE DEF value
<1>9. packets' \in [0 .. 11 -> Element] /\ n + 1 \in 0 .. Cardinality(LostData)
  <2>1. packets' \in [0 .. 11 -> Element]
    BY <1>1, <1>2, <1>7
  <2>2. n + 1 \in 0 .. Cardinality(LostData)
    BY <1>3, <1>4
  <2> QED
    BY <2>1, <2>2
<1>10. TypeInv'
  BY <1>1, <1>2, <1>9 DEF TypeInv, Decoding, LostData
<1>11. MatrixInv' /\ WordInv' /\ SolutionInv'
  BY <1>1 DEF Inv, MatrixInv, WordInv, SolutionInv, Decoding
<1>12. PacketsInv'
  <2>1. ASSUME stale = {}, NEW j \in 0 .. 11, Here(j)'
        PROVE  packets'[j] = sent[j]
    <3>1. CASE j = i
      BY <1>1, <1>2, <1>5, <1>8, <2>1, <3>1
    <3>2. CASE j # i
      <4>1. packets'[j] = packets[j]
        BY <1>1, <1>2, <3>2
      <4>2. LostData' = LostData
        BY <1>1 DEF LostData
      <4>3. Here(j)
        <5>1. CASE j \notin marks
          BY <5>1 DEF Here
        <5>2. CASE j \in marks
          <6> DEFINE k == Cardinality(Below(LostData, j))
          <6>1. j \in LostData /\ k < n + 1
            BY <1>1, <2>1, <4>2, <5>2 DEF Here
          <6>2. k \in 0 .. Cardinality(LostData) - 1 /\ Nth(LostData, k) = j
            BY <1>3, <6>1, NthPlace
          <6>3. k # n
            BY <3>2, <6>2 DEF i
          <6>4. k < n
            BY <1>2, <1>3, <6>1, <6>2, <6>3
          <6> QED
            BY <6>1, <6>4 DEF Here
        <5> QED
          BY <5>1, <5>2
      <4>4. packets[j] = sent[j]
        BY <1>1, <2>1, <4>3 DEF Inv, PacketsInv, Decoding
      <4> QED
        BY <4>1, <4>4
    <3> QED
      BY <3>1, <3>2
  <2> QED
    BY <1>1, <2>1 DEF PacketsInv
<1> QED
  BY <1>10, <1>11, <1>12 DEF Inv

LEMMA Stutter == Inv /\ UNCHANGED vars => Inv'
BY DEF Inv, TypeInv, MatrixInv, WordInv, SolutionInv, PacketsInv, Decoding, Here, LostData, vars

(* The invariant holds for every content of a group and every loss.        *)
THEOREM Invariance == Spec => []Inv
<1>1. Inv /\ [Next]_vars => Inv'
  BY EncodeStep, DecodeStep, InvertStep, RecoverStep, Stutter DEF Next
<1> QED
  BY InitInv, <1>1, PTL DEF Spec

(* Restores (fec84.c:105, 1641): whatever the packets hold and whichever   *)
(* four are lost, a pivot is found in every column, and once the lost data *)
(* packets were recovered all are those that were sent.                    *)
THEOREM AlwaysRestores == Spec => []Restores
<1>1. Inv => Restores
  <2> SUFFICES ASSUME Inv PROVE Restores
    OBVIOUS
  <2>1. ASSUME pc = "invert"
        PROVE  Pivots # {}
    <3>1. matrix \in [Row -> Vector] /\ col \in Row /\ Unit(matrix, col) /\ Nonsingular(matrix)
      BY <2>1 DEF Inv, TypeInv, MatrixInv, Decoding
    <3> QED
      BY <3>1, PivotExists DEF Pivots
  <2>2. ASSUME Recovered, stale = {}, NEW j \in 0 .. 7
        PROVE  packets[j] = sent[j]
    <3>1. /\ \A l \in 0 .. 11 : Here(l) => packets[l] = sent[l]
          /\ marks \in Lost /\ lost_data_cnt = Cardinality(LostData)
      BY <2>2 DEF Inv, TypeInv, PacketsInv, Decoding, Recovered
    <3>2. Here(j)
      <4>1. CASE j \notin marks
        BY <4>1 DEF Here
      <4>2. CASE j \in marks
        <5>1. j \in LostData
          BY <4>2 DEF LostData
        <5>2. LostData \in SUBSET Int /\ IsFiniteSet(LostData)
          <6>1. marks \in SUBSET Int /\ IsFiniteSet(marks)
            BY <3>1, FourMarks
          <6> QED
            BY <6>1, FS_Subset DEF LostData
        <5>3. Cardinality(Below(LostData, j)) \in 0 .. Cardinality(LostData) - 1
          BY <5>1, <5>2, NthPlace
        <5>4. Cardinality(LostData) \in Nat
          BY <5>2, FS_CardinalityType
        <5> QED
          BY <3>1, <5>1, <5>3, <5>4 DEF Here
      <4> QED
        BY <4>1, <4>2
    <3> QED
      BY <3>1, <3>2
  <2> QED
    BY <2>1, <2>2 DEF Restores
<1> QED
  BY Invariance, <1>1, PTL

(* SingularIsLost (fec84.c:285-1145): the exclusive ors that gf_fun writes *)
(* down multiply by the coefficients of gf_matrix, for every word and loss.*)
THEOREM AlwaysSingularIsLost == Spec => []SingularIsLost
<1>1. Inv => SingularIsLost
  BY DEF Inv, SolutionInv, Decoding, SingularIsLost, Mul
<1> QED
  BY Invariance, <1>1, PTL
=============================================================================
