----------------------------- MODULE PathsProofs -----------------------------
(***************************************************************************)
(* The ways to the client for every number of addresses and packets: the   *)
(* lists of times stay intact although main and monitor_ack work on them   *)
(* without a lock, unless the client had one address in mode 3.            *)
(***************************************************************************)
EXTENDS Paths, SequenceTheorems, WellFoundedInduction, TLAPS

(* A walk along a list that remembers the last cell of a kind finds one.   *)
LEMMA LastOfKind ==
  ASSUME NEW n \in Nat, NEW T \in SUBSET (1 .. n), T # {}
  PROVE  Max(T) \in T /\ \A j \in T : j <= Max(T)
<1> DEFINE D == {n - k : k \in T}
<1>1. D \subseteq Nat /\ D # {}
  <2>1. \A k \in T : n - k \in Nat
    OBVIOUS
  <2>2. PICK k \in T : TRUE
    OBVIOUS
  <2>3. n - k \in D
    OBVIOUS
  <2> QED
    BY <2>1, <2>3
<1> DEFINE R == OpToRel(<, Nat)
<1>2. IsWellFoundedOn(R, Nat)
  BY NatLessThanWellFounded
<1>3. \A x, y \in Nat : x < y => <<x, y>> \in R
  BY DEF OpToRel
<1> HIDE DEF R
<1>4. PICK d \in D : \A e \in D : ~(<<e, d>> \in R)
  BY <1>1, <1>2, WFMin
<1>5. PICK k \in T : d = n - k
  OBVIOUS
<1>6. ASSUME NEW j \in T PROVE j <= k
  <2>1. n - j \in D /\ n - j \in Nat /\ d \in Nat
    BY <1>1
  <2>2. ~(n - j < d)
    BY <1>3, <1>4, <2>1
  <2> QED
    BY <1>5, <2>2
<1>7. k >= k /\ \A j \in T : k >= j
  BY <1>6
<1> QED
  BY <1>7 DEF Max

-----------------------------------------------------------------------------
Sending(t) == pc[t] \in {"stamp", "test", "free", "store"}

(* What holds whatever happens to the lists.                               *)
BoundsInv ==
  /\ Len(next) <= MaxTime
  /\ \A c \in 1 .. Len(next) : next[c] \in 0 .. Len(next)
  /\ freed \subseteq 1 .. Len(next)
  /\ \A a \in Addr : stamped[a] \in 0 .. Len(next)
  /\ \A a \in Known : time_head[a] \in 1 .. Len(next) /\ time_tail[a] \in 1 .. Len(next)

ThreadInv ==
  /\ \A t \in Thread : pc[t] # "idle" => udp[t] \in Known
  /\ \A t \in Thread : pc[t] \in {"free", "store"} => following[t] \in 1 .. Len(next)
  /\ pc["monitor_ack"] # "link"
  /\ mode = 2 => pc["monitor_ack"] = "idle"
  /\ mode = 3 /\ Sending("main") => udp["main"] = Path(1)

UdpInv ==
  \A j, k \in DOMAIN udp_infos : udp_infos[j].addr = udp_infos[k].addr => j = k

(* An address that is not Path(1), and will not be when others are put in  *)
(* front of it.                                                            *)
NeverData(a) ==
  \E k \in DOMAIN udp_infos :
    /\ udp_infos[k].addr = a
    /\ \/ udp_infos[k].type = 0 /\ k > 1
       \/ udp_infos[k].type = 0 /\ \E j \in DOMAIN udp_infos : udp_infos[j].type = 1
       \/ udp_infos[k].type = 1 /\ \E j \in DOMAIN udp_infos : j > k /\ udp_infos[j].type = 1

(* The first cell of an address that is not freed.                         *)
LiveHead(a) ==
  IF \E t \in Thread : pc[t] = "store" /\ udp[t] = a THEN next[time_head[a]] ELSE time_head[a]

(* Every cell belongs to the list of one address.  A list grows at its     *)
(* end, the cells in front of its head are freed, and no others.           *)
ListsIntact(own) ==
  /\ \A c \in 1 .. Len(next) : own[c] \in Known
  /\ \A a \in Known :
       own[time_head[a]] = a /\ own[time_tail[a]] = a /\ stamped[a] <= time_head[a]
  /\ \A c \in 1 .. Len(next) : next[c] # NULL => next[c] > c /\ own[next[c]] = own[c]
  /\ \A c, d \in 1 .. Len(next) :
       own[c] = own[d] /\ c < d => next[c] # NULL /\ next[c] <= d
  /\ \A a \in Known :
       IF pc["main"] = "link" /\ udp["main"] = a
       THEN own[Len(next)] = a /\ next[Len(next)] = NULL
       ELSE next[time_tail[a]] = NULL
  /\ \A t \in Thread : pc[t] \in {"free", "store"} => following[t] = next[time_head[udp[t]]]
  /\ \A c \in 1 .. Len(next) : c \in freed <=> c < LiveHead(own[c])

ListInv ==
  /\ Sending("monitor_ack") => NeverData(udp["monitor_ack"])
  /\ \E own \in [1 .. Len(next) -> Addr] : ListsIntact(own)

IInv ==
  /\ TypeOK /\ BoundsInv /\ ThreadInv /\ UdpInv
  /\ broken => alone
  /\ ~alone => ListInv
-----------------------------------------------------------------------------
LEMMA UdpFacts ==
  ASSUME TypeOK
  PROVE  /\ Len(udp_infos) \in Nat /\ DOMAIN udp_infos = 1 .. Len(udp_infos)
         /\ \A k \in DOMAIN udp_infos : udp_infos[k].addr \in Addr /\ udp_infos[k].type \in {0, 1}
         /\ Known \subseteq Addr
         /\ udp_infos # <<>> => 1 \in DOMAIN udp_infos
<1>1. Len(udp_infos) \in Nat /\ DOMAIN udp_infos = 1 .. Len(udp_infos)
  BY LenProperties DEF TypeOK
<1>2. \A k \in DOMAIN udp_infos : udp_infos[k].addr \in Addr /\ udp_infos[k].type \in {0, 1}
  <2>1. \A k \in 1 .. Len(udp_infos) : udp_infos[k] \in [addr : Addr, type : {0, 1}]
    BY ElementOfSeq DEF TypeOK
  <2> QED
    BY <1>1, <2>1
<1>3. udp_infos # <<>> => 1 \in DOMAIN udp_infos
  BY <1>1, EmptySeq DEF TypeOK
<1> QED
  BY <1>1, <1>2, <1>3 DEF Known

(* The last address of the type, or the first of all.                      *)
LEMMA PathFacts ==
  ASSUME TypeOK, udp_infos # <<>>, NEW type
  PROVE  \E k \in DOMAIN udp_infos :
           /\ Path(type) = udp_infos[k].addr
           /\ \A j \in DOMAIN udp_infos :
                udp_infos[j].type = type => udp_infos[k].type = type /\ j <= k
           /\ k # 1 => udp_infos[k].type = type
<1> DEFINE ofType == {k \in DOMAIN udp_infos : udp_infos[k].type = type}
           k == IF ofType = {} THEN 1 ELSE Max(ofType)
<1>1. ofType # {} => Max(ofType) \in ofType /\ \A j \in ofType : j <= Max(ofType)
  BY UdpFacts, LastOfKind
<1>2. k \in DOMAIN udp_infos
  BY <1>1, UdpFacts
<1>3. Path(type) = udp_infos[k].addr
  BY DEF Path
<1>4. \A j \in DOMAIN udp_infos :
        udp_infos[j].type = type => udp_infos[k].type = type /\ j <= k
  BY <1>1
<1>5. k # 1 => udp_infos[k].type = type
  BY <1>1
<1> QED
  BY <1>2, <1>3, <1>4, <1>5

LEMMA NeverDataIsNotData ==
  ASSUME TypeOK, UdpInv, NEW a, NeverData(a)
  PROVE  a # Path(1)
<1> SUFFICES ASSUME a = Path(1) PROVE FALSE
  OBVIOUS
<1>1. PICK k \in DOMAIN udp_infos :
        /\ udp_infos[k].addr = a
        /\ \/ udp_infos[k].type = 0 /\ k > 1
           \/ udp_infos[k].type = 0 /\ \E j \in DOMAIN udp_infos : udp_infos[j].type = 1
           \/ udp_infos[k].type = 1 /\ \E j \in DOMAIN udp_infos : j > k /\ udp_infos[j].type = 1
  BY DEF NeverData
<1>2. udp_infos # <<>>
  BY <1>1, UdpFacts
<1>3. PICK i \in DOMAIN udp_infos :
        /\ Path(1) = udp_infos[i].addr
        /\ \A j \in DOMAIN udp_infos :
             udp_infos[j].type = 1 => udp_infos[i].type = 1 /\ j <= i
        /\ i # 1 => udp_infos[i].type = 1
  BY <1>2, PathFacts
<1>4. i = k
  BY <1>1, <1>3 DEF UdpInv
<1> QED
  BY <1>1, <1>3, <1>4, UdpFacts

LEMMA ParityIsNeverData ==
  ASSUME TypeOK, udp_infos # <<>>, Len(udp_infos) # 1
  PROVE  NeverData(Path(0))
<1>1. PICK k \in DOMAIN udp_infos :
        /\ Path(0) = udp_infos[k].addr
        /\ \A j \in DOMAIN udp_infos :
             udp_infos[j].type = 0 => udp_infos[k].type = 0 /\ j <= k
        /\ k # 1 => udp_infos[k].type = 0
  BY PathFacts
<1>2. 1 \in DOMAIN udp_infos /\ 2 \in DOMAIN udp_infos
  BY UdpFacts
<1>3. CASE udp_infos[k].type = 0 /\ k > 1
  BY <1>1, <1>3 DEF NeverData
<1>4. CASE udp_infos[k].type = 0 /\ ~(k > 1)
  <2>1. udp_infos[2].type = 1
    BY <1>1, <1>2, <1>4, UdpFacts
  <2> QED
    BY <1>1, <1>2, <1>4, <2>1 DEF NeverData
<1>5. CASE udp_infos[k].type # 0
  <2>1. k = 1 /\ udp_infos[1].type = 1 /\ udp_infos[2].type = 1
    BY <1>1, <1>2, <1>5, UdpFacts
  <2> QED
    BY <1>1, <1>2, <2>1 DEF NeverData
<1> QED
  BY <1>3, <1>4, <1>5

(* A new address goes to the front.                                        *)
LEMMA NewAddress ==
  ASSUME TypeOK, NEW a \in Addr, NEW type \in {0, 1}, update_udp_info_list_new(a, type)
  PROVE  /\ udp_infos' \in Seq([addr : Addr, type : {0, 1}])
         /\ DOMAIN udp_infos' = 1 .. Len(udp_infos) + 1
         /\ \A k \in DOMAIN udp_infos' : udp_infos'[k] =
              IF k = 1 THEN [addr |-> a, type |-> type] ELSE udp_infos[k - 1]
         /\ \A k \in DOMAIN udp_infos : k + 1 \in DOMAIN udp_infos' /\ udp_infos'[k + 1] = udp_infos[k]
         /\ Known' = Known \cup {a}
<1> DEFINE info == [addr |-> a, type |-> type]
<1>1. /\ udp_infos \in Seq([addr : Addr, type : {0, 1}]) /\ Len(udp_infos) \in Nat
      /\ DOMAIN udp_infos = 1 .. Len(udp_infos)
  BY UdpFacts DEF TypeOK
<1>2. /\ <<info>> \in Seq([addr : Addr, type : {0, 1}])
      /\ Len(<<info>>) = 1 /\ <<info>>[1] = info
  OBVIOUS
<1>3. /\ udp_infos' \in Seq([addr : Addr, type : {0, 1}])
      /\ Len(udp_infos') = 1 + Len(udp_infos)
      /\ \A k \in 1 .. 1 + Len(udp_infos) : udp_infos'[k] =
           IF k <= 1 THEN <<info>>[k] ELSE udp_infos[k - 1]
  BY <1>1, <1>2, ConcatProperties DEF update_udp_info_list_new
<1>4. DOMAIN udp_infos' = 1 .. Len(udp_infos) + 1
  BY <1>1, <1>3, LenProperties
<1>5. \A k \in DOMAIN udp_infos' : udp_infos'[k] = IF k = 1 THEN info ELSE udp_infos[k - 1]
  BY <1>1, <1>2, <1>3, <1>4
<1>6. \A k \in DOMAIN udp_infos : k + 1 \in DOMAIN udp_infos' /\ udp_infos'[k + 1] = udp_infos[k]
  BY <1>1, <1>4, <1>5
<1>7. Known' = Known \cup {a}
  <2>1. \A k \in DOMAIN udp_infos' : udp_infos'[k].addr \in Known \cup {a}
    <3> SUFFICES ASSUME NEW k \in DOMAIN udp_infos', k # 1
                 PROVE  udp_infos'[k].addr \in Known
      BY <1>5
    <3>1. k - 1 \in DOMAIN udp_infos
      BY <1>1, <1>4
    <3> QED
      BY <1>5, <3>1 DEF Known
  <2>2. a \in Known'
    <3>1. 1 \in DOMAIN udp_infos'
      BY <1>1, <1>4
    <3> QED
      BY <1>5, <3>1 DEF Known
  <2>3. Known \subseteq Known'
    BY <1>6 DEF Known
  <2> QED
    BY <2>1, <2>2, <2>3 DEF Known
<1> QED
  BY <1>3, <1>4, <1>5, <1>6, <1>7

LEMMA NeverDataStays ==
  ASSUME TypeOK, NEW b, NeverData(b),
         NEW a \in Addr, NEW type \in {0, 1}, update_udp_info_list_new(a, type)
  PROVE  NeverData(b)'
<1>1. PICK k \in DOMAIN udp_infos :
        /\ udp_infos[k].addr = b
        /\ \/ udp_infos[k].type = 0 /\ k > 1
           \/ udp_infos[k].type = 0 /\ \E j \in DOMAIN udp_infos : udp_infos[j].type = 1
           \/ udp_infos[k].type = 1 /\ \E j \in DOMAIN udp_infos : j > k /\ udp_infos[j].type = 1
  BY DEF NeverData
<1>2. \A j \in DOMAIN udp_infos : j + 1 \in DOMAIN udp_infos' /\ udp_infos'[j + 1] = udp_infos[j]
  BY NewAddress
<1>3. /\ k + 1 \in DOMAIN udp_infos'
      /\ udp_infos'[k + 1].addr = b
      /\ udp_infos'[k + 1].type = udp_infos[k].type
      /\ k \in Nat /\ k > 0 /\ k + 1 > 1
  BY <1>1, <1>2, UdpFacts
<1>4. CASE udp_infos[k].type = 0
  BY <1>3, <1>4 DEF NeverData
<1>5. CASE udp_infos[k].type # 0
  <2>1. PICK j \in DOMAIN udp_infos : j > k /\ udp_infos[j].type = 1
    BY <1>1, <1>5
  <2>2. /\ j + 1 \in DOMAIN udp_infos' /\ j + 1 > k + 1
        /\ udp_infos'[j + 1].type = 1 /\ udp_infos'[k + 1].type = 1
    BY <1>1, <1>2, <1>3, <1>5, <2>1, UdpFacts
  <2> QED
    BY <1>3, <2>2 DEF NeverData
<1> QED
  BY <1>4, <1>5
-----------------------------------------------------------------------------
(* Most steps leave the addresses alone.                                   *)
LEMMA SameAddresses ==
  ASSUME UNCHANGED udp_infos
  PROVE  /\ Known' = Known
         /\ Path(1)' = Path(1)
         /\ UdpInv => UdpInv'
         /\ \A a : NeverData(a) => NeverData(a)'
<1>1. Known' = Known
  BY DEF Known
<1>2. Path(1)' = Path(1)
  BY DEF Path
<1>3. UdpInv => UdpInv'
  BY DEF UdpInv
<1>4. \A a : NeverData(a) => NeverData(a)'
  BY DEF NeverData
<1> QED
  BY <1>1, <1>2, <1>3, <1>4

LEMMA CellFacts ==
  ASSUME TypeOK, BoundsInv
  PROVE  /\ Len(next) \in Nat /\ MaxTime \in Nat /\ Len(next) <= MaxTime
         /\ DOMAIN next = 1 .. Len(next)
         /\ 1 .. Len(next) \subseteq Cell
         /\ \A c \in 1 .. Len(next) : next[c] \in 0 .. Len(next) /\ next[c] \in Int
         /\ \A a \in Known : time_head[a] \in 1 .. Len(next) /\ time_tail[a] \in 1 .. Len(next)
         /\ Known \subseteq Addr
<1>1. Len(next) \in Nat /\ DOMAIN next = 1 .. Len(next)
  BY LenProperties DEF TypeOK
<1>2. Len(next) <= MaxTime /\ MaxTime \in Nat
  BY PathsAssumption DEF BoundsInv
<1>3. \A c \in 1 .. Len(next) : next[c] \in 0 .. Len(next) /\ next[c] \in Int
  BY <1>1 DEF BoundsInv
<1>4. \A a \in Known : time_head[a] \in 1 .. Len(next) /\ time_tail[a] \in 1 .. Len(next)
  BY DEF BoundsInv
<1>5. 1 .. Len(next) \subseteq Cell
  BY <1>1, <1>2 DEF Cell
<1> QED
  BY <1>1, <1>2, <1>3, <1>4, <1>5, UdpFacts

(* The packet just received has a cell of its own.                         *)
LEMMA NewCellAppended ==
  ASSUME TypeOK, BoundsInv
  PROVE  /\ Append(next, NULL) \in Seq(Cell \cup {NULL})
         /\ Len(Append(next, NULL)) = Len(next) + 1
         /\ \A c \in 1 .. Len(next) + 1 :
              Append(next, NULL)[c] = IF c = Len(next) + 1 THEN NULL ELSE next[c]
<1>1. next \in Seq(Cell \cup {NULL}) /\ NULL \in Cell \cup {NULL} /\ Len(next) \in Nat
  BY CellFacts DEF TypeOK
<1>2. /\ Append(next, NULL) \in Seq(Cell \cup {NULL})
      /\ Len(Append(next, NULL)) = Len(next) + 1
      /\ \A c \in 1 .. Len(next) : Append(next, NULL)[c] = next[c]
      /\ Append(next, NULL)[Len(next) + 1] = NULL
  BY <1>1, AppendProperties
<1> QED
  BY <1>1, <1>2

(* monitor_ack never works on the address main sends to.                   *)
LEMMA Separate ==
  ASSUME TypeOK, ThreadInv, UdpInv, ListInv,
         NEW t \in Thread, NEW u \in Thread, t # u, Sending(t), Sending(u)
  PROVE  udp[t] # udp[u]
<1>1. Sending("monitor_ack") /\ Sending("main")
  BY DEF Thread
<1>2. mode = 3
  BY <1>1 DEF ThreadInv, Sending, TypeOK
<1>3. udp["main"] = Path(1) /\ NeverData(udp["monitor_ack"])
  BY <1>1, <1>2 DEF ThreadInv, ListInv
<1>4. udp["monitor_ack"] # udp["main"]
  BY <1>3, NeverDataIsNotData
<1> QED
  BY <1>4 DEF Thread

LEMMA LiveHeadFacts ==
  ASSUME TypeOK, BoundsInv, ThreadInv, UdpInv, ListInv,
         NEW own \in [1 .. Len(next) -> Addr], ListsIntact(own)
  PROVE  /\ \A a \in Known :
              LiveHead(a) \in 1 .. Len(next) /\ own[LiveHead(a)] = a /\ time_head[a] <= LiveHead(a)
         /\ \A t \in Thread : pc[t] \in {"stamp", "test", "free"} =>
              LiveHead(udp[t]) = time_head[udp[t]]
         /\ \A t \in Thread : pc[t] = "store" =>
              LiveHead(udp[t]) = next[time_head[udp[t]]]
<1>1. ASSUME NEW a \in Known
      PROVE  LiveHead(a) \in 1 .. Len(next) /\ own[LiveHead(a)] = a /\ time_head[a] <= LiveHead(a)
  <2>1. time_head[a] \in 1 .. Len(next) /\ own[time_head[a]] = a
    BY <1>1, CellFacts DEF ListsIntact
  <2>2. CASE \E t \in Thread : pc[t] = "store" /\ udp[t] = a
    <3>1. PICK t \in Thread : pc[t] = "store" /\ udp[t] = a
      BY <2>2
    <3>2. following[t] \in 1 .. Len(next) /\ following[t] = next[time_head[a]]
      BY <3>1 DEF ThreadInv, ListsIntact
    <3>3. next[time_head[a]] # NULL /\ next[time_head[a]] \in 1 .. Len(next)
      BY <3>2, CellFacts DEF NULL
    <3>4. own[next[time_head[a]]] = a /\ next[time_head[a]] > time_head[a]
      BY <2>1, <3>3 DEF ListsIntact
    <3>5. LiveHead(a) = next[time_head[a]]
      BY <2>2 DEF LiveHead
    <3> QED
      BY <2>1, <3>3, <3>4, <3>5, CellFacts
  <2>3. CASE ~\E t \in Thread : pc[t] = "store" /\ udp[t] = a
    <3>1. LiveHead(a) = time_head[a]
      BY <2>3 DEF LiveHead
    <3> QED
      BY <2>1, <3>1, CellFacts
  <2> QED
    BY <2>2, <2>3
<1>2. ASSUME NEW t \in Thread, pc[t] \in {"stamp", "test", "free"}
      PROVE  LiveHead(udp[t]) = time_head[udp[t]]
  <2>1. ASSUME NEW u \in Thread, pc[u] = "store"
        PROVE  udp[u] # udp[t]
    BY <1>2, <2>1, Separate DEF Sending
  <2> QED
    BY <2>1 DEF LiveHead
<1>3. ASSUME NEW t \in Thread, pc[t] = "store"
      PROVE  LiveHead(udp[t]) = next[time_head[udp[t]]]
  BY <1>3 DEF LiveHead
<1> QED
  BY <1>1, <1>2, <1>3
-----------------------------------------------------------------------------
(* What holds whatever happens to the lists is kept by every step.         *)
LEMMA NewKeepsBounds ==
  ASSUME IInv, NEW a \in Addr, NEW type \in {0, 1}, update_udp_info_list_new(a, type)
  PROVE  TypeOK' /\ BoundsInv' /\ ThreadInv' /\ UdpInv'
<1> USE DEF IInv
<1>1. /\ pc["main"] = "idle" /\ pc' = pc /\ a \notin Known /\ Len(next) < MaxTime
      /\ UNCHANGED <<mode, freed, udp, following, stamped, alone, broken>>
  BY DEF update_udp_info_list_new, Goes, TypeOK
<1>2. /\ next' \in Seq(Cell \cup {NULL})
      /\ Len(next') = Len(next) + 1
      /\ \A c \in 1 .. Len(next) + 1 : next'[c] = IF c = Len(next) + 1 THEN NULL ELSE next[c]
  BY NewCellAppended DEF update_udp_info_list_new
<1>3. Len(next) \in Nat /\ NewCell \in Cell /\ NewCell = Len(next')
  BY <1>1, <1>2, CellFacts DEF NewCell, Cell
<1>4. /\ time_head' = [time_head EXCEPT ![a] = NewCell]
      /\ time_tail' = [time_tail EXCEPT ![a] = NewCell]
  BY DEF update_udp_info_list_new
<1>5. TypeOK'
  <2>1. {time_head', time_tail', stamped'} \subseteq [Addr -> Cell \cup {NULL}]
    BY <1>1, <1>3, <1>4 DEF TypeOK
  <2> QED
    BY <1>1, <1>2, <2>1, NewAddress DEF TypeOK
<1>6. BoundsInv'
  <2>1. Len(next') <= MaxTime
    BY <1>1, <1>2, <1>3, CellFacts
  <2>2. \A c \in 1 .. Len(next') : next'[c] \in 0 .. Len(next')
    BY <1>2, <1>3, CellFacts DEF NULL
  <2>3. freed' \subseteq 1 .. Len(next') /\ \A b \in Addr : stamped'[b] \in 0 .. Len(next')
    BY <1>1, <1>2, <1>3 DEF BoundsInv
  <2>4. \A b \in Known' : time_head'[b] \in 1 .. Len(next') /\ time_tail'[b] \in 1 .. Len(next')
    <3> TAKE b \in Known'
    <3>1. CASE b = a
      BY <1>2, <1>3, <1>4, <3>1 DEF TypeOK
    <3>2. CASE b # a
      <4>1. b \in Known /\ time_head'[b] = time_head[b] /\ time_tail'[b] = time_tail[b]
        BY <1>4, <3>2, NewAddress, CellFacts DEF TypeOK
      <4> QED
        BY <1>2, <1>3, <4>1, CellFacts
    <3> QED
      BY <3>1, <3>2
  <2> QED
    BY <2>1, <2>2, <2>3, <2>4 DEF BoundsInv
<1>7. ThreadInv'
  <2>1. \A t \in Thread : pc'[t] # "idle" => udp'[t] \in Known'
    BY <1>1, NewAddress DEF ThreadInv
  <2>2. \A t \in Thread : pc'[t] \in {"free", "store"} => following'[t] \in 1 .. Len(next')
    BY <1>1, <1>2, <1>3 DEF ThreadInv
  <2> QED
    BY <1>1, <2>1, <2>2 DEF ThreadInv, Sending
<1>8. UdpInv'
  <2> SUFFICES ASSUME NEW j \in DOMAIN udp_infos', NEW k \in DOMAIN udp_infos',
                      udp_infos'[j].addr = udp_infos'[k].addr
               PROVE  j = k
    BY DEF UdpInv
  <2>1. /\ j \in 1 .. Len(udp_infos) + 1 /\ k \in 1 .. Len(udp_infos) + 1
        /\ udp_infos'[j] = IF j = 1 THEN [addr |-> a, type |-> type] ELSE udp_infos[j - 1]
        /\ udp_infos'[k] = IF k = 1 THEN [addr |-> a, type |-> type] ELSE udp_infos[k - 1]
    BY NewAddress
  <2>2. /\ j # 1 => j - 1 \in DOMAIN udp_infos /\ udp_infos[j - 1].addr \in Known
        /\ k # 1 => k - 1 \in DOMAIN udp_infos /\ udp_infos[k - 1].addr \in Known
    BY <2>1, UdpFacts DEF Known
  <2>3. j = 1 <=> k = 1
    BY <1>1, <2>1, <2>2
  <2>4. j # 1 => j - 1 = k - 1
    BY <2>1, <2>2, <2>3 DEF UdpInv
  <2> QED
    BY <2>1, <2>3, <2>4, UdpFacts
<1> QED
  BY <1>5, <1>6, <1>7, <1>8

LEMMA LinkKeepsBounds ==
  ASSUME IInv, NEW a \in Addr, update_udp_info_list_link(a)
  PROVE  /\ TypeOK' /\ BoundsInv' /\ ThreadInv' /\ UdpInv'
         /\ Len(next') = Len(next) + 1
         /\ \A c \in 1 .. Len(next) + 1 : next'[c] =
              IF c = time_tail[a] THEN Len(next) + 1
              ELSE IF c = Len(next) + 1 THEN NULL ELSE next[c]
<1> USE DEF IInv
<1>1. /\ pc["main"] = "idle" /\ pc' = [pc EXCEPT !["main"] = "link"]
      /\ a \in Known /\ Len(next) < MaxTime
      /\ udp' = [udp EXCEPT !["main"] = a]
      /\ UNCHANGED <<mode, udp_infos, time_head, time_tail, freed, following, stamped, alone>>
  BY DEF update_udp_info_list_link, Goes
<1>2. time_tail[a] \in 1 .. Len(next) /\ Len(next) \in Nat
  BY <1>1, CellFacts
<1>3. Len(next) + 1 \in Cell
  BY <1>1, <1>2, CellFacts DEF Cell
<1> DEFINE appended == Append(next, NULL)
<1>4. next' = [appended EXCEPT ![time_tail[a]] = Len(next) + 1]
  BY DEF update_udp_info_list_link, NewCell
<1>5. /\ appended \in Seq(Cell \cup {NULL})
      /\ Len(appended) = Len(next) + 1
      /\ \A c \in 1 .. Len(next) + 1 : appended[c] = IF c = Len(next) + 1 THEN NULL ELSE next[c]
  BY NewCellAppended
<1> HIDE DEF appended
<1>6. next' \in Seq(Cell \cup {NULL}) /\ Len(next') = Len(next) + 1
  BY <1>2, <1>3, <1>4, <1>5, ExceptSeq
<1>7. ASSUME NEW c \in 1 .. Len(next) + 1
      PROVE  next'[c] = IF c = time_tail[a] THEN Len(next) + 1
                        ELSE IF c = Len(next) + 1 THEN NULL ELSE next[c]
  BY <1>2, <1>3, <1>4, <1>5, <1>7, ExceptSeq
<1>8. TypeOK'
  <2>1. broken' \in BOOLEAN
    BY DEF update_udp_info_list_link
  <2>2. udp' \in [Thread -> Addr \cup {NULL}]
    BY <1>1 DEF TypeOK
  <2>3. pc' \in [Thread -> {"idle", "link", "stamp", "test", "free", "store"}]
    BY <1>1 DEF TypeOK
  <2> QED
    BY <1>1, <1>6, <2>1, <2>2, <2>3 DEF TypeOK
<1>9. Known' = Known /\ Path(1)' = Path(1) /\ UdpInv'
  BY <1>1, SameAddresses
<1>10. BoundsInv'
  <2>1. Len(next') <= MaxTime
    BY <1>1, <1>2, <1>6, CellFacts
  <2>2. \A c \in 1 .. Len(next') : next'[c] \in 0 .. Len(next')
    BY <1>2, <1>6, <1>7, CellFacts DEF NULL
  <2>3. freed' \subseteq 1 .. Len(next') /\ \A b \in Addr : stamped'[b] \in 0 .. Len(next')
    BY <1>1, <1>2, <1>6 DEF BoundsInv
  <2>4. \A b \in Known' : time_head'[b] \in 1 .. Len(next') /\ time_tail'[b] \in 1 .. Len(next')
    BY <1>1, <1>2, <1>6, <1>9, CellFacts
  <2> QED
    BY <2>1, <2>2, <2>3, <2>4 DEF BoundsInv
<1>11. ThreadInv'
  <2>1. \A t \in Thread : pc'[t] # "idle" => udp'[t] \in Known'
    BY <1>1, <1>9 DEF ThreadInv, TypeOK
  <2>2. \A t \in Thread : pc'[t] \in {"free", "store"} => following'[t] \in 1 .. Len(next')
    BY <1>1, <1>2, <1>6 DEF ThreadInv, TypeOK
  <2>3. /\ pc'["monitor_ack"] = pc["monitor_ack"] /\ pc'["main"] = "link"
    BY <1>1 DEF TypeOK, Thread
  <2> QED
    BY <1>1, <2>1, <2>2, <2>3 DEF ThreadInv, Sending
<1> QED
  BY <1>6, <1>7, <1>8, <1>9, <1>10, <1>11

LEMMA TailKeepsBounds ==
  ASSUME IInv, update_udp_info_list_tail
  PROVE  TypeOK' /\ BoundsInv' /\ ThreadInv' /\ UdpInv'
<1> USE DEF IInv
<1> DEFINE a == udp["main"]
<1>1. /\ pc["main"] = "link" /\ pc' = [pc EXCEPT !["main"] = "idle"]
      /\ time_tail' = [time_tail EXCEPT ![a] = Len(next)]
      /\ UNCHANGED <<mode, udp_infos, time_head, next, freed, udp, following, stamped,
                     alone, broken>>
  BY DEF update_udp_info_list_tail, Goes
<1>2. a \in Known /\ a \in Addr
  BY <1>1, CellFacts DEF ThreadInv, Thread
<1>3. Len(next) \in 1 .. Len(next) /\ Len(next) \in Cell
  BY <1>2, CellFacts
<1>4. Known' = Known /\ Path(1)' = Path(1) /\ UdpInv'
  BY <1>1, SameAddresses
<1>5. time_tail' \in [Addr -> Cell \cup {NULL}]
  BY <1>1, <1>3 DEF TypeOK
<1>6. TypeOK'
  <2>1. pc' \in [Thread -> {"idle", "link", "stamp", "test", "free", "store"}]
    BY <1>1 DEF TypeOK
  <2> QED
    BY <1>1, <1>5, <2>1 DEF TypeOK
<1>7. BoundsInv'
  <2>1. \A b \in Known' : time_head'[b] \in 1 .. Len(next') /\ time_tail'[b] \in 1 .. Len(next')
    BY <1>1, <1>3, <1>4, CellFacts DEF TypeOK
  <2> QED
    BY <1>1, <2>1 DEF BoundsInv
<1>8. ThreadInv'
  <2>1. pc'["monitor_ack"] = pc["monitor_ack"] /\ pc'["main"] = "idle"
    BY <1>1 DEF TypeOK, Thread
  <2>2. \A t \in Thread : pc'[t] # "idle" => pc'[t] = pc[t]
    BY <1>1 DEF TypeOK
  <2> QED
    BY <1>1, <1>4, <2>1, <2>2 DEF ThreadInv, Sending
<1> QED
  BY <1>4, <1>6, <1>7, <1>8

LEMMA SendKeepsBounds ==
  ASSUME IInv, NEW t \in Thread, input_send(t)
  PROVE  TypeOK' /\ BoundsInv' /\ ThreadInv' /\ UdpInv'
<1> USE DEF IInv
<1>1. /\ pc[t] = "idle" /\ pc' = [pc EXCEPT ![t] = "stamp"] /\ udp_infos # <<>>
      /\ alone' = (alone \/ (t = "monitor_ack" /\ Len(udp_infos) = 1))
      /\ UNCHANGED <<mode, udp_infos, time_head, time_tail, next, freed, following, stamped,
                     broken>>
  BY DEF input_send, Goes
<1>2. PICK a \in Choice(t) : udp' = [udp EXCEPT ![t] = a]
  BY DEF input_send
<1>3. Path(0) \in Known /\ Path(1) \in Known
  BY <1>1, PathFacts DEF Known
<1>4. a \in Known /\ a \in Addr
  BY <1>2, <1>3, UdpFacts DEF Choice, Resend
<1>5. Known' = Known /\ Path(1)' = Path(1) /\ UdpInv'
  BY <1>1, SameAddresses
<1>6. TypeOK'
  <2>1. /\ pc' \in [Thread -> {"idle", "link", "stamp", "test", "free", "store"}]
        /\ udp' \in [Thread -> Addr \cup {NULL}]
        /\ alone' \in BOOLEAN
    BY <1>1, <1>2, <1>4 DEF TypeOK
  <2> QED
    BY <1>1, <2>1 DEF TypeOK
<1>7. BoundsInv'
  BY <1>1, <1>5 DEF BoundsInv
<1>8. ThreadInv'
  <2>1. \A u \in Thread : u # t => pc'[u] = pc[u] /\ udp'[u] = udp[u]
    BY <1>1, <1>2 DEF TypeOK
  <2>2. pc'[t] = "stamp" /\ udp'[t] = a
    BY <1>1, <1>2 DEF TypeOK
  <2>3. mode = 2 => t # "monitor_ack"
    BY <1>2 DEF Choice
  <2>4. mode = 3 /\ t = "main" => a = Path(1)
    BY <1>2 DEF Choice
  <2>5. \A u \in Thread : pc'[u] # "idle" => udp'[u] \in Known'
    BY <1>4, <1>5, <2>1, <2>2 DEF ThreadInv
  <2>6. \A u \in Thread : pc'[u] \in {"free", "store"} => following'[u] \in 1 .. Len(next')
    BY <1>1, <2>1, <2>2 DEF ThreadInv
  <2>7. pc'["monitor_ack"] # "link" /\ (mode' = 2 => pc'["monitor_ack"] = "idle")
    BY <1>1, <2>1, <2>2, <2>3 DEF ThreadInv, Thread
  <2>8. mode' = 3 /\ Sending("main")' => udp'["main"] = Path(1)'
    BY <1>1, <1>5, <2>1, <2>2, <2>4 DEF ThreadInv, Thread, Sending
  <2> QED
    BY <2>5, <2>6, <2>7, <2>8 DEF ThreadInv
<1> QED
  BY <1>5, <1>6, <1>7, <1>8

(* The later steps of input_send are on an address it has.                 *)
LEMMA SendingFacts ==
  ASSUME TypeOK, BoundsInv, ThreadInv, NEW t \in Thread, Sending(t)
  PROVE  /\ udp[t] \in Known /\ udp[t] \in Addr
         /\ time_head[udp[t]] \in 1 .. Len(next)
         /\ next[time_head[udp[t]]] \in 0 .. Len(next)
         /\ t = "monitor_ack" => mode = 3
<1>1. udp[t] \in Known
  BY DEF ThreadInv, Sending
<1>2. t = "monitor_ack" => mode = 3
  BY DEF ThreadInv, Sending, TypeOK
<1> QED
  BY <1>1, <1>2, CellFacts

LEMMA PopKeepsBounds ==
  ASSUME IInv, NEW t \in Thread, stamp(t) \/ test(t) \/ free(t) \/ store(t)
  PROVE  /\ TypeOK' /\ BoundsInv' /\ ThreadInv' /\ UdpInv'
<1> USE DEF IInv
<1> DEFINE a == udp[t]
           head == time_head[a]
<1>1. /\ Sending(t) /\ UNCHANGED <<mode, udp_infos, time_tail, next, udp, alone>>
  BY DEF stamp, test, free, store, Goes, Sending
<1>2. /\ a \in Known /\ a \in Addr /\ head \in 1 .. Len(next) /\ head \in Cell
      /\ next[head] \in 0 .. Len(next) /\ next[head] \in Cell \cup {NULL}
      /\ Len(next) \in Nat
  BY <1>1, SendingFacts, CellFacts DEF Cell, NULL
<1>3. Known' = Known /\ Path(1)' = Path(1) /\ UdpInv'
  BY <1>1, SameAddresses
<1>4. \E p \in {"idle", "test", "free", "store"} : pc' = [pc EXCEPT ![t] = p]
  BY DEF stamp, test, free, store, Goes
<1>5. /\ pc' \in [Thread -> {"idle", "link", "stamp", "test", "free", "store"}]
      /\ \A u \in Thread : u # t => pc'[u] = pc[u]
      /\ pc'[t] \in {"idle", "test", "free", "store"}
  BY <1>4 DEF TypeOK
<1>6. /\ stamped' \in [Addr -> Cell \cup {NULL}]
      /\ \A b \in Addr : stamped'[b] \in 0 .. Len(next)
  <2>1. CASE stamped' = [stamped EXCEPT ![a] = head]
    BY <1>2, <2>1 DEF TypeOK, BoundsInv
  <2>2. CASE stamped' = stamped
    BY <2>2 DEF TypeOK, BoundsInv
  <2> QED
    BY <2>1, <2>2 DEF stamp, test, free, store
<1>7. /\ freed' \subseteq Cell /\ freed' \subseteq 1 .. Len(next)
  BY <1>2 DEF stamp, test, free, store, TypeOK, BoundsInv
<1>8. /\ time_head' \in [Addr -> Cell \cup {NULL}]
      /\ \A b \in Known : time_head'[b] \in 1 .. Len(next)
  <2>1. CASE time_head' = time_head
    BY <2>1 DEF TypeOK, BoundsInv
  <2>2. CASE store(t)
    <3>1. time_head' = [time_head EXCEPT ![a] = following[t]] /\ following[t] \in 1 .. Len(next)
      BY <2>2 DEF store, Goes, ThreadInv
    <3> QED
      BY <3>1, CellFacts DEF TypeOK
  <2> QED
    BY <2>1, <2>2 DEF stamp, test, free, store
<1>9. /\ following' \in [Thread -> Cell \cup {NULL}]
      /\ \A u \in Thread : u # t => following'[u] = following[u]
      /\ pc'[t] \in {"free", "store"} => following'[t] \in 1 .. Len(next)
  <2>1. CASE stamp(t)
    <3>1. following' = following /\ pc'[t] = "test"
      BY <2>1 DEF stamp, Goes, TypeOK
    <3> QED
      BY <3>1 DEF TypeOK
  <2>2. CASE test(t)
    <3>1. following' = [following EXCEPT ![t] = next[head]]
          /\ ((pc'[t] = "free" /\ next[head] # NULL) \/ pc'[t] = "idle")
      BY <2>2 DEF test, Goes, TypeOK
    <3> QED
      BY <1>2, <3>1 DEF TypeOK, NULL
  <2>3. CASE free(t)
    <3>1. following' = following /\ pc[t] = "free"
      BY <2>3 DEF free, Goes
    <3> QED
      BY <3>1 DEF TypeOK, ThreadInv
  <2>4. CASE store(t)
    <3>1. following' = [following EXCEPT ![t] = NULL] /\ pc'[t] = "idle"
      BY <2>4 DEF store, Goes, TypeOK
    <3> QED
      BY <3>1 DEF TypeOK
  <2> QED
    BY <2>1, <2>2, <2>3, <2>4
<1>10. broken' \in BOOLEAN
  <2>1. stamp(t) => broken' \in BOOLEAN
    BY DEF stamp
  <2>2. test(t) => broken' \in BOOLEAN
    BY DEF test
  <2>3. free(t) => broken' \in BOOLEAN
    BY DEF free
  <2>4. store(t) => broken' \in BOOLEAN
    BY DEF store, TypeOK
  <2> QED
    BY <2>1, <2>2, <2>3, <2>4
<1>11. TypeOK'
  BY <1>1, <1>5, <1>6, <1>7, <1>8, <1>9, <1>10 DEF TypeOK
<1>12. BoundsInv'
  BY <1>1, <1>3, <1>6, <1>7, <1>8 DEF BoundsInv
<1>13. ThreadInv'
  <2>1. \A u \in Thread : pc'[u] # "idle" => udp'[u] \in Known'
    BY <1>1, <1>2, <1>3, <1>5 DEF ThreadInv
  <2>2. \A u \in Thread : pc'[u] \in {"free", "store"} => following'[u] \in 1 .. Len(next')
    BY <1>1, <1>5, <1>9 DEF ThreadInv
  <2>3. pc'["monitor_ack"] # "link" /\ (mode' = 2 => pc'["monitor_ack"] = "idle")
    BY <1>1, <1>5, SendingFacts DEF ThreadInv, Thread
  <2>4. mode' = 3 /\ Sending("main")' => udp'["main"] = Path(1)'
    BY <1>1, <1>3, <1>5 DEF ThreadInv, Thread, Sending
  <2> QED
    BY <2>1, <2>2, <2>3, <2>4 DEF ThreadInv
<1> QED
  BY <1>3, <1>11, <1>12, <1>13
-----------------------------------------------------------------------------
(* The lists stay intact as long as monitor_ack has an address of its own. *)
LEMMA NewKeepsLists ==
  ASSUME IInv, ~alone, NEW a \in Addr, NEW type \in {0, 1}, update_udp_info_list_new(a, type)
  PROVE  ListInv'
<1> USE DEF IInv
<1>1. PICK own \in [1 .. Len(next) -> Addr] : ListsIntact(own)
  BY DEF ListInv
<1>2. /\ pc' = pc /\ pc["main"] = "idle" /\ a \notin Known
      /\ UNCHANGED <<mode, freed, udp, following, stamped>>
      /\ time_head' = [time_head EXCEPT ![a] = Len(next) + 1]
      /\ time_tail' = [time_tail EXCEPT ![a] = Len(next) + 1]
  BY DEF update_udp_info_list_new, Goes, TypeOK, NewCell
<1>3. /\ Len(next') = Len(next) + 1 /\ Len(next) \in Nat
      /\ next'[Len(next) + 1] = NULL
      /\ \A c \in 1 .. Len(next) : next'[c] = next[c] /\ c # Len(next) + 1
  BY NewCellAppended, CellFacts DEF update_udp_info_list_new
<1>4. Known' = Known \cup {a}
  BY NewAddress
<1>5. /\ time_head'[a] = Len(next) + 1 /\ time_tail'[a] = Len(next) + 1
      /\ \A b \in Known : time_head'[b] = time_head[b] /\ time_tail'[b] = time_tail[b] /\ b # a
  BY <1>2, CellFacts DEF TypeOK
<1>6. Sending("monitor_ack")' => NeverData(udp["monitor_ack"])'
  <2> SUFFICES ASSUME Sending("monitor_ack")' PROVE NeverData(udp["monitor_ack"])'
    OBVIOUS
  <2>1. NeverData(udp["monitor_ack"])
    BY <1>2 DEF Sending, ListInv
  <2>2. PICK b : b = udp["monitor_ack"] /\ b = udp'["monitor_ack"]
    BY <1>2
  <2>3. NeverData(b)'
    BY <2>1, <2>2, NeverDataStays
  <2>4. QED
    BY <2>2, <2>3 DEF NeverData
<1>7. PICK grown \in [1 .. Len(next') -> Addr] :
        /\ grown[Len(next) + 1] = a
        /\ \A c \in 1 .. Len(next) : grown[c] = own[c] /\ own[c] \in Known /\ grown[c] # a
  <2> DEFINE g == [c \in 1 .. Len(next) + 1 |-> IF c = Len(next) + 1 THEN a ELSE own[c]]
  <2>1. g \in [1 .. Len(next') -> Addr]
    BY <1>3
  <2>2. /\ g[Len(next) + 1] = a
        /\ \A c \in 1 .. Len(next) : g[c] = own[c] /\ own[c] \in Known /\ g[c] # a
    BY <1>1, <1>2, <1>3 DEF ListsIntact
  <2> HIDE DEF g
  <2> QED
    BY <2>1, <2>2
<1>8. \A b \in Known : LiveHead(b)' = LiveHead(b)
  <2> TAKE b \in Known
  <2>1. time_head'[b] = time_head[b] /\ next'[time_head[b]] = next[time_head[b]]
    BY <1>3, <1>5, CellFacts
  <2> QED
    BY <1>2, <2>1 DEF LiveHead
<1>9. LiveHead(a)' = Len(next) + 1
  <2>1. \A t \in Thread : pc[t] = "store" => udp[t] # a
    BY <1>2 DEF ThreadInv
  <2> QED
    BY <1>2, <1>5, <2>1 DEF LiveHead
<1>10. \A c \in 1 .. Len(next') : grown[c] \in Known'
  BY <1>3, <1>4, <1>7
<1>11. \A b \in Known' :
         grown[time_head'[b]] = b /\ grown[time_tail'[b]] = b /\ stamped'[b] <= time_head'[b]
  <2> SUFFICES ASSUME NEW b \in Known'
               PROVE  grown[time_head'[b]] = b /\ grown[time_tail'[b]] = b /\ stamped'[b] <= time_head'[b]
    OBVIOUS
  <2>1. CASE b = a
    <3>1. stamped[a] \in 0 .. Len(next)
      BY DEF BoundsInv
    <3> QED
      BY <1>2, <1>3, <1>5, <1>7, <2>1, <3>1
  <2>2. CASE b # a
    BY <1>1, <1>2, <1>4, <1>5, <1>7, <2>2, CellFacts DEF ListsIntact
  <2> QED
    BY <2>1, <2>2
<1>12. \A c \in 1 .. Len(next') : next'[c] # NULL => next'[c] > c /\ grown[next'[c]] = grown[c]
  <2> SUFFICES ASSUME NEW c \in 1 .. Len(next), next[c] # NULL
               PROVE  next[c] > c /\ grown[next[c]] = grown[c]
    BY <1>3
  <2>1. next[c] \in 1 .. Len(next) /\ next[c] > c /\ own[next[c]] = own[c]
    BY <1>1, CellFacts DEF ListsIntact, NULL
  <2> QED
    BY <1>7, <2>1
<1>13. \A c, d \in 1 .. Len(next') :
         grown[c] = grown[d] /\ c < d => next'[c] # NULL /\ next'[c] <= d
  <2> SUFFICES ASSUME NEW c \in 1 .. Len(next'), NEW d \in 1 .. Len(next'),
                      grown[c] = grown[d], c < d
               PROVE  next'[c] # NULL /\ next'[c] <= d
    OBVIOUS
  <2>1. c \in 1 .. Len(next)
    BY <1>3
  <2>2. d \in 1 .. Len(next)
    BY <1>3, <1>7, <2>1
  <2>3. own[c] = own[d] /\ next'[c] = next[c]
    BY <1>3, <1>7, <2>1, <2>2
  <2> QED
    BY <1>1, <2>1, <2>2, <2>3 DEF ListsIntact
<1>14. \A b \in Known' :
         IF pc'["main"] = "link" /\ udp'["main"] = b
         THEN grown[Len(next')] = b /\ next'[Len(next')] = NULL
         ELSE next'[time_tail'[b]] = NULL
  <2> SUFFICES ASSUME NEW b \in Known' PROVE next'[time_tail'[b]] = NULL
    BY <1>2
  <2>1. CASE b = a
    BY <1>3, <1>5, <2>1
  <2>2. CASE b # a
    <3>1. b \in Known /\ next[time_tail[b]] = NULL
      BY <1>1, <1>2, <1>4, <2>2 DEF ListsIntact
    <3> QED
      BY <1>3, <1>5, <3>1, CellFacts
  <2> QED
    BY <2>1, <2>2
<1>15. \A t \in Thread :
         pc'[t] \in {"free", "store"} => following'[t] = next'[time_head'[udp'[t]]]
  <2> SUFFICES ASSUME NEW t \in Thread, pc[t] \in {"free", "store"}
               PROVE  following[t] = next'[time_head'[udp[t]]]
    BY <1>2
  <2>1. udp[t] \in Known /\ following[t] = next[time_head[udp[t]]]
    BY <1>1 DEF ListsIntact, ThreadInv
  <2> QED
    BY <1>3, <1>5, <2>1, CellFacts
<1>16. \A c \in 1 .. Len(next') : c \in freed' <=> c < LiveHead(grown[c])'
  <2> SUFFICES ASSUME NEW c \in 1 .. Len(next') PROVE c \in freed <=> c < LiveHead(grown[c])'
    BY <1>2
  <2>1. CASE c = Len(next) + 1
    <3>1. c \notin freed
      BY <1>3, <2>1 DEF BoundsInv
    <3>2. LiveHead(grown[c])' = c
      BY <1>7, <1>9, <2>1
    <3> QED
      BY <3>1, <3>2
  <2>2. CASE c # Len(next) + 1
    <3>1. c \in 1 .. Len(next) /\ grown[c] = own[c] /\ own[c] \in Known
      BY <1>3, <1>7, <2>2
    <3>2. LiveHead(grown[c])' = LiveHead(own[c])
      BY <1>8, <3>1
    <3> QED
      BY <1>1, <3>1, <3>2 DEF ListsIntact
  <2> QED
    BY <2>1, <2>2
<1>17. ListsIntact(grown)'
  BY <1>10, <1>11, <1>12, <1>13, <1>14, <1>15, <1>16 DEF ListsIntact
<1> QED
  BY <1>6, <1>7, <1>17 DEF ListInv

LEMMA LinkKeepsLists ==
  ASSUME IInv, ~alone, NEW a \in Addr, update_udp_info_list_link(a)
  PROVE  ListInv' /\ ~broken'
<1> USE DEF IInv
<1>1. PICK own \in [1 .. Len(next) -> Addr] : ListsIntact(own)
  BY DEF ListInv
<1> DEFINE tail == time_tail[a]
<1>2. /\ pc["main"] = "idle" /\ pc' = [pc EXCEPT !["main"] = "link"]
      /\ a \in Known /\ udp' = [udp EXCEPT !["main"] = a]
      /\ broken' = (tail \in freed)
      /\ UNCHANGED <<mode, udp_infos, time_head, time_tail, freed, following, stamped>>
  BY DEF update_udp_info_list_link, Goes
<1>3. tail \in 1 .. Len(next) /\ Len(next) \in Nat /\ own[tail] = a /\ next[tail] = NULL
  BY <1>1, <1>2, CellFacts DEF ListsIntact
<1>4. /\ Len(next') = Len(next) + 1
      /\ next'[Len(next) + 1] = NULL
      /\ next'[tail] = Len(next) + 1
      /\ \A c \in 1 .. Len(next) : c # tail => next'[c] = next[c]
  BY <1>3, LinkKeepsBounds
<1>5. Known' = Known /\ \A b : NeverData(b) => NeverData(b)'
  BY <1>2, SameAddresses
<1>6. /\ pc'["main"] = "link" /\ udp'["main"] = a
      /\ pc'["monitor_ack"] = pc["monitor_ack"] /\ udp'["monitor_ack"] = udp["monitor_ack"]
  BY <1>2 DEF TypeOK, Thread
<1>7. Sending("monitor_ack")' => NeverData(udp["monitor_ack"])'
  <2> SUFFICES ASSUME Sending("monitor_ack")' PROVE NeverData(udp["monitor_ack"])'
    OBVIOUS
  <2>1. PICK b : b = udp["monitor_ack"] /\ b = udp'["monitor_ack"]
    BY <1>6
  <2>2. NeverData(b)'
    BY <1>5, <1>6, <2>1 DEF Sending, ListInv
  <2> QED
    BY <2>1, <2>2 DEF NeverData
<1>8. PICK grown \in [1 .. Len(next') -> Addr] :
        /\ grown[Len(next) + 1] = a
        /\ \A c \in 1 .. Len(next) : grown[c] = own[c] /\ own[c] \in Known
  <2> DEFINE g == [c \in 1 .. Len(next) + 1 |-> IF c = Len(next) + 1 THEN a ELSE own[c]]
  <2>1. g \in [1 .. Len(next') -> Addr]
    BY <1>4
  <2>2. /\ g[Len(next) + 1] = a
        /\ \A c \in 1 .. Len(next) : g[c] = own[c] /\ own[c] \in Known
    BY <1>1, <1>3 DEF ListsIntact
  <2> HIDE DEF g
  <2> QED
    BY <2>1, <2>2
(* Only the last cell of the address is changed, and nobody is to pop it.  *)
<1>9. \A t \in Thread : pc'[t] \in {"free", "store"} =>
        /\ pc[t] = pc'[t] /\ udp[t] = udp'[t] /\ udp[t] \in Known
        /\ following[t] = next'[time_head[udp[t]]]
        /\ next[time_head[udp[t]]] = next'[time_head[udp[t]]]
  <2> SUFFICES ASSUME NEW t \in Thread, pc'[t] \in {"free", "store"}
               PROVE  /\ pc[t] = pc'[t] /\ udp[t] = udp'[t] /\ udp[t] \in Known
                      /\ following[t] = next'[time_head[udp[t]]]
                      /\ next[time_head[udp[t]]] = next'[time_head[udp[t]]]
    OBVIOUS
  <2>1. pc[t] = pc'[t] /\ udp[t] = udp'[t] /\ udp[t] \in Known
    BY <1>6 DEF Thread, ThreadInv
  <2>2. following[t] \in 1 .. Len(next) /\ following[t] = next[time_head[udp[t]]]
    BY <1>1, <2>1 DEF ThreadInv, ListsIntact
  <2>3. time_head[udp[t]] # tail
    BY <1>3, <2>2 DEF NULL
  <2> QED
    BY <1>4, <2>1, <2>2, <2>3, CellFacts
<1>10. \A b \in Known : LiveHead(b)' = LiveHead(b)
  <2> TAKE b \in Known
  <2>1. CASE \E t \in Thread : pc[t] = "store" /\ udp[t] = b
    <3>1. PICK t \in Thread : pc[t] = "store" /\ udp[t] = b
      BY <2>1
    <3>2. t = "monitor_ack"
      BY <1>2, <3>1 DEF Thread
    <3>3. pc'[t] = "store" /\ udp'[t] = b /\ next'[time_head[b]] = next[time_head[b]]
      BY <1>6, <1>9, <3>1, <3>2
    <3>4. LiveHead(b)' = next'[time_head[b]]
      BY <1>2, <3>3 DEF LiveHead
    <3> QED
      BY <2>1, <3>3, <3>4 DEF LiveHead
  <2>2. CASE ~\E t \in Thread : pc[t] = "store" /\ udp[t] = b
    <3>1. ~\E t \in Thread : pc'[t] = "store" /\ udp'[t] = b
      BY <1>9, <2>2
    <3>2. LiveHead(b)' = time_head[b]
      BY <1>2, <3>1 DEF LiveHead
    <3> QED
      BY <2>2, <3>2 DEF LiveHead
  <2> QED
    BY <2>1, <2>2
<1>11. \A b \in Known' :
         grown[time_head'[b]] = b /\ grown[time_tail'[b]] = b /\ stamped'[b] <= time_head'[b]
  BY <1>1, <1>2, <1>5, <1>8, CellFacts DEF ListsIntact
<1>12. \A c \in 1 .. Len(next') : next'[c] # NULL => next'[c] > c /\ grown[next'[c]] = grown[c]
  <2> SUFFICES ASSUME NEW c \in 1 .. Len(next'), next'[c] # NULL
               PROVE  next'[c] > c /\ grown[next'[c]] = grown[c]
    OBVIOUS
  <2>1. c \in 1 .. Len(next)
    BY <1>3, <1>4
  <2>2. CASE c = tail
    BY <1>3, <1>4, <1>8, <2>2
  <2>3. CASE c # tail
    <3>1. next'[c] = next[c]
      BY <1>4, <2>1, <2>3
    <3>2. next[c] \in 1 .. Len(next) /\ next[c] > c /\ own[next[c]] = own[c]
      BY <1>1, <2>1, <3>1, CellFacts DEF ListsIntact, NULL
    <3> QED
      BY <1>8, <2>1, <3>1, <3>2
  <2> QED
    BY <2>2, <2>3
<1>13. \A c, d \in 1 .. Len(next') :
         grown[c] = grown[d] /\ c < d => next'[c] # NULL /\ next'[c] <= d
  <2> SUFFICES ASSUME NEW c \in 1 .. Len(next'), NEW d \in 1 .. Len(next'),
                      grown[c] = grown[d], c < d
               PROVE  next'[c] # NULL /\ next'[c] <= d
    OBVIOUS
  <2>1. c \in 1 .. Len(next) /\ grown[c] = own[c]
    BY <1>3, <1>4, <1>8
  <2>2. CASE d = Len(next) + 1
    <3>1. own[c] = own[tail]
      BY <1>3, <1>8, <2>1, <2>2
    <3>2. ~(tail < c)
      BY <1>1, <1>3, <2>1, <3>1 DEF ListsIntact
    <3>3. CASE c = tail
      BY <1>3, <1>4, <2>2, <3>3 DEF NULL
    <3>4. CASE c < tail
      <4>1. next[c] # NULL /\ next[c] <= tail /\ next'[c] = next[c]
        BY <1>1, <1>3, <1>4, <2>1, <3>1, <3>4 DEF ListsIntact
      <4> QED
        BY <1>3, <2>1, <2>2, <4>1, CellFacts
    <3> QED
      BY <1>3, <2>1, <3>2, <3>3, <3>4
  <2>3. CASE d # Len(next) + 1
    <3>0. d \in 1 .. Len(next)
      BY <1>3, <1>4, <2>3
    <3>1. d \in 1 .. Len(next) /\ own[c] = own[d]
      BY <1>8, <2>1, <3>0
    <3>2. next[c] # NULL /\ next[c] <= d
      BY <1>1, <2>1, <3>1 DEF ListsIntact
    <3>3. c # tail
      BY <1>3, <3>2
    <3> QED
      BY <1>4, <2>1, <3>2, <3>3
  <2> QED
    BY <2>2, <2>3
<1>14. \A b \in Known' :
         IF pc'["main"] = "link" /\ udp'["main"] = b
         THEN grown[Len(next')] = b /\ next'[Len(next')] = NULL
         ELSE next'[time_tail'[b]] = NULL
  <2> SUFFICES ASSUME NEW b \in Known', b # a PROVE next'[time_tail'[b]] = NULL
    BY <1>4, <1>6, <1>8
  <2>1. b \in Known /\ time_tail[b] \in 1 .. Len(next) /\ own[time_tail[b]] = b
        /\ next[time_tail[b]] = NULL
    BY <1>1, <1>2, <1>5, CellFacts DEF ListsIntact
  <2>2. time_tail[b] # tail
    BY <1>3, <2>1
  <2> QED
    BY <1>2, <1>4, <2>1, <2>2
<1>15. \A t \in Thread :
         pc'[t] \in {"free", "store"} => following'[t] = next'[time_head'[udp'[t]]]
  BY <1>2, <1>9
<1>16. \A c \in 1 .. Len(next') : c \in freed' <=> c < LiveHead(grown[c])'
  <2> SUFFICES ASSUME NEW c \in 1 .. Len(next') PROVE c \in freed <=> c < LiveHead(grown[c])'
    BY <1>2
  <2>1. LiveHead(grown[c])' = LiveHead(grown[c])
    BY <1>2, <1>3, <1>4, <1>8, <1>10
  <2>2. CASE c = Len(next) + 1
    <3>1. c \notin freed
      BY <1>3, <2>2 DEF BoundsInv
    <3>2. LiveHead(grown[c]) \in 1 .. Len(next)
      BY <1>1, <1>2, <1>8, <2>2, LiveHeadFacts
    <3> QED
      BY <1>3, <2>1, <2>2, <3>1, <3>2
  <2>3. CASE c # Len(next) + 1
    <3>1. c \in 1 .. Len(next) /\ grown[c] = own[c]
      BY <1>3, <1>4, <1>8, <2>3
    <3> QED
      BY <1>1, <2>1, <3>1 DEF ListsIntact
  <2> QED
    BY <2>2, <2>3
<1>17. \A c \in 1 .. Len(next') : grown[c] \in Known'
  BY <1>2, <1>3, <1>4, <1>5, <1>8
<1>18. ListsIntact(grown)'
  BY <1>11, <1>12, <1>13, <1>14, <1>15, <1>16, <1>17 DEF ListsIntact
<1>19. tail \notin freed
  <2>1. LiveHead(a) \in 1 .. Len(next) /\ own[LiveHead(a)] = own[tail]
    BY <1>1, <1>2, <1>3, LiveHeadFacts
  <2>2. ~(tail < LiveHead(a))
    BY <1>1, <1>3, <2>1 DEF ListsIntact
  <2> QED
    BY <1>1, <1>3, <2>2 DEF ListsIntact
<1> QED
  BY <1>2, <1>7, <1>8, <1>18, <1>19 DEF ListInv

LEMMA TailKeepsLists ==
  ASSUME IInv, ~alone, update_udp_info_list_tail
  PROVE  ListInv'
<1> USE DEF IInv
<1> DEFINE a == udp["main"]
<1>1. PICK own \in [1 .. Len(next) -> Addr] : ListsIntact(own)
  BY DEF ListInv
<1>2. /\ pc["main"] = "link" /\ pc' = [pc EXCEPT !["main"] = "idle"]
      /\ time_tail' = [time_tail EXCEPT ![a] = Len(next)]
      /\ UNCHANGED <<mode, udp_infos, time_head, next, freed, udp, following, stamped>>
  BY DEF update_udp_info_list_tail, Goes
<1>3. a \in Known /\ a \in Addr /\ own[Len(next)] = a /\ next[Len(next)] = NULL
  BY <1>1, <1>2, CellFacts DEF ThreadInv, Thread, ListsIntact
<1>4. Known' = Known /\ \A b : NeverData(b) => NeverData(b)'
  BY <1>2, SameAddresses
<1>5. /\ pc'["main"] = "idle" /\ pc'["monitor_ack"] = pc["monitor_ack"]
      /\ \A t \in Thread : pc'[t] \in {"free", "store"} => pc'[t] = pc[t]
      /\ \A t \in Thread : pc'[t] = "store" <=> pc[t] = "store"
  BY <1>2 DEF TypeOK, Thread
<1>6. /\ time_tail'[a] = Len(next)
      /\ \A b \in Known : b # a => time_tail'[b] = time_tail[b]
  BY <1>2, <1>3, CellFacts DEF TypeOK
<1>7. Sending("monitor_ack")' => NeverData(udp["monitor_ack"])'
  <2> SUFFICES ASSUME Sending("monitor_ack")' PROVE NeverData(udp["monitor_ack"])'
    OBVIOUS
  <2>1. PICK b : b = udp["monitor_ack"] /\ b = udp'["monitor_ack"]
    BY <1>2
  <2>2. NeverData(b)'
    BY <1>4, <1>5, <2>1 DEF Sending, ListInv
  <2> QED
    BY <2>1, <2>2 DEF NeverData
<1>8. \A b : LiveHead(b)' = LiveHead(b)
  BY <1>2, <1>5 DEF LiveHead
<1>9. \A b \in Known' :
        own[time_head'[b]] = b /\ own[time_tail'[b]] = b /\ stamped'[b] <= time_head'[b]
  BY <1>1, <1>2, <1>3, <1>4, <1>6 DEF ListsIntact
<1>10. \A b \in Known' :
         IF pc'["main"] = "link" /\ udp'["main"] = b
         THEN own[Len(next')] = b /\ next'[Len(next')] = NULL
         ELSE next'[time_tail'[b]] = NULL
  <2> SUFFICES ASSUME NEW b \in Known PROVE next[time_tail'[b]] = NULL
    BY <1>2, <1>4, <1>5
  <2>1. b # a => next[time_tail[b]] = NULL
    BY <1>1 DEF ListsIntact
  <2> QED
    BY <1>3, <1>6, <2>1
<1>11. \A t \in Thread :
         pc'[t] \in {"free", "store"} => following'[t] = next'[time_head'[udp'[t]]]
  BY <1>1, <1>2, <1>5 DEF ListsIntact
<1>12. /\ \A c \in 1 .. Len(next') : own[c] \in Known'
       /\ \A c \in 1 .. Len(next') : c \in freed' <=> c < LiveHead(own[c])'
  BY <1>1, <1>2, <1>4, <1>8 DEF ListsIntact
<1>13. /\ \A c \in 1 .. Len(next') : next'[c] # NULL => next'[c] > c /\ own[next'[c]] = own[c]
       /\ \A c, d \in 1 .. Len(next') :
            own[c] = own[d] /\ c < d => next'[c] # NULL /\ next'[c] <= d
  BY <1>1, <1>2 DEF ListsIntact
<1>14. ListsIntact(own)'
  BY <1>9, <1>10, <1>11, <1>12, <1>13 DEF ListsIntact
<1>15. own \in [1 .. Len(next') -> Addr]
  BY <1>2
<1> QED
  BY <1>7, <1>14, <1>15 DEF ListInv

LEMMA SendKeepsLists ==
  ASSUME IInv, NEW t \in Thread, input_send(t), ~alone'
  PROVE  ListInv'
<1> USE DEF IInv
<1>1. /\ pc[t] = "idle" /\ pc' = [pc EXCEPT ![t] = "stamp"] /\ udp_infos # <<>>
      /\ ~alone /\ ~(t = "monitor_ack" /\ Len(udp_infos) = 1)
      /\ UNCHANGED <<mode, udp_infos, time_head, time_tail, next, freed, following, stamped>>
  BY DEF input_send, Goes
<1>2. PICK own \in [1 .. Len(next) -> Addr] : ListsIntact(own)
  BY <1>1 DEF ListInv
<1>3. PICK a \in Choice(t) : udp' = [udp EXCEPT ![t] = a]
  BY DEF input_send
<1>4. Known' = Known /\ \A b : NeverData(b) => NeverData(b)'
  BY <1>1, SameAddresses
<1>5. /\ pc'[t] = "stamp" /\ udp'[t] = a
      /\ \A u \in Thread : u # t => pc'[u] = pc[u] /\ udp'[u] = udp[u]
  BY <1>1, <1>3 DEF TypeOK
<1>6. t = "monitor_ack" => NeverData(a)
  <2> SUFFICES ASSUME t = "monitor_ack" PROVE NeverData(a)
    OBVIOUS
  <2>1. a = Path(0)
    BY <1>3 DEF Choice, Resend
  <2>2. NeverData(Path(0))
    BY <1>1, ParityIsNeverData
  <2> QED
    BY <2>1, <2>2
<1>7. Sending("monitor_ack")' => NeverData(udp["monitor_ack"])'
  <2> SUFFICES ASSUME Sending("monitor_ack")' PROVE NeverData(udp["monitor_ack"])'
    OBVIOUS
  <2>1. PICK b : b = udp'["monitor_ack"]
    OBVIOUS
  <2>2. CASE t = "monitor_ack"
    <3>1. b = a /\ NeverData(b)'
      BY <1>4, <1>5, <1>6, <2>1, <2>2
    <3> QED
      BY <2>1, <3>1 DEF NeverData
  <2>3. CASE t # "monitor_ack"
    <3>1. b = udp["monitor_ack"] /\ pc'["monitor_ack"] = pc["monitor_ack"]
      BY <1>5, <2>1, <2>3 DEF Thread
    <3>2. NeverData(b)'
      BY <1>1, <1>4, <3>1 DEF Sending, ListInv
    <3> QED
      BY <2>1, <3>2 DEF NeverData
  <2> QED
    BY <2>2, <2>3
<1>8. /\ \A u \in Thread : pc'[u] \in {"free", "store", "link"} =>
                             pc[u] = pc'[u] /\ udp[u] = udp'[u]
      /\ \A u \in Thread : pc[u] \in {"free", "store", "link"} =>
                             pc[u] = pc'[u] /\ udp[u] = udp'[u]
  BY <1>1, <1>5
<1>9. \A b : LiveHead(b)' = LiveHead(b)
  <2> TAKE b
  <2>1. (\E u \in Thread : pc'[u] = "store" /\ udp'[u] = b)
          <=> \E u \in Thread : pc[u] = "store" /\ udp[u] = b
    BY <1>8
  <2> QED
    BY <1>1, <2>1 DEF LiveHead
<1>10. \A b \in Known' :
        own[time_head'[b]] = b /\ own[time_tail'[b]] = b /\ stamped'[b] <= time_head'[b]
  BY <1>1, <1>2, <1>4 DEF ListsIntact
<1>11. \A b \in Known' :
         IF pc'["main"] = "link" /\ udp'["main"] = b
         THEN own[Len(next')] = b /\ next'[Len(next')] = NULL
         ELSE next'[time_tail'[b]] = NULL
  <2>1. \A b : (pc'["main"] = "link" /\ udp'["main"] = b)
                 <=> (pc["main"] = "link" /\ udp["main"] = b)
    BY <1>8 DEF Thread
  <2> QED
    BY <1>1, <1>2, <1>4, <2>1 DEF ListsIntact
<1>12. \A u \in Thread :
         pc'[u] \in {"free", "store"} => following'[u] = next'[time_head'[udp'[u]]]
  BY <1>1, <1>2, <1>8 DEF ListsIntact
<1>13. /\ \A c \in 1 .. Len(next') : own[c] \in Known'
       /\ \A c \in 1 .. Len(next') : c \in freed' <=> c < LiveHead(own[c])'
  BY <1>1, <1>2, <1>4, <1>9 DEF ListsIntact
<1>14. /\ \A c \in 1 .. Len(next') : next'[c] # NULL => next'[c] > c /\ own[next'[c]] = own[c]
       /\ \A c, d \in 1 .. Len(next') :
            own[c] = own[d] /\ c < d => next'[c] # NULL /\ next'[c] <= d
  BY <1>1, <1>2 DEF ListsIntact
<1>15. ListsIntact(own)'
  BY <1>10, <1>11, <1>12, <1>13, <1>14 DEF ListsIntact
<1>16. own \in [1 .. Len(next') -> Addr]
  BY <1>1
<1> QED
  BY <1>7, <1>15, <1>16 DEF ListInv

(* stamp, test, free and store: the cell in front is popped.               *)
LEMMA PopKeepsPath ==
  ASSUME IInv, ~alone, NEW t \in Thread, stamp(t) \/ test(t) \/ free(t) \/ store(t)
  PROVE  /\ Sending("monitor_ack")' => NeverData(udp["monitor_ack"])'
         /\ Sending(t) /\ UNCHANGED <<udp_infos, time_tail, next, udp>>
         /\ Known' = Known
         /\ \A u \in Thread : u # t => pc'[u] = pc[u]
         /\ pc["main"] = "link" <=> pc'["main"] = "link"
<1> USE DEF IInv
<1>1. Sending(t) /\ UNCHANGED <<udp_infos, time_tail, next, udp>>
  BY DEF stamp, test, free, store, Goes, Sending
<1>2. \E p \in {"idle", "test", "free", "store"} : pc' = [pc EXCEPT ![t] = p]
  BY DEF stamp, test, free, store, Goes
<1>3. /\ \A u \in Thread : u # t => pc'[u] = pc[u]
      /\ pc'[t] \in {"idle", "test", "free", "store"}
  BY <1>2 DEF TypeOK
<1>4. pc["main"] = "link" <=> pc'["main"] = "link"
  BY <1>1, <1>3 DEF Sending, Thread
<1>5. Known' = Known /\ \A b : NeverData(b) => NeverData(b)'
  BY <1>1, SameAddresses
<1>6. Sending("monitor_ack")' => Sending("monitor_ack")
  BY <1>1, <1>3 DEF Sending, Thread
<1>7. Sending("monitor_ack")' => NeverData(udp["monitor_ack"])'
  <2> SUFFICES ASSUME Sending("monitor_ack")' PROVE NeverData(udp["monitor_ack"])'
    OBVIOUS
  <2>1. PICK b : b = udp["monitor_ack"] /\ b = udp'["monitor_ack"]
    BY <1>1
  <2>2. NeverData(b)'
    BY <1>5, <1>6, <2>1 DEF ListInv
  <2> QED
    BY <2>1, <2>2 DEF NeverData
<1> QED
  BY <1>1, <1>3, <1>4, <1>5, <1>7

LEMMA PopKeepsLinks ==
  ASSUME IInv, ~alone, NEW t \in Thread, stamp(t) \/ test(t) \/ free(t) \/ store(t),
         NEW own \in [1 .. Len(next) -> Addr], ListsIntact(own),
         \A b \in Known : own[time_head'[b]] = b /\ stamped'[b] <= time_head'[b],
         \A u \in Thread :
           pc'[u] \in {"free", "store"} => following'[u] = next[time_head'[udp[u]]],
         \A c \in 1 .. Len(next) : c \in freed' <=> c < LiveHead(own[c])'
  PROVE  ListInv'
<1> USE DEF IInv
<1>1. /\ UNCHANGED <<udp_infos, time_tail, next, udp>> /\ Known' = Known
      /\ pc["main"] = "link" <=> pc'["main"] = "link"
  BY PopKeepsPath
<1>2. \A b \in Known' :
        own[time_head'[b]] = b /\ own[time_tail'[b]] = b /\ stamped'[b] <= time_head'[b]
  BY <1>1 DEF ListsIntact
<1>3. \A b \in Known' :
         IF pc'["main"] = "link" /\ udp'["main"] = b
         THEN own[Len(next')] = b /\ next'[Len(next')] = NULL
         ELSE next'[time_tail'[b]] = NULL
  BY <1>1 DEF ListsIntact
<1>4. \A u \in Thread :
         pc'[u] \in {"free", "store"} => following'[u] = next'[time_head'[udp'[u]]]
  BY <1>1
<1>5. /\ \A c \in 1 .. Len(next') : own[c] \in Known'
      /\ \A c \in 1 .. Len(next') : c \in freed' <=> c < LiveHead(own[c])'
  BY <1>1 DEF ListsIntact
<1>6. /\ \A c \in 1 .. Len(next') : next'[c] # NULL => next'[c] > c /\ own[next'[c]] = own[c]
      /\ \A c, d \in 1 .. Len(next') :
           own[c] = own[d] /\ c < d => next'[c] # NULL /\ next'[c] <= d
  BY <1>1 DEF ListsIntact
<1>7. ListsIntact(own)'
  BY <1>2, <1>3, <1>4, <1>5, <1>6 DEF ListsIntact
<1>8. own \in [1 .. Len(next') -> Addr]
  BY <1>1
<1> QED
  BY <1>7, <1>8, PopKeepsPath DEF ListInv

(* The cell in front of the list of a thread that sends, and not yet pops. *)
LEMMA FrontFacts ==
  ASSUME IInv, ~alone, NEW t \in Thread, Sending(t),
         NEW own \in [1 .. Len(next) -> Addr], ListsIntact(own)
  PROVE  /\ udp[t] \in Known /\ udp[t] \in Addr
         /\ time_head[udp[t]] \in 1 .. Len(next)
         /\ own[time_head[udp[t]]] = udp[t]
         /\ stamped[udp[t]] <= time_head[udp[t]]
         /\ \A c \in 1 .. Len(next) : c \in Nat
         /\ pc[t] # "store" => time_head[udp[t]] \notin freed
<1> USE DEF IInv
<1>1. /\ udp[t] \in Known /\ udp[t] \in Addr
      /\ time_head[udp[t]] \in 1 .. Len(next)
      /\ own[time_head[udp[t]]] = udp[t]
      /\ stamped[udp[t]] <= time_head[udp[t]]
  BY SendingFacts DEF ListsIntact
<1>2. \A c \in 1 .. Len(next) : c \in Nat
  BY CellFacts
<1>3. ASSUME pc[t] # "store" PROVE time_head[udp[t]] \notin freed
  <2>1. LiveHead(udp[t]) = time_head[udp[t]]
    BY <1>3, LiveHeadFacts DEF ListInv, Sending
  <2>2. ~(time_head[udp[t]] < LiveHead(udp[t]))
    BY <1>1, <1>2, <2>1
  <2> QED
    BY <1>1, <2>2 DEF ListsIntact
<1> QED
  BY <1>1, <1>2, <1>3

LEMMA StampKeepsLists ==
  ASSUME IInv, ~alone, NEW t \in Thread, stamp(t)
  PROVE  ListInv' /\ ~broken'
<1> USE DEF IInv
<1> DEFINE a == udp[t]
           head == time_head[a]
<1>1. PICK own \in [1 .. Len(next) -> Addr] : ListsIntact(own)
  BY DEF ListInv
<1>2. /\ pc[t] = "stamp" /\ pc' = [pc EXCEPT ![t] = "test"]
      /\ stamped' = [stamped EXCEPT ![a] = head]
      /\ broken' = (head \in freed \/ head < stamped[a])
      /\ UNCHANGED <<time_head, next, freed, udp, following>>
  BY DEF stamp, Goes
<1>3. Sending(t)
  BY <1>2 DEF Sending
<1>4. /\ a \in Known /\ a \in Addr /\ head \in 1 .. Len(next) /\ own[head] = a
      /\ stamped[a] <= head /\ head \in Nat /\ head \notin freed
  BY <1>1, <1>2, <1>3, FrontFacts
<1>5. \A b \in Known : own[time_head'[b]] = b /\ stamped'[b] <= time_head'[b]
  BY <1>1, <1>2, <1>4, CellFacts DEF ListsIntact, TypeOK
<1>6. \A u \in Thread : pc'[u] \in {"free", "store"} <=> pc[u] \in {"free", "store"}
  BY <1>2 DEF TypeOK
<1>7. \A u \in Thread : pc'[u] = "store" <=> pc[u] = "store"
  BY <1>2 DEF TypeOK
<1>8. \A u \in Thread :
        pc'[u] \in {"free", "store"} => following'[u] = next[time_head'[udp[u]]]
  BY <1>1, <1>2, <1>6 DEF ListsIntact
<1>9. \A b : LiveHead(b)' = LiveHead(b)
  BY <1>2, <1>7 DEF LiveHead
<1>10. \A c \in 1 .. Len(next) : c \in freed' <=> c < LiveHead(own[c])'
  BY <1>1, <1>2, <1>9 DEF ListsIntact
<1>11. ListInv'
  BY <1>1, <1>5, <1>8, <1>10, PopKeepsLinks
<1>12. ~broken'
  <2>1. stamped[a] \in 0 .. Len(next)
    BY <1>4 DEF BoundsInv
  <2>2. ~(head < stamped[a])
    BY <1>4, <2>1
  <2> QED
    BY <1>2, <1>4, <2>2
<1> QED
  BY <1>11, <1>12

LEMMA TestKeepsLists ==
  ASSUME IInv, ~alone, NEW t \in Thread, test(t)
  PROVE  ListInv' /\ ~broken'
<1> USE DEF IInv
<1> DEFINE a == udp[t]
           head == time_head[a]
<1>1. PICK own \in [1 .. Len(next) -> Addr] : ListsIntact(own)
  BY DEF ListInv
<1>2. /\ pc[t] = "test"
      /\ pc' = [pc EXCEPT ![t] = "free"] \/ pc' = [pc EXCEPT ![t] = "idle"]
      /\ following' = [following EXCEPT ![t] = next[head]]
      /\ broken' = (head \in freed)
      /\ UNCHANGED <<time_head, next, freed, udp, stamped>>
  BY DEF test, Goes
<1>3. Sending(t)
  BY <1>2 DEF Sending
<1>4. head \notin freed
  BY <1>1, <1>2, <1>3, FrontFacts
<1>5. \A b \in Known : own[time_head'[b]] = b /\ stamped'[b] <= time_head'[b]
  BY <1>1, <1>2 DEF ListsIntact
<1>6. \A u \in Thread : u # t => pc'[u] = pc[u] /\ following'[u] = following[u]
  BY <1>2 DEF TypeOK
<1>7. following'[t] = next[head] /\ pc'[t] # "store"
  BY <1>2 DEF TypeOK
<1>8. \A u \in Thread :
        pc'[u] \in {"free", "store"} => following'[u] = next[time_head'[udp[u]]]
  BY <1>1, <1>2, <1>6, <1>7 DEF ListsIntact
<1>9. \A b : LiveHead(b)' = LiveHead(b)
  <2>1. \A u \in Thread : pc'[u] = "store" <=> pc[u] = "store"
    BY <1>2, <1>6, <1>7
  <2> QED
    BY <1>2, <2>1 DEF LiveHead
<1>10. \A c \in 1 .. Len(next) : c \in freed' <=> c < LiveHead(own[c])'
  BY <1>1, <1>2, <1>9 DEF ListsIntact
<1>11. ListInv'
  BY <1>1, <1>5, <1>8, <1>10, PopKeepsLinks
<1> QED
  BY <1>2, <1>4, <1>11

LEMMA FreeKeepsLists ==
  ASSUME IInv, ~alone, NEW t \in Thread, free(t)
  PROVE  ListInv' /\ ~broken'
<1> USE DEF IInv
<1> DEFINE a == udp[t]
           head == time_head[a]
<1>1. PICK own \in [1 .. Len(next) -> Addr] : ListsIntact(own)
  BY DEF ListInv
<1>2. /\ pc[t] = "free" /\ pc' = [pc EXCEPT ![t] = "store"]
      /\ freed' = freed \cup {head}
      /\ broken' = (head \in freed)
      /\ UNCHANGED <<time_head, next, udp, following, stamped>>
  BY DEF free, Goes
<1>3. Sending(t)
  BY <1>2 DEF Sending
<1>4. /\ a \in Known /\ a \in Addr /\ head \in 1 .. Len(next) /\ own[head] = a
      /\ head \in Nat /\ head \notin freed
  BY <1>1, <1>2, <1>3, FrontFacts
<1>5. \A b \in Known : own[time_head'[b]] = b /\ stamped'[b] <= time_head'[b]
  BY <1>1, <1>2 DEF ListsIntact
<1>6. pc'[t] = "store" /\ \A u \in Thread : u # t => pc'[u] = pc[u]
  BY <1>2 DEF TypeOK
<1>7. \A u \in Thread :
        pc'[u] \in {"free", "store"} => following'[u] = next[time_head'[udp[u]]]
  BY <1>1, <1>2, <1>6 DEF ListsIntact
<1>8. /\ LiveHead(a) = head
      /\ LiveHead(a)' = next[head]
      /\ \A b : b # a => LiveHead(b)' = LiveHead(b)
  <2>1. LiveHead(a) = head
    BY <1>1, <1>2, LiveHeadFacts DEF ListInv
  <2>2. LiveHead(a)' = next[head]
    BY <1>2, <1>6 DEF LiveHead
  <2>3. ASSUME NEW b, b # a PROVE LiveHead(b)' = LiveHead(b)
    <3>1. \A u \in Thread : udp[u] = b => (pc'[u] = "store" <=> pc[u] = "store")
      BY <1>6, <2>3
    <3> QED
      BY <1>2, <3>1 DEF LiveHead
  <2> QED
    BY <2>1, <2>2, <2>3
<1>9. /\ next[head] # NULL /\ next[head] \in 1 .. Len(next) /\ next[head] > head
      /\ \A d \in 1 .. Len(next) : own[d] = a /\ head < d => next[head] <= d
  <2>1. following[t] \in 1 .. Len(next) /\ following[t] = next[head]
    BY <1>1, <1>2 DEF ThreadInv, ListsIntact
  <2>2. next[head] # NULL /\ next[head] \in 1 .. Len(next)
    BY <2>1, CellFacts DEF NULL
  <2> QED
    BY <1>1, <1>4, <2>2 DEF ListsIntact
<1>10. ASSUME NEW c \in 1 .. Len(next)
       PROVE  c \in freed' <=> c < LiveHead(own[c])'
  <2>1. c \in freed <=> c < LiveHead(own[c])
    BY <1>1 DEF ListsIntact
  <2>2. c \in Nat
    BY CellFacts
  <2>3. CASE own[c] # a
    <3>1. c # head
      BY <1>4, <2>3
    <3> QED
      BY <1>2, <1>8, <2>1, <2>3, <3>1
  <2>4. CASE own[c] = a
    <3>1. c \in freed <=> c < head
      BY <1>8, <2>1, <2>4
    <3>2. c \in freed' <=> c <= head
      BY <1>2, <1>4, <2>2, <3>1
    <3>3. head < c => next[head] <= c
      BY <1>9, <2>4
    <3>4. c <= head <=> c < next[head]
      BY <1>4, <1>9, <2>2, <3>3, CellFacts
    <3>5. LiveHead(own[c])' = next[head]
      BY <1>2, <1>8, <2>4 DEF LiveHead
    <3> QED
      BY <3>2, <3>4, <3>5
  <2> QED
    BY <2>3, <2>4
<1>11. ListInv'
  BY <1>1, <1>5, <1>7, <1>10, PopKeepsLinks
<1> QED
  BY <1>2, <1>4, <1>11

LEMMA StoreKeepsLists ==
  ASSUME IInv, ~alone, NEW t \in Thread, store(t)
  PROVE  ListInv'
<1> USE DEF IInv
<1> DEFINE a == udp[t]
           head == time_head[a]
<1>1. PICK own \in [1 .. Len(next) -> Addr] : ListsIntact(own)
  BY DEF ListInv
<1>2. /\ pc[t] = "store" /\ pc' = [pc EXCEPT ![t] = "idle"]
      /\ time_head' = [time_head EXCEPT ![a] = following[t]]
      /\ following' = [following EXCEPT ![t] = NULL]
      /\ UNCHANGED <<next, freed, udp, stamped>>
  BY DEF store, Goes
<1>3. Sending(t)
  BY <1>2 DEF Sending
<1>4. /\ a \in Known /\ a \in Addr /\ head \in 1 .. Len(next) /\ own[head] = a
      /\ stamped[a] <= head /\ head \in Nat
  BY <1>1, <1>3, FrontFacts
<1>5. /\ following[t] = next[head] /\ next[head] \in 1 .. Len(next)
      /\ next[head] > head /\ own[next[head]] = a
  <2>1. following[t] \in 1 .. Len(next) /\ following[t] = next[head]
    BY <1>1, <1>2 DEF ThreadInv, ListsIntact
  <2>2. next[head] # NULL /\ next[head] \in 1 .. Len(next)
    BY <2>1, CellFacts DEF NULL
  <2> QED
    BY <1>1, <1>4, <2>1, <2>2 DEF ListsIntact
<1>6. /\ time_head'[a] = next[head]
      /\ \A b \in Known : b # a => time_head'[b] = time_head[b]
  BY <1>2, <1>4, <1>5, CellFacts DEF TypeOK
<1>7. \A b \in Known : own[time_head'[b]] = b /\ stamped'[b] <= time_head'[b]
  <2> TAKE b \in Known
  <2>1. CASE b = a
    <3>1. stamped[a] \in 0 .. Len(next)
      BY <1>4 DEF BoundsInv
    <3>2. stamped[a] <= next[head]
      BY <1>4, <1>5, <3>1, CellFacts
    <3> QED
      BY <1>2, <1>5, <1>6, <2>1, <3>2
  <2>2. CASE b # a
    BY <1>1, <1>2, <1>6, <2>2 DEF ListsIntact
  <2> QED
    BY <2>1, <2>2
<1>8. /\ pc'[t] = "idle"
      /\ \A u \in Thread : u # t => pc'[u] = pc[u] /\ following'[u] = following[u]
  BY <1>2 DEF TypeOK
<1>9. \A u \in Thread : u # t /\ Sending(u) => udp[u] # a /\ udp[u] \in Known
  BY <1>3, Separate, SendingFacts DEF ListInv
<1>10. \A u \in Thread :
         pc'[u] \in {"free", "store"} => following'[u] = next[time_head'[udp[u]]]
  <2> SUFFICES ASSUME NEW u \in Thread, pc'[u] \in {"free", "store"}
               PROVE  following'[u] = next[time_head'[udp[u]]]
    OBVIOUS
  <2>1. u # t /\ pc[u] \in {"free", "store"} /\ following'[u] = following[u]
    BY <1>8
  <2>2. time_head'[udp[u]] = time_head[udp[u]]
    BY <1>6, <1>9, <2>1 DEF Sending
  <2> QED
    BY <1>1, <2>1, <2>2 DEF ListsIntact
<1>11. \A b \in Known : LiveHead(b)' = LiveHead(b)
  <2> TAKE b \in Known
  <2>1. CASE b = a
    <3>1. ~\E u \in Thread : pc'[u] = "store" /\ udp'[u] = a
      BY <1>2, <1>8, <1>9 DEF Sending
    <3>2. LiveHead(a)' = next[head]
      BY <1>2, <1>6, <3>1 DEF LiveHead
    <3>3. LiveHead(a) = next[head]
      BY <1>2 DEF LiveHead
    <3> QED
      BY <1>2, <2>1, <3>2, <3>3 DEF LiveHead
  <2>2. CASE b # a
    <3>1. (\E u \in Thread : pc'[u] = "store" /\ udp'[u] = b)
            <=> \E u \in Thread : pc[u] = "store" /\ udp[u] = b
      BY <1>2, <1>8, <2>2
    <3> QED
      BY <1>2, <1>6, <2>2, <3>1 DEF LiveHead
  <2> QED
    BY <2>1, <2>2
<1>12. \A c \in 1 .. Len(next) : c \in freed' <=> c < LiveHead(own[c])'
  BY <1>1, <1>2, <1>11 DEF ListsIntact
<1> QED
  BY <1>1, <1>7, <1>10, <1>12, PopKeepsLinks
-----------------------------------------------------------------------------
LEMMA InitIInv == Init => IInv
<1> SUFFICES ASSUME Init PROVE IInv
  OBVIOUS
<1>1. udp_infos = <<>> /\ DOMAIN udp_infos = {} /\ Known = {}
  BY DEF Init, Known
<1>2. next = <<>> /\ Len(next) = 0 /\ 1 .. Len(next) = {}
  BY DEF Init
<1>3. TypeOK
  <2>1. /\ time_head \in [Addr -> Cell \cup {NULL}] /\ time_tail \in [Addr -> Cell \cup {NULL}]
        /\ stamped \in [Addr -> Cell \cup {NULL}]
    BY DEF Init
  <2>2. /\ pc \in [Thread -> {"idle", "link", "stamp", "test", "free", "store"}]
        /\ udp \in [Thread -> Addr \cup {NULL}] /\ following \in [Thread -> Cell \cup {NULL}]
    BY DEF Init
  <2>3. udp_infos \in Seq([addr : Addr, type : {0, 1}]) /\ next \in Seq(Cell \cup {NULL})
    BY <1>1, <1>2
  <2> QED
    BY <2>1, <2>2, <2>3 DEF Init, TypeOK
<1>4. BoundsInv
  BY <1>1, <1>2, PathsAssumption DEF Init, BoundsInv, NULL
<1>5. ThreadInv
  BY DEF Init, ThreadInv, Sending, Thread
<1>6. UdpInv
  BY <1>1 DEF UdpInv
<1>7. ListInv
  <2>1. ~Sending("monitor_ack")
    BY DEF Init, Sending, Thread
  <2>2. PICK own \in [1 .. Len(next) -> Addr] : TRUE
    <3>1. [c \in {} |-> NULL] \in [{} -> Addr]
      OBVIOUS
    <3> QED
      BY <1>2, <3>1
  <2>3. ListsIntact(own)
    BY <1>1, <1>2 DEF Init, ListsIntact, Thread
  <2> QED
    BY <2>1, <2>3 DEF ListInv
<1> QED
  BY <1>3, <1>4, <1>5, <1>6, <1>7 DEF Init, IInv

LEMMA StepIInv == IInv /\ [Next]_vars => IInv'
<1> SUFFICES ASSUME IInv, [Next]_vars PROVE IInv'
  OBVIOUS
<1>1. ASSUME NEW a \in Addr, NEW type \in {0, 1}, update_udp_info_list_new(a, type)
      PROVE  IInv'
  <2>1. alone' = alone /\ broken' = broken /\ ~broken
    BY <1>1 DEF update_udp_info_list_new, Goes
  <2>2. ~alone => ListInv'
    BY <1>1, NewKeepsLists
  <2> QED
    BY <1>1, <2>1, <2>2, NewKeepsBounds DEF IInv
<1>2. ASSUME NEW a \in Addr, update_udp_info_list_link(a)
      PROVE  IInv'
  <2>1. alone' = alone
    BY <1>2 DEF update_udp_info_list_link
  <2>2. ~alone => ListInv' /\ ~broken'
    BY <1>2, LinkKeepsLists
  <2> QED
    BY <1>2, <2>1, <2>2, LinkKeepsBounds DEF IInv
<1>3. ASSUME update_udp_info_list_tail PROVE IInv'
  <2>1. alone' = alone /\ broken' = broken /\ ~broken
    BY <1>3 DEF update_udp_info_list_tail, Goes
  <2>2. ~alone => ListInv'
    BY <1>3, TailKeepsLists
  <2> QED
    BY <1>3, <2>1, <2>2, TailKeepsBounds DEF IInv
<1>4. ASSUME NEW t \in Thread, input_send(t) PROVE IInv'
  <2>1. broken' = broken /\ ~broken
    BY <1>4 DEF input_send, Goes
  <2>2. ~alone' => ListInv'
    BY <1>4, SendKeepsLists
  <2> QED
    BY <1>4, <2>1, <2>2, SendKeepsBounds DEF IInv
<1>5. ASSUME NEW t \in Thread, stamp(t) \/ test(t) \/ free(t) \/ store(t) PROVE IInv'
  <2>1. alone' = alone
    BY <1>5 DEF stamp, test, free, store
  <2>2. store(t) => broken' = broken /\ ~broken
    BY DEF store, Goes
  <2>3. ~alone => ListInv' /\ ~broken'
    BY <1>5, <2>2, StampKeepsLists, TestKeepsLists, FreeKeepsLists, StoreKeepsLists
  <2> QED
    BY <1>5, <2>1, <2>3, PopKeepsBounds DEF IInv
<1>6. CASE UNCHANGED vars
  <2>1. UNCHANGED <<mode, udp_infos, time_head, time_tail, next, freed, pc, udp, following,
                    stamped, alone, broken>>
    BY <1>6 DEF vars
  <2>2. /\ Known' = Known /\ Path(1)' = Path(1) /\ UdpInv'
        /\ \A b : NeverData(b) => NeverData(b)'
    BY <2>1, SameAddresses DEF IInv
  <2>3. TypeOK' /\ BoundsInv' /\ ThreadInv'
    BY <2>1, <2>2 DEF IInv, TypeOK, BoundsInv, ThreadInv, Sending
  <2>4. ~alone => ListInv'
    <3> SUFFICES ASSUME ~alone PROVE ListInv'
      OBVIOUS
    <3>1. PICK own \in [1 .. Len(next) -> Addr] : ListsIntact(own)
      BY DEF IInv, ListInv
    <3>2. ListsIntact(own)'
      BY <2>1, <2>2, <3>1 DEF ListsIntact, LiveHead
    <3>3. Sending("monitor_ack")' => NeverData(udp["monitor_ack"])'
      BY <2>1 DEF IInv, ListInv, NeverData, Sending
    <3> QED
      BY <2>1, <3>1, <3>2, <3>3 DEF ListInv
  <2> QED
    BY <2>1, <2>2, <2>3, <2>4 DEF IInv
<1> QED
  BY <1>1, <1>2, <1>3, <1>4, <1>5, <1>6 DEF Next

(* The invariant, for every number of addresses and packets.               *)
THEOREM Invariance == Spec => []IInv
  BY InitIInv, StepIInv, PTL DEF Spec

(* input_send (fec.c:517-576) and update_udp_info_list (fec.c:1163-1193)   *)
(* share the list of an address without a lock, and yet no freed time is   *)
(* used, freed again or sent after a later one, as long as monitor_ack     *)
(* never takes the only address there is.                                  *)
THEOREM ListsStayIntact == Spec => []TimesIntact
<1>1. IInv => TimesIntact
  BY DEF IInv, TimesIntact
<1> QED
  BY <1>1, Invariance, PTL
=============================================================================
