---------------------------- MODULE SenderProofs -----------------------------
(***************************************************************************)
(* The sender for every group size, number of parity blocks and length of  *)
(* a session: packets are numbered in sequence, a group's parity blocks    *)
(* are made of its packets, and the two kinds of packets go separate ways. *)
(***************************************************************************)
EXTENDS Sender, SequenceTheorems, WellFoundedInduction, TLAPS

(* A walk along a list that remembers the last cell of a kind finds one.   *)
LEMMA LastOfKind ==
  ASSUME NEW n \in Nat, NEW T \in SUBSET (1 .. n), T # {}
  PROVE  Max(T) \in T /\ \A j \in T : j <= Max(T)
<1> DEFINE D == {n - k : k \in T}
<1>1. D \subseteq Nat /\ D # {}
  <2>1. \A k \in T : n - k \in Nat
    OBVIOUS
  <2>2. PICK k \in T : TRUE
    OBVIOUS
  <2>3. n - k \in D
    OBVIOUS
  <2> QED
    BY <2>1, <2>3
<1> DEFINE R == OpToRel(<, Nat)
<1>2. IsWellFoundedOn(R, Nat)
  BY NatLessThanWellFounded
<1>3. \A x, y \in Nat : x < y => <<x, y>> \in R
  BY DEF OpToRel
<1> HIDE DEF R
<1>4. PICK d \in D : \A e \in D : ~(<<e, d>> \in R)
  BY <1>1, <1>2, WFMin
<1>5. PICK k \in T : d = n - k
  OBVIOUS
<1>6. ASSUME NEW j \in T PROVE j <= k
  <2>1. n - j \in D /\ n - j \in Nat /\ d \in Nat
    BY <1>1
  <2>2. ~(n - j < d)
    BY <1>3, <1>4, <2>1
  <2> QED
    BY <1>5, <2>2
<1>7. k >= k /\ \A j \in T : k >= j
  BY <1>6
<1> QED
  BY <1>7 DEF Max

-----------------------------------------------------------------------------
IdOf(m) == [group_id |-> m.group_id, index |-> m.index % DataNum]

(* The place the next packet gets.                                         *)
Place == [group_id |-> group_id, index |-> NextIndexOf(index)]

(* An address is listed once, and nothing is sent before the first is.     *)
UdpInv ==
  /\ \A j, k \in DOMAIN udp_infos : udp_infos[j].addr = udp_infos[k].addr => j = k
  /\ udp_infos = <<>> => wire = {} /\ parity = {}

(* The buffers up to index hold the last packets taken.                    *)
BufferInv ==
  /\ index + 1 <= taken
  /\ \A j \in 0 .. index : packet_buffers[j] = taken - (index - j)

(* The last packet sent is the one in front of the next place.             *)
WireInv ==
  /\ \A m \in wire : m.body <= taken
  /\ \A m \in wire : m.body = taken => NextId(IdOf(m)) = Place
  /\ \A m, n \in wire :
       /\ n.body = m.body => IdOf(n) = IdOf(m)
       /\ n.body = m.body + 1 => IdOf(n) = NextId(IdOf(m))

ParityInv ==
  \A p \in parity : \A i, j \in Index :
    p.body[i] \in Packet /\ p.body[i] - p.body[j] = i - j

IInv == TypeOK /\ UdpInv /\ BufferInv /\ WireInv /\ ParityInv
-----------------------------------------------------------------------------
LEMMA Sizes ==
  /\ DataNum \in Nat \ {0} /\ GroupMod \in Nat \ {0}
  /\ ParityNum \in Nat /\ MaxPacket \in Nat
BY PacketIdAssumption, SenderAssumption

(* Arithmetic of the group_id and of a copy's index.                       *)
LEMMA Remainders ==
  /\ \A g \in GroupId : (g + 1) % GroupMod = IF g = GroupMod - 1 THEN 0 ELSE g + 1
  /\ \A i \in Index : i % DataNum = i /\ (i + DataNum) % DataNum = i
<1>1. ASSUME NEW n \in Nat \ {0}, NEW a \in 0 .. n - 1
      PROVE  a % n = a
  OBVIOUS
<1>2. ASSUME NEW n \in Nat \ {0}, NEW a \in n .. 2 * n - 1
      PROVE  a % n = a - n
  OBVIOUS
<1>3. ASSUME NEW g \in GroupId
      PROVE  (g + 1) % GroupMod = IF g = GroupMod - 1 THEN 0 ELSE g + 1
  <2>1. CASE g = GroupMod - 1
    <3>1. g + 1 = GroupMod /\ GroupMod \in GroupMod .. 2 * GroupMod - 1
      BY <2>1, Sizes
    <3>2. GroupMod % GroupMod = GroupMod - GroupMod
      BY <1>2, <3>1, Sizes
    <3> QED
      BY <2>1, <3>1, <3>2, Sizes
  <2>2. CASE g # GroupMod - 1
    <3>1. g + 1 \in 0 .. GroupMod - 1
      BY <2>2, Sizes DEF GroupId
    <3> QED
      BY <1>1, <2>2, <3>1, Sizes
  <2> QED
    BY <2>1, <2>2
<1>4. ASSUME NEW i \in Index
      PROVE  i % DataNum = i /\ (i + DataNum) % DataNum = i
  <2>1. i \in 0 .. DataNum - 1 /\ i + DataNum \in DataNum .. 2 * DataNum - 1
    BY Sizes DEF Index
  <2>2. i % DataNum = i
    BY <1>1, <2>1, Sizes
  <2>3. (i + DataNum) % DataNum = (i + DataNum) - DataNum
    BY <1>2, <2>1, Sizes
  <2> QED
    BY <2>1, <2>2, <2>3, Sizes
<1> QED
  BY <1>3, <1>4

(* The way to the client is an address of the type, if one is known.       *)
LEMMA PathFacts ==
  ASSUME TypeOK, udp_infos # <<>>, NEW type
  PROVE  \E k \in DOMAIN udp_infos :
           /\ Path(type) = udp_infos[k].addr
           /\ Path(type) \in Addr
           /\ Known(type) => udp_infos[k].type = type
<1> DEFINE ofType == {k \in DOMAIN udp_infos : udp_infos[k].type = type}
           k == IF ofType = {} THEN 1 ELSE Max(ofType)
<1>1. Len(udp_infos) \in Nat /\ DOMAIN udp_infos = 1 .. Len(udp_infos)
  BY LenProperties DEF TypeOK
<1>2. ofType # {} => Max(ofType) \in ofType
  BY <1>1, LastOfKind
<1>3. 1 \in DOMAIN udp_infos
  BY <1>1, EmptySeq, Sizes DEF TypeOK
<1>4. k \in DOMAIN udp_infos
  BY <1>2, <1>3
<1>5. udp_infos[k] \in UdpInfo
  BY <1>1, <1>4, ElementOfSeq DEF TypeOK
<1>6. Path(type) = udp_infos[k].addr
  BY DEF Path
<1>7. Known(type) => udp_infos[k].type = type
  BY <1>1, <1>2 DEF Known
<1> QED
  BY <1>4, <1>5, <1>6, <1>7 DEF UdpInfo
-----------------------------------------------------------------------------
LEMMA InitIInv == Init => IInv
<1> SUFFICES ASSUME Init PROVE IInv
  OBVIOUS
<1>1. TypeOK
  <2>1. udp_infos \in Seq(UdpInfo)
    BY EmptySeq DEF Init
  <2> QED
    BY <2>1, Sizes DEF Init, TypeOK, GroupId, Buffers
<1>2. UdpInv
  BY DEF Init, UdpInv
<1>3. BufferInv
  BY DEF Init, BufferInv
<1>4. WireInv /\ ParityInv
  BY DEF Init, WireInv, ParityInv
<1> QED
  BY <1>1, <1>2, <1>3, <1>4 DEF IInv

LEMMA SyncStep ==
  ASSUME sync
  PROVE  IInv'
<1>1. TypeOK'
  <2>1. udp_infos' \in Seq(UdpInfo)
    BY EmptySeq DEF sync
  <2> QED
    BY <2>1, Sizes DEF sync, TypeOK, GroupId, Buffers
<1>2. UdpInv'
  BY DEF sync, UdpInv
<1>3. BufferInv'
  BY DEF sync, BufferInv
<1>4. WireInv' /\ ParityInv'
  BY DEF sync, WireInv, ParityInv
<1> QED
  BY <1>1, <1>2, <1>3, <1>4 DEF IInv

LEMMA UpdateStep ==
  ASSUME IInv, NEW info \in UdpInfo, update_udp_info_list(info)
  PROVE  IInv'
<1>1. /\ udp_infos' \in Seq(UdpInfo)
      /\ udp_infos' # <<>>
      /\ DOMAIN udp_infos' = 1 .. Len(udp_infos) + 1
      /\ DOMAIN udp_infos = 1 .. Len(udp_infos)
      /\ Len(udp_infos) \in Nat
      /\ \A k \in DOMAIN udp_infos' :
           udp_infos'[k] = IF k = 1 THEN info ELSE udp_infos[k - 1]
  <2>1. /\ udp_infos \in Seq(UdpInfo) /\ Len(udp_infos) \in Nat
        /\ DOMAIN udp_infos = 1 .. Len(udp_infos)
    BY LenProperties DEF IInv, TypeOK
  <2>2. <<info>> \in Seq(UdpInfo) /\ Len(<<info>>) = 1 /\ <<info>>[1] = info
    OBVIOUS
  <2>3. /\ udp_infos' \in Seq(UdpInfo)
        /\ Len(udp_infos') = 1 + Len(udp_infos)
        /\ \A k \in 1 .. 1 + Len(udp_infos) : udp_infos'[k] =
             IF k <= 1 THEN <<info>>[k] ELSE udp_infos[k - 1]
    BY <2>1, <2>2, ConcatProperties DEF update_udp_info_list
  <2>4. DOMAIN udp_infos' = 1 .. Len(udp_infos) + 1
    BY <2>1, <2>3, LenProperties
  <2>5. udp_infos' # <<>>
    BY <2>1, <2>3
  <2> QED
    BY <2>1, <2>2, <2>3, <2>4, <2>5
<1>2. UNCHANGED <<mode, group_id, index, packet_buffers, taken, wire, parity>>
  BY DEF update_udp_info_list
<1>3. TypeOK'
  BY <1>1, <1>2 DEF IInv, TypeOK
<1>4. UdpInv'
  <2>1. \A k \in 1 .. Len(udp_infos) : udp_infos[k].addr # info.addr
    BY DEF update_udp_info_list
  <2>2. ASSUME NEW j \in DOMAIN udp_infos', NEW k \in DOMAIN udp_infos',
               udp_infos'[j].addr = udp_infos'[k].addr
        PROVE  j = k
    <3>1. CASE j = 1 \/ k = 1
      BY <1>1, <2>1, <2>2, <3>1
    <3>2. CASE j # 1 /\ k # 1
      <4>1. /\ j - 1 \in DOMAIN udp_infos /\ k - 1 \in DOMAIN udp_infos
            /\ udp_infos[j - 1].addr = udp_infos[k - 1].addr
        BY <1>1, <2>2, <3>2
      <4>2. j - 1 = k - 1
        BY <4>1 DEF IInv, UdpInv
      <4> QED
        BY <1>1, <4>2
    <3> QED
      BY <3>1, <3>2
  <2> QED
    BY <1>1, <2>2 DEF UdpInv
<1>5. BufferInv' /\ WireInv' /\ ParityInv'
  BY <1>2 DEF IInv, BufferInv, WireInv, ParityInv, Place, NextIndexOf
<1> QED
  BY <1>3, <1>4, <1>5 DEF IInv
-----------------------------------------------------------------------------
(* The buffers with the packet that serve_input took.                      *)
NewBuffers == [packet_buffers EXCEPT ![NextIndexOf(index)] = taken + 1]

LEMMA BufferFacts ==
  ASSUME IInv, serve_input
  PROVE  /\ NextIndexOf(index) \in Index
         /\ taken + 1 \in Packet /\ taken' = taken + 1 /\ taken' \in 0 .. MaxPacket
         /\ NewBuffers \in Buffers
         /\ NextIndexOf(index) + 1 <= taken + 1
         /\ \A j \in 0 .. NextIndexOf(index) :
              NewBuffers[j] = (taken + 1) - (NextIndexOf(index) - j)
<1>1. /\ index \in -1 .. DataNum - 1 /\ taken \in Nat /\ taken < MaxPacket
      /\ packet_buffers \in Buffers /\ index + 1 <= taken
      /\ \A j \in 0 .. index : packet_buffers[j] = taken - (index - j)
  BY Sizes DEF IInv, TypeOK, BufferInv, serve_input
<1>2. NextIndexOf(index) \in Index
  BY <1>1, Sizes DEF NextIndexOf, Index
<1>3. taken + 1 \in Packet /\ taken' = taken + 1 /\ taken' \in 0 .. MaxPacket
  BY <1>1, Sizes DEF Packet, serve_input
<1>4. NewBuffers \in Buffers
  BY <1>1, <1>2, <1>3 DEF NewBuffers, Buffers
<1>5. NextIndexOf(index) + 1 <= taken + 1
  BY <1>1, Sizes DEF NextIndexOf
<1>6. ASSUME NEW j \in 0 .. NextIndexOf(index)
      PROVE  NewBuffers[j] = (taken + 1) - (NextIndexOf(index) - j)
  <2>1. j \in Index
    BY <1>2, Sizes DEF Index
  <2>2. CASE j = NextIndexOf(index)
    BY <1>1, <1>2, <2>1, <2>2, Sizes DEF NewBuffers, Buffers, Index
  <2>3. CASE j # NextIndexOf(index)
    <3>1. NextIndexOf(index) = index + 1 /\ j \in 0 .. index
      BY <1>1, <2>3, Sizes DEF NextIndexOf
    <3>2. NewBuffers[j] = packet_buffers[j]
      BY <1>1, <2>1, <2>3 DEF NewBuffers, Buffers
    <3> QED
      BY <1>1, <3>1, <3>2
  <2> QED
    BY <2>2, <2>3
<1> QED
  BY <1>2, <1>3, <1>4, <1>5, <1>6

(* What serve_input sends to a client it knows.                            *)
LEMMA SentFacts ==
  ASSUME IInv, serve_input, udp_infos # <<>>
  PROVE  /\ wire \subseteq wire' /\ parity \subseteq parity'
         /\ \A m \in wire' \ wire :
              /\ m \in [group_id : GroupId, index : 0 .. 2 * DataNum - 1, body : Packet, to : Addr]
              /\ m.group_id = group_id /\ m.body = taken + 1
              /\ \/ m.index = NextIndexOf(index) /\ m.to = Path(1)
                 \/ m.index = NextIndexOf(index) + DataNum /\ m.to = Path(0)
         /\ \A p \in parity' \ parity :
              /\ Full(NextIndexOf(index))
              /\ p.group_id = group_id /\ p.index \in DataNum .. DataNum + ParityNum - 1
              /\ p.body = NewBuffers /\ p.to = Path(0)
<1> DEFINE i == NextIndexOf(index)
<1>1. PICK parity_status \in {0, 1} :
        wire' = wire \cup {Message(i, taken + 1, 1)}
          \cup (IF Doubled(parity_status) THEN {Message(i + DataNum, taken + 1, 0)} ELSE {})
  BY DEF serve_input
<1>2. parity' = parity \cup (IF Full(i) THEN encode(NewBuffers) ELSE {})
  BY DEF serve_input, NewBuffers
<1>3. i \in Index /\ taken + 1 \in Packet /\ group_id \in GroupId
  BY BufferFacts DEF IInv, TypeOK
<1>4. Path(0) \in Addr /\ Path(1) \in Addr
  BY PathFacts DEF IInv
<1>5. i \in 0 .. 2 * DataNum - 1 /\ i + DataNum \in 0 .. 2 * DataNum - 1
  BY <1>3, Sizes DEF Index
<1>6. ASSUME NEW m \in wire' \ wire
      PROVE  /\ m \in [group_id : GroupId, index : 0 .. 2 * DataNum - 1, body : Packet, to : Addr]
             /\ m.group_id = group_id /\ m.body = taken + 1
             /\ \/ m.index = i /\ m.to = Path(1)
                \/ m.index = i + DataNum /\ m.to = Path(0)
  <2>1. m = Message(i, taken + 1, 1) \/ m = Message(i + DataNum, taken + 1, 0)
    BY <1>1
  <2> QED
    BY <1>3, <1>4, <1>5, <2>1 DEF Message
<1>7. ASSUME NEW p \in parity' \ parity
      PROVE  /\ Full(i)
             /\ p.group_id = group_id /\ p.index \in DataNum .. DataNum + ParityNum - 1
             /\ p.body = NewBuffers /\ p.to = Path(0)
  BY <1>2 DEF encode, Message
<1> QED
  BY <1>1, <1>2, <1>6, <1>7

(* Without a client the packet takes its place and nothing is sent.        *)
LEMMA ServeAloneStep ==
  ASSUME IInv, serve_input, udp_infos = <<>>
  PROVE  IInv'
<1>1. /\ index' = NextIndexOf(index)
      /\ packet_buffers' = NewBuffers
      /\ UNCHANGED <<group_id, wire, parity, mode, udp_infos>>
      /\ wire = {} /\ parity = {}
  BY DEF serve_input, NewBuffers, IInv, UdpInv
<1>2. TypeOK'
  BY <1>1, BufferFacts, Sizes DEF IInv, TypeOK, Index
<1>3. UdpInv'
  BY <1>1 DEF IInv, UdpInv
<1>4. BufferInv'
  BY <1>1, BufferFacts DEF BufferInv
<1>5. WireInv' /\ ParityInv'
  BY <1>1 DEF WireInv, ParityInv
<1> QED
  BY <1>2, <1>3, <1>4, <1>5 DEF IInv

LEMMA ServeType ==
  ASSUME IInv, serve_input, udp_infos # <<>>
  PROVE  TypeOK' /\ UdpInv' /\ BufferInv'
<1> DEFINE i == NextIndexOf(index)
<1>1. /\ group_id' = IF Full(i) THEN (group_id + 1) % GroupMod ELSE group_id
      /\ index' = IF Full(i) THEN -1 ELSE i
      /\ packet_buffers' = IF Full(i) THEN [j \in Index |-> Null] ELSE NewBuffers
      /\ UNCHANGED <<mode, udp_infos>>
  BY DEF serve_input, NextPlace, NewBuffers
<1>2. TypeOK'
  <2>1. group_id' \in GroupId /\ index' \in -1 .. DataNum - 1
    <3>1. group_id \in GroupId /\ i \in Index
      BY BufferFacts DEF IInv, TypeOK
    <3>2. (group_id + 1) % GroupMod \in GroupId
      BY <3>1, Remainders, Sizes DEF GroupId
    <3>3. i \in -1 .. DataNum - 1 /\ -1 \in -1 .. DataNum - 1
      BY <3>1, Sizes DEF Index
    <3> QED
      BY <1>1, <3>1, <3>2, <3>3
  <2>2. packet_buffers' \in Buffers
    BY <1>1, BufferFacts DEF Buffers
  <2>3. wire' \subseteq [group_id : GroupId, index : 0 .. 2 * DataNum - 1, body : Packet, to : Addr]
    BY SentFacts DEF IInv, TypeOK
  <2>4. ASSUME NEW p \in parity'
        PROVE  /\ p.group_id \in GroupId /\ p.index \in DataNum .. DataNum + ParityNum - 1
               /\ p.body \in Buffers /\ p.to \in Addr
    <3>1. CASE p \in parity
      BY <3>1 DEF IInv, TypeOK
    <3>2. CASE p \notin parity
      BY <3>2, SentFacts, PathFacts, BufferFacts DEF IInv, TypeOK
    <3> QED
      BY <3>1, <3>2
  <2> QED
    BY <1>1, <2>1, <2>2, <2>3, <2>4, BufferFacts DEF IInv, TypeOK
<1>3. UdpInv'
  BY <1>1 DEF IInv, UdpInv
<1>4. BufferInv'
  <2>1. CASE Full(i)
    BY <1>1, <2>1, BufferFacts, Sizes DEF BufferInv, Packet
  <2>2. CASE ~Full(i)
    BY <1>1, <2>2, BufferFacts DEF BufferInv
  <2> QED
    BY <2>1, <2>2
<1> QED
  BY <1>2, <1>3, <1>4

(* The next packet goes to the next place.                                 *)
LEMMA NextPlaceFollows ==
  ASSUME IInv, serve_input, udp_infos # <<>>
  PROVE  Place' = NextId(Place)
<1> DEFINE i == NextIndexOf(index)
<1>1. /\ group_id' = IF Full(i) THEN (group_id + 1) % GroupMod ELSE group_id
      /\ index' = IF Full(i) THEN -1 ELSE i
      /\ group_id \in GroupId /\ i \in Index
  BY BufferFacts DEF serve_input, NextPlace, IInv, TypeOK
<1>2. CASE Full(i)
  <2>1. /\ NextIndexOf(index') = 0
        /\ group_id' = IF group_id = GroupMod - 1 THEN 0 ELSE group_id + 1
        /\ ~(i < DataNum - 1)
    BY <1>1, <1>2, Remainders, Sizes DEF NextIndexOf, Full
  <2> QED
    BY <2>1 DEF Place, NextId, NextGroup, NextIndex
<1>3. CASE ~Full(i)
  <2>1. /\ NextIndexOf(index') = i + 1
        /\ group_id' = group_id
        /\ i < DataNum - 1
    BY <1>1, <1>3, Sizes DEF NextIndexOf, Full, Index
  <2> QED
    BY <2>1 DEF Place, NextId, NextGroup, NextIndex
<1> QED
  BY <1>2, <1>3

LEMMA ServeWire ==
  ASSUME IInv, serve_input, udp_infos # <<>>
  PROVE  WireInv'
<1>1. taken \in Nat /\ taken' = taken + 1 /\ NextIndexOf(index) \in Index
  BY BufferFacts, Sizes DEF IInv, TypeOK
<1>2. ASSUME NEW m \in wire' \ wire
      PROVE  m.body = taken + 1 /\ IdOf(m) = Place
  BY <1>2, BufferFacts, SentFacts, Remainders DEF IdOf, Place
<1>3. ASSUME NEW m \in wire
      PROVE  m.body \in Nat /\ m.body <= taken
  BY Sizes DEF IInv, TypeOK, WireInv, Packet
<1>4. \A m \in wire' : m.body <= taken'
  BY <1>1, <1>2, <1>3
<1>5. ASSUME NEW m \in wire', m.body = taken'
      PROVE  NextId(IdOf(m)) = Place'
  <2>1. m \notin wire
    BY <1>1, <1>3, <1>5
  <2> QED
    BY <1>2, <2>1, NextPlaceFollows
<1>6. ASSUME NEW m \in wire', NEW n \in wire'
      PROVE  /\ n.body = m.body => IdOf(n) = IdOf(m)
             /\ n.body = m.body + 1 => IdOf(n) = NextId(IdOf(m))
  <2>1. CASE m \in wire /\ n \in wire
    BY <2>1 DEF IInv, WireInv
  <2>2. CASE m \in wire /\ n \notin wire
    <3>1. n.body = taken + 1 /\ IdOf(n) = Place /\ m.body \in Nat /\ m.body <= taken
      BY <1>2, <1>3, <2>2
    <3>2. m.body = taken => NextId(IdOf(m)) = Place
      BY <2>2 DEF IInv, WireInv
    <3> QED
      BY <1>1, <3>1, <3>2
  <2>3. CASE m \notin wire /\ n \in wire
    BY <1>1, <1>2, <1>3, <2>3
  <2>4. CASE m \notin wire /\ n \notin wire
    BY <1>1, <1>2, <2>4
  <2> QED
    BY <2>1, <2>2, <2>3, <2>4
<1> QED
  BY <1>4, <1>5, <1>6 DEF WireInv, IdOf, Place, NextIndexOf

(* The buffers of a full group.                                            *)
LEMMA FullBuffers ==
  ASSUME IInv, serve_input, Full(NextIndexOf(index)), NEW j \in Index
  PROVE  /\ NewBuffers[j] = (taken + 1) - (DataNum - 1 - j)
         /\ NewBuffers[j] \in Packet
<1>1. NextIndexOf(index) = DataNum - 1 /\ j \in 0 .. NextIndexOf(index)
  BY Sizes DEF Full, Index
<1>2. /\ NewBuffers[j] = (taken + 1) - (DataNum - 1 - j)
      /\ DataNum <= taken + 1
      /\ taken + 1 \in Packet
  BY <1>1, BufferFacts, Sizes
<1> QED
  BY <1>1, <1>2, Sizes DEF Packet

LEMMA ServeParity ==
  ASSUME IInv, serve_input, udp_infos # <<>>
  PROVE  ParityInv'
<1> SUFFICES ASSUME NEW p \in parity', NEW i \in Index, NEW j \in Index
             PROVE  p.body[i] \in Packet /\ p.body[i] - p.body[j] = i - j
  BY DEF ParityInv
<1>1. CASE p \in parity
  BY <1>1 DEF IInv, ParityInv
<1>2. CASE p \notin parity
  <2>1. p.body = NewBuffers /\ Full(NextIndexOf(index)) /\ taken \in Nat
    BY <1>2, SentFacts, Sizes DEF IInv, TypeOK
  <2>2. /\ NewBuffers[i] = (taken + 1) - (DataNum - 1 - i) /\ NewBuffers[i] \in Packet
        /\ NewBuffers[j] = (taken + 1) - (DataNum - 1 - j)
    BY <2>1, FullBuffers
  <2> QED
    BY <2>1, <2>2, Sizes DEF Index
<1> QED
  BY <1>1, <1>2

(* The inductive invariant: what the buffers hold, and how what was sent   *)
(* relates to the place of the next packet.                                *)
THEOREM Invariance == Spec => []IInv
<1>1. Init => IInv
  BY InitIInv
<1>2. IInv /\ [Next]_vars => IInv'
  <2> SUFFICES ASSUME IInv, [Next]_vars PROVE IInv'
    OBVIOUS
  <2>1. CASE serve_input
    BY <2>1, ServeAloneStep, ServeType, ServeWire, ServeParity DEF IInv
  <2>2. CASE \E info \in UdpInfo : update_udp_info_list(info)
    BY <2>2, UpdateStep
  <2>3. CASE sync
    BY <2>3, SyncStep
  <2>4. CASE UNCHANGED vars
    BY <2>4 DEF vars, encoder_vars, IInv, TypeOK, UdpInv, BufferInv, WireInv, ParityInv,
                Place, NextIndexOf
  <2> QED
    BY <2>1, <2>2, <2>3, <2>4 DEF Next
<1> QED
  BY <1>1, <1>2, PTL DEF Spec

(* serve_input numbers the packets of a session in sequence, also when     *)
(* group_id wraps, and a copy has the identity of its packet.              *)
THEOREM AlwaysInSequence == Spec => []InSequence
<1>1. ASSUME IInv PROVE InSequence
  BY <1>1 DEF IInv, WireInv, InSequence, IdOf
<1> QED
  BY <1>1, Invariance, PTL

(* With an address of each type the redundancy never goes the way of the   *)
(* data, however many addresses of whatever type came in whatever order.   *)
THEOREM PathsSeparate == Spec => SeparatePaths
<1>1. ASSUME IInv, [Next]_vars, Known(0), Known(1),
             NEW d \in Data' \ Data, NEW r \in Redundant' \ Redundant
      PROVE  d.to # r.to
  <2>1. serve_input /\ udp_infos # <<>>
    <3>1. d \in wire' \ wire
      BY DEF Data
    <3> QED
      BY <1>1, <3>1 DEF Next, serve_input, update_udp_info_list, sync, vars
  <2>2. NextIndexOf(index) \in Index
    BY <1>1, <2>1, BufferFacts
  <2>3. d.to = Path(1)
    <3>1. d \in wire' \ wire /\ d.index < DataNum
      BY DEF Data
    <3> QED
      BY <1>1, <2>1, <2>2, <3>1, SentFacts, Sizes DEF Index
  <2>4. r.to = Path(0)
    <3>1. CASE r \in parity'
      BY <1>1, <2>1, <3>1, SentFacts DEF Redundant
    <3>2. CASE r \notin parity'
      <4>1. r \in wire' \ wire /\ ~(r.index < DataNum)
        BY <3>2 DEF Redundant, Data
      <4> QED
        BY <1>1, <2>1, <2>2, <4>1, SentFacts, Sizes DEF Index
    <3> QED
      BY <3>1, <3>2
  <2>5. PICK j \in DOMAIN udp_infos : Path(0) = udp_infos[j].addr /\ udp_infos[j].type = 0
    BY <1>1, <2>1, PathFacts DEF IInv
  <2>6. PICK k \in DOMAIN udp_infos : Path(1) = udp_infos[k].addr /\ udp_infos[k].type = 1
    BY <1>1, <2>1, PathFacts DEF IInv
  <2> QED
    BY <1>1, <2>3, <2>4, <2>5, <2>6 DEF IInv, UdpInv
<1>2. IInv /\ [Next]_vars =>
        [Known(0) /\ Known(1) =>
           \A d \in Data' \ Data, r \in Redundant' \ Redundant : d.to # r.to]_vars
  BY <1>1
<1> QED
  BY <1>2, Invariance, PTL DEF Spec, SeparatePaths
-----------------------------------------------------------------------------
(* While group_id does not wrap, the n-th packet of a session has the      *)
(* number n - 1 - o in the order of the identities, where o packets were   *)
(* taken for the first group before the client was known.                  *)
FirstOf(g) == g * DataNum

Counts(o) ==
  /\ \A d \in Data : d.body = o + FirstOf(d.group_id) + d.index + 1
  /\ \A p \in parity : \A i \in Index : p.body[i] = o + FirstOf(p.group_id) + i + 1
  /\ taken < MaxPacket => taken = o + FirstOf(group_id) + index + 1

(* A group that is full without a client begins again.                     *)
NumberInv ==
  /\ index = DataNum - 1 => wire = {} /\ parity = {}
  /\ \E o \in Nat : Counts(o)

SessionFits == MaxPacket <= GroupMod * DataNum

LEMMA FirstOfFacts ==
  /\ FirstOf(0) = 0
  /\ \A g \in GroupId : FirstOf(g) \in Nat /\ FirstOf(g + 1) = FirstOf(g) + DataNum
  /\ FirstOf(GroupMod) = GroupMod * DataNum
<1>1. \A d \in Nat : 0 * d = 0
  OBVIOUS
<1>2. \A g, d \in Nat : g * d \in Nat /\ (g + 1) * d = g * d + d
  OBVIOUS
<1>3. GroupId \subseteq Nat
  BY Sizes DEF GroupId
<1> QED
  BY <1>1, <1>2, <1>3, Sizes DEF FirstOf

LEMMA NumberStep ==
  ASSUME SessionFits, IInv, NumberInv, serve_input
  PROVE  NumberInv'
<1> DEFINE i == NextIndexOf(index)
<1>1. /\ i \in Index /\ i \in Nat /\ taken \in Nat /\ taken' = taken + 1 /\ taken < MaxPacket
      /\ group_id \in GroupId /\ index \in -1 .. DataNum - 1 /\ UNCHANGED udp_infos
      /\ FirstOf(group_id) \in Nat
  <2>1. /\ i \in Index /\ taken' = taken + 1
        /\ taken \in 0 .. MaxPacket /\ taken < MaxPacket /\ UNCHANGED udp_infos
        /\ group_id \in GroupId /\ index \in -1 .. DataNum - 1
    BY BufferFacts DEF IInv, TypeOK, serve_input
  <2> QED
    BY <2>1, FirstOfFacts, Sizes DEF Index
<1>2. PICK o \in Nat :
        /\ \A d \in Data : d.body = o + FirstOf(d.group_id) + d.index + 1
        /\ \A p \in parity : \A j \in Index : p.body[j] = o + FirstOf(p.group_id) + j + 1
        /\ taken = o + FirstOf(group_id) + i
  <2>1. PICK n \in Nat : Counts(n)
    BY DEF NumberInv
  <2>2. taken = n + FirstOf(group_id) + index + 1
    BY <1>1, <2>1 DEF Counts
  <2>3. CASE i = index + 1
    BY <1>1, <2>1, <2>2, <2>3 DEF Counts
  <2>4. CASE i # index + 1
    <3>1. i = 0 /\ index = DataNum - 1
      BY <1>1, <2>4, Sizes DEF NextIndexOf
    <3>2. n + DataNum \in Nat /\ taken = (n + DataNum) + FirstOf(group_id) + i
      BY <1>1, <2>2, <3>1, Sizes
    <3>3. Data = {} /\ parity = {}
      BY <3>1 DEF NumberInv, Data
    <3> QED
      BY <3>2, <3>3
  <2> QED
    BY <2>3, <2>4
<1>3. CASE udp_infos = <<>>
  <2>1. /\ group_id' = group_id /\ index' = i
        /\ wire' = {} /\ parity' = {} /\ Data' = {}
    BY <1>3 DEF serve_input, IInv, UdpInv, Data
  <2>2. taken' = o + FirstOf(group_id') + index' + 1
    BY <1>1, <1>2, <2>1
  <2>3. Counts(o)'
    BY <2>1, <2>2 DEF Counts
  <2> QED
    BY <2>1, <2>3 DEF NumberInv
<1>4. CASE udp_infos # <<>>
  <2>1. /\ group_id' = IF Full(i) THEN (group_id + 1) % GroupMod ELSE group_id
        /\ index' = IF Full(i) THEN -1 ELSE i
    BY <1>4 DEF serve_input, NextPlace
  <2>2. ASSUME NEW d \in Data'
        PROVE  d.body = o + FirstOf(d.group_id) + d.index + 1
    <3>1. CASE d \in wire
      BY <1>2, <2>2, <3>1 DEF Data
    <3>2. CASE d \notin wire
      <4>1. d \in wire' \ wire /\ d.index < DataNum
        BY <2>2, <3>2 DEF Data
      <4>2. i + DataNum >= DataNum
        BY <1>1, Sizes
      <4>3. d.group_id = group_id /\ d.body = taken + 1 /\ d.index = i
        BY <1>1, <1>4, <4>1, <4>2, SentFacts, Sizes
      <4> QED
        BY <1>1, <1>2, <4>3
    <3> QED
      BY <3>1, <3>2
  <2>3. ASSUME NEW p \in parity', NEW j \in Index
        PROVE  p.body[j] = o + FirstOf(p.group_id) + j + 1
    <3>1. CASE p \in parity
      BY <1>2, <3>1
    <3>2. CASE p \notin parity
      <4>1. p.group_id = group_id /\ p.body = NewBuffers /\ Full(i)
        BY <1>4, <3>2, SentFacts
      <4>2. NewBuffers[j] = (taken + 1) - (DataNum - 1 - j)
        BY <4>1, FullBuffers
      <4>3. i = DataNum - 1 /\ j \in Nat
        BY <4>1 DEF Full, Index
      <4> QED
        BY <1>1, <1>2, <4>1, <4>2, <4>3, Sizes
    <3> QED
      BY <3>1, <3>2
  <2>4. taken' < MaxPacket => taken' = o + FirstOf(group_id') + index' + 1
    <3>1. CASE ~Full(i)
      BY <1>1, <1>2, <2>1, <3>1
    <3>2. CASE Full(i)
      <4>1. /\ i = DataNum - 1 /\ index' = -1
            /\ FirstOf(group_id + 1) = FirstOf(group_id) + DataNum
        BY <1>1, <2>1, <3>2, FirstOfFacts DEF Full
      <4>2. taken' = o + FirstOf(group_id + 1)
        BY <1>1, <1>2, <4>1, Sizes
      <4>3. CASE group_id = GroupMod - 1
        <5>1. FirstOf(group_id + 1) = GroupMod * DataNum
          BY <4>3, FirstOfFacts, Sizes
        <5>2. GroupMod * DataNum \in Nat
          BY Sizes
        <5> QED
          BY <4>2, <5>1, <5>2, Sizes DEF SessionFits
      <4>4. CASE group_id # GroupMod - 1
        <5>1. group_id' = group_id + 1
          BY <1>1, <2>1, <3>2, <4>4, Remainders
        <5>2. FirstOf(group_id') \in Nat
          BY <1>1, <4>1, <5>1, Sizes
        <5> QED
          BY <4>1, <4>2, <5>1, <5>2
      <4> QED
        BY <4>3, <4>4
    <3> QED
      BY <3>1, <3>2
  <2>5. Counts(o)'
    BY <2>2, <2>3, <2>4 DEF Counts
  <2>6. index' # DataNum - 1
    BY <1>1, <2>1, Sizes DEF Full
  <2> QED
    BY <2>5, <2>6 DEF NumberInv
<1> QED
  BY <1>3, <1>4

(* The parity blocks of a group are made of the packets sent with it, in   *)
(* every session in which group_id does not wrap: in a longer one packets  *)
(* of another group have the same number.                                  *)
THEOREM GroupsDecode ==
  ASSUME SessionFits
  PROVE  Spec => []GroupDecodes
<1>1. Init => NumberInv
  <2> SUFFICES ASSUME Init PROVE NumberInv
    OBVIOUS
  <2>1. 0 = 0 + FirstOf(0) + (-1) + 1 /\ 0 \in Nat
    BY FirstOfFacts
  <2>2. Counts(0)
    BY <2>1 DEF Init, Counts, Data
  <2> QED
    BY <2>1, <2>2 DEF Init, NumberInv
<1>2. IInv /\ NumberInv /\ [Next]_vars => NumberInv'
  <2> SUFFICES ASSUME IInv, NumberInv, [Next]_vars PROVE NumberInv'
    OBVIOUS
  <2>1. CASE serve_input
    BY <2>1, NumberStep
  <2>2. CASE sync
    <3>1. taken' = 0 + FirstOf(group_id') + index' + 1 /\ 0 \in Nat
      BY <2>2, FirstOfFacts DEF sync
    <3>2. Counts(0)'
      BY <2>2, <3>1 DEF sync, Counts, Data
    <3> QED
      BY <2>2, <3>1, <3>2 DEF sync, NumberInv
  <2>3. CASE UNCHANGED <<group_id, index, taken, wire, parity>>
    BY <2>3 DEF NumberInv, Counts, Data
  <2> QED
    BY <2>1, <2>2, <2>3 DEF Next, update_udp_info_list, vars, encoder_vars
<1>3. IInv /\ NumberInv => GroupDecodes
  <2> SUFFICES ASSUME IInv, NumberInv, NEW p \in parity
               PROVE  /\ \A i, j \in Index : p.body[i] \in Packet /\ p.body[i] - p.body[j] = i - j
                      /\ \A d \in Data : d.group_id = p.group_id => p.body[d.index] = d.body
    BY DEF GroupDecodes
  <2>1. \A i, j \in Index : p.body[i] \in Packet /\ p.body[i] - p.body[j] = i - j
    BY DEF IInv, ParityInv
  <2>2. ASSUME NEW d \in Data, d.group_id = p.group_id
        PROVE  p.body[d.index] = d.body
    <3>1. d.index \in Index
      BY Sizes DEF IInv, TypeOK, Data, Index
    <3> QED
      BY <2>2, <3>1 DEF NumberInv, Counts
  <2> QED
    BY <2>1, <2>2
<1> QED
  BY <1>1, <1>2, <1>3, Invariance, PTL DEF Spec
=============================================================================
