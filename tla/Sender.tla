------------------------------- MODULE Sender -------------------------------
(***************************************************************************)
(* The sending side of src/src/fec.c: serve_input numbers the packets read *)
(* from the TUN device by group and index, sends each to the client and,   *)
(* when a group is full, its parity blocks; update_udp_info_list keeps the *)
(* addresses the client was heard from, which serve_input chooses from.    *)
(* Both run on main, with the encoder's mutex held, and are one step each. *)
(***************************************************************************)
EXTENDS PacketId, Sequences, SequencesExt

CONSTANTS
  ParityNum,  \* config.parity_num
  Addr,       \* the addresses the client sends from
  Unset,      \* a buffer of a new encoder, which malloc leaves as it is
  Null,       \* a buffer whose packet was sent and freed
  MaxPacket   \* bound: packets read from the TUN device in a session

ASSUME SenderAssumption == ParityNum \in Nat /\ MaxPacket \in Nat

VARIABLES
  mode,            \* config.mode
  group_id, index, packet_buffers, udp_infos,  \* struct encoder
  taken,           \* packets read from the TUN device, the n-th is n
  wire, parity     \* history: the packets and parity blocks sent in the session

encoder_vars == <<group_id, index, packet_buffers, udp_infos>>
vars == <<mode, encoder_vars, taken, wire, parity>>

Packet == 1 .. MaxPacket

(* struct udp_info, without the times: type is 1 if the first packet from  *)
(* the address was a data packet.                                          *)
UdpInfo == [addr : Addr, type : {0, 1}]

(* main makes a new_encoder.                                               *)
Init ==
  /\ mode \in 0 .. 4
  /\ group_id = 0 /\ index = -1
  /\ packet_buffers = [i \in Index |-> Unset]
  /\ udp_infos = <<>>
  /\ taken = 0 /\ wire = {} /\ parity = {}

-----------------------------------------------------------------------------
(* serve_output: the client is heard from an address, with a data or a     *)
(* parity packet; a new address goes to the front.                         *)
update_udp_info_list(info) ==
  /\ \A k \in 1 .. Len(udp_infos) : udp_infos[k].addr # info.addr
  /\ udp_infos' = <<info>> \o udp_infos
  /\ UNCHANGED <<mode, group_id, index, packet_buffers, taken, wire, parity>>

(* The last address of the type, or else the first of all; a mutant always *)
(* takes the first.                                                        *)
PathFirst(type) == udp_infos[1].addr

Path(type) ==
  LET ofType == {k \in DOMAIN udp_infos : udp_infos[k].type = type}
  IN  udp_infos[IF ofType = {} THEN 1 ELSE Max(ofType)].addr

(* input_send: the header, the body and the way it goes.                   *)
Message(i, body, type) == [group_id |-> group_id, index |-> i, body |-> body, to |-> Path(type)]

(* serve_input in its parts: the index,                                    *)
NextIndexOf(i) == IF i + 1 >= DataNum THEN 0 ELSE i + 1

Full(i) == i = DataNum - 1

(* whether a data packet is sent twice,                                    *)
Doubled(parity_status) == mode = 2 \/ (mode = 4 /\ parity_status = 1)

(* and the parity blocks of a full group, which encode computes from all   *)
(* its buffers; mutant: before the last packet is in its buffer.           *)
encodeTooSoon(buffers) ==
  IF mode \in {0, 1}
  THEN {Message(i, packet_buffers, 0) : i \in DataNum .. DataNum + ParityNum - 1}
  ELSE {}
encode(buffers) ==
  IF mode \in {0, 1}
  THEN {Message(i, buffers, 0) : i \in DataNum .. DataNum + ParityNum - 1}
  ELSE {}

(* The end of a full group; mutant: the next one has the same number.      *)
NextPlaceSameGroup(i) == index' = (IF Full(i) THEN -1 ELSE i) /\ UNCHANGED group_id
NextPlace(i) ==
  /\ group_id' = IF Full(i) THEN (group_id + 1) % GroupMod ELSE group_id
  /\ index'    = IF Full(i) THEN -1 ELSE i

(* Without a client nothing is sent, but the packet takes its place.       *)
serve_input ==
  /\ taken < MaxPacket
  /\ taken' = taken + 1
  /\ LET i       == NextIndexOf(index)
         buffers == [packet_buffers EXCEPT ![i] = taken + 1]
     IN  IF udp_infos = <<>>
         THEN /\ index' = i
              /\ packet_buffers' = buffers
              /\ UNCHANGED <<group_id, wire, parity>>
         ELSE /\ \E parity_status \in {0, 1} :
                   wire' = wire
                     \cup {Message(i, taken + 1, 1)}
                     \cup (IF Doubled(parity_status) THEN {Message(i + DataNum, taken + 1, 0)} ELSE {})
              /\ parity' = parity \cup (IF Full(i) THEN encode(buffers) ELSE {})
              /\ NextPlace(i)
              /\ packet_buffers' = IF Full(i) THEN [j \in Index |-> Null] ELSE buffers
  /\ UNCHANGED <<mode, udp_infos>>

(* A synchronisation: main goes on with a new encoder and configuration.   *)
sync ==
  /\ mode' \in 0 .. 4
  /\ group_id' = 0 /\ index' = -1
  /\ packet_buffers' = [i \in Index |-> Unset]
  /\ udp_infos' = <<>>
  /\ taken' = 0 /\ wire' = {} /\ parity' = {}

Next ==
  \/ serve_input
  \/ \E info \in UdpInfo : update_udp_info_list(info)
  \/ sync

Spec == Init /\ [][Next]_vars
-----------------------------------------------------------------------------
Buffers == [Index -> Packet \cup {Unset, Null}]

TypeOK ==
  /\ mode \in 0 .. 4
  /\ group_id \in GroupId /\ index \in -1 .. DataNum - 1
  /\ packet_buffers \in Buffers
  /\ udp_infos \in Seq(UdpInfo)
  /\ taken \in 0 .. MaxPacket
  /\ wire \subseteq [group_id : GroupId, index : 0 .. 2 * DataNum - 1, body : Packet, to : Addr]
  /\ \A p \in parity :
       p.group_id \in GroupId /\ p.index \in DataNum .. DataNum + ParityNum - 1
       /\ p.body \in Buffers /\ p.to \in Addr

Data      == {m \in wire : m.index < DataNum}
Redundant == (wire \ Data) \cup parity

(* The parity blocks of a group are computed from a packet in every place, *)
(* in the order taken, and from the very data packets sent with the group  *)
(* (fec.c:137-178): no buffer is unset or left from another group, also    *)
(* when the group began before a client was known.                         *)
GroupDecodes ==
  \A p \in parity :
    /\ \A i, j \in Index : p.body[i] \in Packet /\ p.body[i] - p.body[j] = i - j
    /\ \A d \in Data : d.group_id = p.group_id => p.body[d.index] = d.body

(* Packets are numbered as rx_insert and rx_send of the other side expect  *)
(* (fec.c:798-807): the next packet has the next identity, and a copy has  *)
(* the identity of its packet.                                             *)
InSequence ==
  LET IdOf(m) == [group_id |-> m.group_id, index |-> m.index % DataNum]
  IN  /\ TypeOK
      /\ \A m, n \in wire :
           /\ n.body = m.body => IdOf(n) = IdOf(m)
           /\ n.body = m.body + 1 => IdOf(n) = NextId(IdOf(m))

(* When the client has an address of each type, data and what is redundant *)
(* to it go different ways (fec.c:101-116).                                *)
Known(type) == \E k \in 1 .. Len(udp_infos) : udp_infos[k].type = type
SeparatePaths ==
  [][Known(0) /\ Known(1) =>
       \A d \in Data' \ Data, r \in Redundant' \ Redundant : d.to # r.to]_vars

(* "error!!! enc->index=%d data_num=%d" (fec.c:87): the index never runs   *)
(* over the group.                                                         *)
IndexInRange == [][serve_input => index + 1 < DataNum]_vars
=============================================================================
