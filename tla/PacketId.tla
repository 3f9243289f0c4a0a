------------------------------ MODULE PacketId ------------------------------
(***************************************************************************)
(* The identity of a data packet on the tunnel, as both ends number it:    *)
(* a group of DataNum packets (config.data_num) is one unit of forward     *)
(* error correction, and a packet is a (group_id, index) pair.  group_id   *)
(* is an unsigned int of the C program, so it counts modulo GroupMod.      *)
(***************************************************************************)
EXTENDS Integers

CONSTANTS
  GroupMod,  \* number of values of group_id (2^32 in the program)
  DataNum    \* config.data_num, data packets per group

(* parse_config and main never leave data_num below 1. *)
ASSUME PacketIdAssumption ==
  /\ GroupMod \in Nat \ {0}
  /\ DataNum \in Nat \ {0}

GroupId == 0 .. GroupMod - 1
Index   == 0 .. DataNum - 1
Id      == [group_id : GroupId, index : Index]

(* p follows q in the order of the receive list (group first, then index). *)
After(p, q) ==
  \/ p.group_id > q.group_id
  \/ p.group_id = q.group_id /\ p.index > q.index

(* The two halves of the identity that follows p. *)
NextGroup(p) ==
  IF p.index < DataNum - 1 THEN p.group_id
  ELSE IF p.group_id = GroupMod - 1 THEN 0 ELSE p.group_id + 1

(* Mutant: the test is "rx->index < config.data_num".                      *)
NextIndexTooFar(p) == IF p.index < DataNum THEN p.index + 1 ELSE 0

NextIndex(p) == IF p.index < DataNum - 1 THEN p.index + 1 ELSE 0

NextId(p) == [group_id |-> NextGroup(p), index |-> NextIndex(p)]

(* The last identity before group_id wraps, and the place before the first *)
(* identity: NextId(NoPacket) is (0, 0).                                   *)
LastId   == [group_id |-> GroupMod - 1, index |-> DataNum - 1]
NoPacket == [group_id |-> -1, index |-> DataNum - 1]
=============================================================================
