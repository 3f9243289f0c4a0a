--------------------------- MODULE OrderedDelivery --------------------------
(***************************************************************************)
(* What the receive queue promises, whatever its list, its threads and its *)
(* timeouts: a packet it accepts follows everything written so far and is  *)
(* written once, after every pending packet that precedes it; only a       *)
(* reset discards packets.  How long a packet waits for its predecessors   *)
(* is left open.                                                           *)
(***************************************************************************)
EXTENDS PacketId

VARIABLES
  pending,  \* how many copies of each packet wait
  tun       \* the last packet written since the last reset, or NoPacket

vars == <<pending, tun>>

Nothing == [p \in Id |-> 0]

Init == pending = Nothing /\ tun = NoPacket

(* After the last identity the numbering starts again and no order is      *)
(* promised between the two rounds.                                        *)
Accept(p) ==
  /\ After(p, tun) \/ tun = LastId
  /\ pending' = [pending EXCEPT ![p] = @ + 1]
  /\ UNCHANGED tun

Write(p) ==
  /\ pending[p] > 0
  /\ \A q \in Id : pending[q] > 0 => ~After(p, q)
  /\ pending' = [pending EXCEPT ![p] = @ - 1]
  /\ tun' = p

Reset == pending' = Nothing /\ tun' = NoPacket

Next ==
  \/ \E p \in Id : Accept(p) \/ Write(p)
  \/ Reset

Spec == Init /\ [][Next]_vars
=============================================================================
