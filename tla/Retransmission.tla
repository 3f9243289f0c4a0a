--------------------------- MODULE Retransmission ---------------------------
(***************************************************************************)
(* What keeping sent packets until they are acknowledged promises: every   *)
(* packet sent in a session is settled at most once, by an acknowledgement *)
(* or by its timeout, and timeouts come in the order of sending.           *)
(***************************************************************************)
EXTENDS Naturals

CONSTANTS Packet  \* the packets of a session, numbered in order of sending

VARIABLES
  outcome,  \* what became of each packet
  late      \* those of the waiting packets that may time out

vars == <<outcome, late>>

Outcome == {"unsent", "waiting", "acked", "expired"}
Waiting == {p \in Packet : outcome[p] = "waiting"}

Init == outcome = [p \in Packet |-> "unsent"] /\ late = {}

(* With a timeout of 0 a packet is late as soon as it is sent, and so are  *)
(* all that were sent before it.                                           *)
Send(p) ==
  /\ outcome[p] = "unsent"
  /\ \A q \in Packet : q < p => outcome[q] # "unsent"
  /\ outcome' = [outcome EXCEPT ![p] = "waiting"]
  /\ \/ late' = late
     \/ late = Waiting /\ late' = late \cup {p}

Ack(p) ==
  /\ p \in Waiting
  /\ outcome' = [outcome EXCEPT ![p] = "acked"]
  /\ late' = late \ {p}

(* The clock: a packet is late no sooner than those sent before it.        *)
Elapse ==
  /\ late' \in SUBSET Waiting
  /\ late \subseteq late'
  /\ \A p \in late', q \in Waiting : q < p => q \in late'
  /\ UNCHANGED outcome

Expire(p) ==
  /\ p \in late
  /\ \A q \in Waiting : p <= q
  /\ outcome' = [outcome EXCEPT ![p] = "expired"]
  /\ late' = late \ {p}

NewSession == outcome' = [p \in Packet |-> "unsent"] /\ late' = {}

Next ==
  \/ \E p \in Packet : Send(p) \/ Ack(p) \/ Expire(p)
  \/ Elapse
  \/ NewSession

Spec == Init /\ [][Next]_vars
=============================================================================
