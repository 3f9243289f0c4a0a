------------------------------ MODULE AckQueue ------------------------------
(***************************************************************************)
(* Acknowledged sending (config.mode 3 and 4) in src/src/fec.c: main keeps *)
(* every data packet it sends in a list until its acknowledgement arrives; *)
(* monitor_ack takes the packets whose acknowledgement does not come in    *)
(* time off its head and, in mode 3, sends them once more.  In mode 4 the  *)
(* delays turn parity_status on and off, which makes main send every       *)
(* packet twice.                                                           *)
(*                                                                         *)
(* main and monitor_ack share the list under ack_mutex.  An operation of   *)
(* main holds it from its first to its last access and is one step;        *)
(* monitor_ack holds it while it works on packet after packet.             *)
(* Acknowledgements may be lost, repeated, late, or from the session       *)
(* before.                                                                 *)
(***************************************************************************)
EXTENDS Integers, Sequences, SequencesExt

CONSTANTS
  MaxPacket,         \* bound: data packets main sends in a session
  AckTimeout,        \* config.ack_timeout, in ticks of the clock
  ParityDelayThres   \* config.parity_delay_thres, in the same ticks

ASSUME AckQueueAssumption ==
  /\ MaxPacket \in Nat \ {0}
  /\ AckTimeout \in Nat
  /\ ParityDelayThres \in Nat

VARIABLES
  mode,          \* config.mode of the session
  ack_list,      \* the packets from ack_head on
  ack_tail,      \* the packet ack_tail points to, or Null
  ack_mutex,     \* "free", or "monitor_ack" which holds it
  age,           \* time since each packet's touch
  delay_over_thres_time, delay_below_thres_time, parity_status,
  sent,          \* the data packets main sent in the session
  acked,         \* history: those an acknowledgement came for,
  expired,       \* those monitor_ack took off, in mode 3 to send again,
  slow           \* and the last two delays measured, TRUE if over the threshold

list_vars   == <<ack_list, ack_tail>>
parity_vars == <<delay_over_thres_time, delay_below_thres_time, parity_status, slow>>
session_vars == <<mode, sent, acked, expired>>
vars == <<list_vars, ack_mutex, age, parity_vars, session_vars>>

(* (group_id, index) in the order of sending.                              *)
Packet == 1 .. MaxPacket
Null   == 0
MaxAge == 1 + IF AckTimeout > ParityDelayThres THEN AckTimeout ELSE ParityDelayThres

InList(p) == \E k \in 1 .. Len(ack_list) : ack_list[k] = p

Init ==
  /\ mode \in {3, 4}
  /\ ack_list = <<>> /\ ack_tail = Null
  /\ ack_mutex = "free"
  /\ age = [p \in Packet |-> 0]
  /\ delay_over_thres_time = 0 /\ delay_below_thres_time = 0
  /\ parity_status = 0
  /\ sent = 0 /\ acked = {} /\ expired = {}
  /\ slow = <<>>

-----------------------------------------------------------------------------
(* The list.  A cell that is linked behind ack_tail cuts off what follows  *)
(* ack_tail, and is lost if ack_tail is not in the list.                   *)
LinkBehind(t, p) ==
  LET upTo == {k \in 1 .. Len(ack_list) : ack_list[k] = t}
  IN  IF upTo = {} THEN ack_list
      ELSE Append(SubSeq(ack_list, 1, CHOOSE k \in upTo : TRUE), p)

Insert(p) ==
  /\ ack_list' = IF ack_list = <<>> THEN <<p>> ELSE LinkBehind(ack_tail, p)
  /\ ack_tail' = p

(* Mutant: ack_tail stays when its cell is freed.                          *)
UnlinkHeadOnly(k) == ack_list' = RemoveAt(ack_list, k) /\ UNCHANGED ack_tail

Unlink(k) ==
  /\ ack_list' = RemoveAt(ack_list, k)
  /\ ack_tail' = IF k < Len(ack_list) THEN ack_tail
                 ELSE IF k = 1 THEN Null ELSE ack_list[k - 1]

(* parity_status_fun.  Only whether a counter reached 2 matters, so it     *)
(* stops there.                                                            *)
Count(n) == IF n < 2 THEN n + 1 ELSE 2

(* Mutant: the other counter goes on.                                      *)
CountedOn(late) ==
  /\ delay_over_thres_time' = IF late THEN Count(delay_over_thres_time) ELSE delay_over_thres_time
  /\ delay_below_thres_time' = IF late THEN delay_below_thres_time ELSE Count(delay_below_thres_time)

Counted(late) ==
  /\ delay_over_thres_time' = IF late THEN Count(delay_over_thres_time) ELSE 0
  /\ delay_below_thres_time' = IF late THEN 0 ELSE Count(delay_below_thres_time)

parity_status_fun(p) ==
  LET late == age[p] > ParityDelayThres
  IN  /\ Counted(late)
      /\ parity_status' = IF delay_below_thres_time' >= 2 THEN 0
                          ELSE IF delay_over_thres_time' >= 2 THEN 1 ELSE parity_status
      /\ slow' = IF slow = <<>> THEN <<late>> ELSE <<slow[Len(slow)], late>>

-----------------------------------------------------------------------------
(* serve_input: the next data packet, sent and kept.                       *)
ack_insert ==
  /\ ack_mutex = "free"
  /\ sent < MaxPacket
  /\ sent' = sent + 1
  /\ age' = [age EXCEPT ![sent + 1] = 0]
  /\ Insert(sent + 1)
  /\ UNCHANGED <<ack_mutex, parity_vars, mode, acked, expired>>

(* serve_output: an acknowledgement, of this session or the one before;    *)
(* one that names no packet in the list changes nothing.                   *)
remove_ack(p) ==
  /\ ack_mutex = "free"
  /\ p <= sent
  /\ acked' = acked \cup {p}
  /\ \/ \E k \in 1 .. Len(ack_list) :
          /\ ack_list[k] = p
          /\ \A j \in 1 .. k - 1 : ack_list[j] # p
          /\ Unlink(k)
          /\ IF mode = 4 THEN parity_status_fun(p) ELSE UNCHANGED parity_vars
     \/ ~InList(p) /\ UNCHANGED <<list_vars, parity_vars>>
  /\ UNCHANGED <<ack_mutex, age, mode, sent, expired>>

(* clean_all, and the configuration the client sends with it.              *)
clean_all_ack ==
  /\ ack_mutex = "free"
  /\ ack_list' = <<>> /\ ack_tail' = Null
  /\ mode' \in {3, 4}
  /\ sent' = 0 /\ acked' = {} /\ expired' = {}
  /\ age' = [p \in Packet |-> 0]
  /\ UNCHANGED <<ack_mutex, parity_vars>>

monitor_lock ==
  /\ ack_mutex = "free"
  /\ ack_mutex' = "monitor_ack"
  /\ UNCHANGED <<list_vars, age, parity_vars, session_vars>>

(* Mutants: ">" for ">=", a timeout in the wrong unit, none in mode 4.     *)
OverdueLate(p) == age[p] > AckTimeout
OverdueInOtherUnit(p) == age[p] * 1000 >= AckTimeout
OverdueInMode3(p) == mode = 3 /\ age[p] >= AckTimeout

Overdue(p) == age[p] >= AckTimeout

monitor_expire ==
  /\ ack_mutex = "monitor_ack"
  /\ ack_list # <<>>
  /\ LET p == Head(ack_list)
     IN  /\ Overdue(p)
         /\ expired' = expired \cup {p}
         /\ IF mode = 4 THEN parity_status_fun(p) ELSE UNCHANGED parity_vars
  /\ Unlink(1)
  /\ UNCHANGED <<ack_mutex, age, mode, sent, acked>>

monitor_release ==
  /\ ack_mutex = "monitor_ack"
  /\ ack_list # <<>> => ~Overdue(Head(ack_list))
  /\ ack_mutex' = "free"
  /\ UNCHANGED <<list_vars, age, parity_vars, session_vars>>

monitor_ack == monitor_lock \/ monitor_expire \/ monitor_release

(* The clock; it makes no more difference to a packet at MaxAge.           *)
Tick ==
  /\ \E p \in Packet : InList(p) /\ age[p] < MaxAge
  /\ age' = [p \in Packet |-> IF InList(p) /\ age[p] < MaxAge THEN age[p] + 1 ELSE age[p]]
  /\ UNCHANGED <<list_vars, ack_mutex, parity_vars, session_vars>>

Next ==
  \/ ack_insert
  \/ \E p \in Packet : remove_ack(p)
  \/ clean_all_ack
  \/ monitor_ack
  \/ Tick

Spec == Init /\ [][Next]_vars

(* monitor_ack is an endless loop of a thread of the pool, and time goes   *)
(* on; nothing is assumed of main or of the client.                        *)
FairSpec == Spec /\ WF_vars(monitor_ack) /\ WF_vars(Tick)
-----------------------------------------------------------------------------
TypeOK ==
  /\ mode \in {3, 4}
  /\ ack_list \in Seq(Packet) /\ ack_tail \in Packet \cup {Null}
  /\ ack_mutex \in {"free", "monitor_ack"}
  /\ age \in [Packet -> 0 .. MaxAge]
  /\ delay_over_thres_time \in 0 .. 2 /\ delay_below_thres_time \in 0 .. 2
  /\ parity_status \in {0, 1}
  /\ sent \in 0 .. MaxPacket
  /\ acked \subseteq Packet /\ expired \subseteq Packet
  /\ slow \in {<<>>} \cup [1 .. 1 -> BOOLEAN] \cup [1 .. 2 -> BOOLEAN]

(* ack_tail is where the list ends: a new cell is linked behind the last   *)
(* one, never behind one that was freed (fec.c:844-853, 912-927,           *)
(* 1005-1013).                                                             *)
TailIsLast == ack_tail = IF ack_list = <<>> THEN Null ELSE Last(ack_list)

(* The list is in order of sending and of age, so that monitor_ack may     *)
(* stop at the first packet that is not overdue.                           *)
OldestFirst ==
  \A i, j \in 1 .. Len(ack_list) :
    i < j => ack_list[i] < ack_list[j] /\ age[ack_list[i]] >= age[ack_list[j]]

(* What the code takes for granted about the list whenever it touches it.  *)
ListConsistent == TypeOK /\ TailIsLast /\ OldestFirst

(* When monitor_ack lets go of the list no packet in it is overdue.        *)
NoneOverdue ==
  [][monitor_release => \A p \in Packet : InList(p) => age[p] < AckTimeout]_vars

(* parity_status changes when two delays in a row are on the other side of *)
(* the threshold, and only then.                                           *)
ParityFollows ==
  [][parity_status' = CASE slow' = <<TRUE, TRUE>>   -> 1
                        [] slow' = <<FALSE, FALSE>> -> 0
                        [] OTHER -> parity_status]_parity_vars

(* A packet that waits for its acknowledgement does not wait for ever.     *)
Settled == \A p \in Packet : InList(p) ~> ~InList(p)

(* The packets are settled as Retransmission promises.                     *)
OutcomeOf(p) == IF p > sent THEN "unsent"
                ELSE IF InList(p) THEN "waiting"
                ELSE IF p \in expired THEN "expired"
                ELSE IF p \in acked THEN "acked" ELSE "lost"

Promise == INSTANCE Retransmission WITH
  outcome <- [p \in Packet |-> OutcomeOf(p)],
  late    <- {p \in Packet : InList(p) /\ age[p] >= AckTimeout}

Implements == Promise!Spec
=============================================================================
