------------------------------ MODULE RxQueue -------------------------------
(***************************************************************************)
(* The receive queue of src/src/fec.c: packets that left their decoder     *)
(* wait in rx_list, ordered by identity, and are written to the TUN device *)
(* in that order.  (rx_group_id, rx_index) is the identity the queue       *)
(* expects next; a packet behind it is discarded, a packet ahead of it     *)
(* waits until it is next, too old (config.rx_timeout) or crowded out      *)
(* (config.rx_num).                                                        *)
(*                                                                         *)
(* Two threads run the code: main inserts packets, flushes the queue after *)
(* each of them, and resets it when a client synchronises (server.c);      *)
(* monitor_rx flushes it periodically.  Everything happens under rx_mutex  *)
(* except the two stores of the reset, so the stores of rx_send are steps  *)
(* of their own.                                                           *)
(***************************************************************************)
EXTENDS PacketId, Sequences, SequencesExt

CONSTANTS
  RxNum,      \* config.rx_num, capacity above which the head is pushed out
  RxTimeout   \* config.rx_timeout, in ticks of the clock

ASSUME RxQueueAssumption ==
  /\ RxNum \in Nat
  /\ RxTimeout \in Nat

VARIABLES
  rx_list,      \* the list: a sequence of rx_packet records
  rx_num,       \* the counter kept beside it
  rx_group_id,  \* the identity expected next, first half
  rx_index,     \* and second half
  rx_mutex,     \* the thread that holds rx_mutex, or "free"
  pc,           \* where each thread is
  tun,          \* history: the last packet written to the TUN device
                \* since the last reset was completed
  raced         \* history: monitor_rx stored to the expected identity
                \* after the current (or last) reset had stored to it

vars == <<rx_list, rx_num, rx_group_id, rx_index, rx_mutex, pc, tun, raced>>

Thread == {"main", "monitor_rx"}

(* In rx_send with rx_mutex held, and in the reset of main. *)
SendLabel  == {"send_head", "match_index", "write", "advance_index"}
ResetLabel == {"reset_index", "clean_all_rx"}

(* struct rx_packet; touch is kept as the age of the packet, which grows   *)
(* with the clock and stops at the timeout, where it makes no more         *)
(* difference.                                                             *)
RxPacket == [group_id : GroupId, index : Index, age : 0 .. RxTimeout]

IdOf(rx)  == [group_id |-> rx.group_id, index |-> rx.index]
Expected  == [group_id |-> rx_group_id, index |-> rx_index]
InReset   == pc["main"] \in ResetLabel
Advancing == \E t \in Thread : pc[t] = "advance_index"

Init ==
  /\ rx_list = <<>>
  /\ rx_num = 0
  /\ rx_group_id = 0
  /\ rx_index = 0
  /\ rx_mutex = "free"
  /\ pc = [t \in Thread |-> IF t = "main" THEN "idle" ELSE "rx_send"]
  /\ tun = NoPacket
  /\ raced = FALSE

-----------------------------------------------------------------------------
(* Mutants of Stale: "&&" for "||", ">=" for the second ">", and no early  *)
(* return.                                                                 *)
StaleBoth(p) == rx_group_id > p.group_id /\ rx_index > p.index
StaleOrDue(p) == p = Expected \/ After(Expected, p)
NeverStale(p) == FALSE

(* rx_insert: the packet is behind what the queue expects. *)
Stale(p) == After(Expected, p)

(* Mutant: the walk compares groups only.                                  *)
InsertPointByGroup(k, p) ==
  /\ \A j \in 1 .. k - 1 : rx_list[j].group_id <= p.group_id
  /\ k <= Len(rx_list) => rx_list[k].group_id > p.group_id

(* rx_insert: the walk along the list stops in front of the first packet   *)
(* that follows p, so p becomes element k.                                 *)
InsertPoint(k, p) ==
  /\ \A j \in 1 .. k - 1 : ~After(rx_list[j], p)
  /\ k <= Len(rx_list) => After(rx_list[k], p)

(* rx_insert, the section under rx_mutex.  The mutex is released before    *)
(* rx_send takes it again.                                                 *)
rx_insert(p) ==
  /\ pc["main"] = "idle"
  /\ rx_mutex = "free"
  /\ \/ Stale(p) /\ UNCHANGED <<rx_list, rx_num, pc>>
     \/ /\ ~Stale(p)
        /\ \E k \in 1 .. Len(rx_list) + 1 :
             /\ InsertPoint(k, p)
             /\ rx_list' = InsertAt(rx_list, k,
                  [group_id |-> p.group_id, index |-> p.index, age |-> 0])
        /\ rx_num' = rx_num + 1
        /\ pc' = [pc EXCEPT !["main"] = "rx_send"]
  /\ UNCHANGED <<rx_group_id, rx_index, rx_mutex, tun, raced>>

-----------------------------------------------------------------------------
(* rx_send, run by both threads.  "rx_send" is the label in front of its   *)
(* lock, where monitor_rx also sleeps. *)
rx_send_lock(t) ==
  /\ pc[t] = "rx_send"
  /\ rx_mutex = "free"
  /\ rx_mutex' = t
  /\ pc' = [pc EXCEPT ![t] = "send_head"]
  /\ UNCHANGED <<rx_list, rx_num, rx_group_id, rx_index, tun, raced>>

(* Mutant: a return that keeps the mutex.                                  *)
ReturnLocked(t) ==
  /\ rx_mutex' = rx_mutex
  /\ pc' = [pc EXCEPT ![t] = IF t = "main" THEN "idle" ELSE "rx_send"]

Return(t) ==
  /\ rx_mutex' = "free"
  /\ pc' = [pc EXCEPT ![t] = IF t = "main" THEN "idle" ELSE "rx_send"]

(* Mutants: "rx_num <= config.rx_num" in the break condition, and no       *)
(* timeout in it.                                                          *)
ForcedLate == Head(rx_list).age >= RxTimeout \/ rx_num > RxNum
ForcedByLength == rx_num >= RxNum

(* The head goes out whatever is expected: it waited for rx_timeout, or    *)
(* the queue is full.                                                      *)
Forced == Head(rx_list).age >= RxTimeout \/ rx_num >= RxNum

(* The condition of the loop and the half of the break condition that      *)
(* reads rx_group_id; with an empty list the loop goes on only to follow a *)
(* null pointer.                                                           *)
rx_send_head(t) ==
  /\ pc[t] = "send_head"
  /\ \/ rx_list = <<>> /\ rx_num <= RxNum /\ Return(t)
     \/ /\ rx_list # <<>>
        /\ Forced
        /\ pc' = [pc EXCEPT ![t] = "write"]
        /\ UNCHANGED rx_mutex
     \/ /\ rx_list # <<>>
        /\ ~Forced
        /\ rx_group_id = Head(rx_list).group_id
        /\ pc' = [pc EXCEPT ![t] = "match_index"]
        /\ UNCHANGED rx_mutex
     \/ /\ rx_list # <<>>
        /\ ~Forced
        /\ rx_group_id # Head(rx_list).group_id
        /\ Return(t)
  /\ UNCHANGED <<rx_list, rx_num, rx_group_id, rx_index, tun, raced>>

(* The half of the break condition that reads rx_index. *)
rx_send_match(t) ==
  /\ pc[t] = "match_index"
  /\ \/ /\ rx_index = Head(rx_list).index
        /\ pc' = [pc EXCEPT ![t] = "write"]
        /\ UNCHANGED rx_mutex
     \/ /\ rx_index # Head(rx_list).index
        /\ Return(t)
  /\ UNCHANGED <<rx_list, rx_num, rx_group_id, rx_index, tun, raced>>

(* The write to the TUN device and the store to rx_group_id. *)
rx_send_write(t) ==
  /\ pc[t] = "write"
  /\ tun' = IdOf(Head(rx_list))
  /\ rx_group_id' = NextGroup(Head(rx_list))
  /\ pc' = [pc EXCEPT ![t] = "advance_index"]
  /\ raced' = (raced \/ InReset)
  /\ UNCHANGED <<rx_list, rx_num, rx_index, rx_mutex>>

(* Mutant: "if" for "while", one packet per call.                          *)
rx_send_advance_once(t) ==
  /\ pc[t] = "advance_index"
  /\ rx_index' = NextIndex(Head(rx_list))
  /\ rx_list' = Tail(rx_list)
  /\ rx_num' = rx_num - 1
  /\ Return(t)
  /\ raced' = (raced \/ pc["main"] = "clean_all_rx")
  /\ UNCHANGED <<rx_group_id, tun>>

(* The store to rx_index; the packet leaves the list and the loop starts   *)
(* again.                                                                  *)
rx_send_advance(t) ==
  /\ pc[t] = "advance_index"
  /\ rx_index' = NextIndex(Head(rx_list))
  /\ rx_list' = Tail(rx_list)
  /\ rx_num' = rx_num - 1
  /\ pc' = [pc EXCEPT ![t] = "send_head"]
  /\ raced' = (raced \/ pc["main"] = "clean_all_rx")
  /\ UNCHANGED <<rx_group_id, rx_mutex, tun>>

rx_send(t) ==
  \/ rx_send_lock(t)
  \/ rx_send_head(t)
  \/ rx_send_match(t)
  \/ rx_send_write(t)
  \/ rx_send_advance(t)

-----------------------------------------------------------------------------
(* The reset on TYPE_SYNC_CONFIG: two stores without the mutex, and then   *)
(* clean_all with its call of clean_all_rx.                                *)
(* Mutant: rx_group_id keeps its value.                                    *)
sync_reset_index_only ==
  /\ pc["main"] = "idle"
  /\ pc' = [pc EXCEPT !["main"] = "reset_index"]
  /\ raced' = FALSE
  /\ UNCHANGED <<rx_list, rx_num, rx_group_id, rx_index, rx_mutex, tun>>

sync_reset_group ==
  /\ pc["main"] = "idle"
  /\ rx_group_id' = 0
  /\ pc' = [pc EXCEPT !["main"] = "reset_index"]
  /\ raced' = FALSE
  /\ UNCHANGED <<rx_list, rx_num, rx_index, rx_mutex, tun>>

sync_reset_index ==
  /\ pc["main"] = "reset_index"
  /\ rx_index' = 0
  /\ pc' = [pc EXCEPT !["main"] = "clean_all_rx"]
  /\ UNCHANGED <<rx_list, rx_num, rx_group_id, rx_mutex, tun, raced>>

(* Mutant: rx_num keeps its value.                                         *)
clean_all_rx_list_only ==
  /\ pc["main"] = "clean_all_rx"
  /\ rx_mutex = "free"
  /\ rx_list' = <<>>
  /\ pc' = [pc EXCEPT !["main"] = "idle"]
  /\ tun' = NoPacket
  /\ UNCHANGED <<rx_num, rx_group_id, rx_index, rx_mutex, raced>>

clean_all_rx ==
  /\ pc["main"] = "clean_all_rx"
  /\ rx_mutex = "free"
  /\ rx_list' = <<>>
  /\ rx_num' = rx_num - Len(rx_list)
  /\ pc' = [pc EXCEPT !["main"] = "idle"]
  /\ tun' = NoPacket
  /\ UNCHANGED <<rx_group_id, rx_index, rx_mutex, raced>>

(* The clock ticks: every packet in the list is one tick older. *)
Tick ==
  /\ rx_list' = [k \in DOMAIN rx_list |->
       [rx_list[k] EXCEPT !.age = IF @ < RxTimeout THEN @ + 1 ELSE @]]
  /\ UNCHANGED <<rx_num, rx_group_id, rx_index, rx_mutex, pc, tun, raced>>

-----------------------------------------------------------------------------
Reset == sync_reset_group \/ sync_reset_index \/ clean_all_rx

Next ==
  \/ \E p \in Id : rx_insert(p)
  \/ \E t \in Thread : rx_send(t)
  \/ Reset
  \/ Tick

Spec == Init /\ [][Next]_vars

(* The threads are scheduled and time passes; nothing obliges a client to  *)
(* send packets or to synchronise, but a reset that began goes on.         *)
Fairness ==
  /\ \A t \in Thread : WF_vars(rx_send(t))
  /\ WF_vars(sync_reset_index \/ clean_all_rx)
  /\ WF_vars(Tick)

FairSpec == Spec /\ Fairness
-----------------------------------------------------------------------------
TypeOK ==
  /\ rx_list \in Seq(RxPacket)
  /\ rx_num \in Int
  /\ rx_group_id \in GroupId
  /\ rx_index \in Index
  /\ rx_mutex \in Thread \cup {"free"}
  /\ pc \in [Thread -> SendLabel \cup ResetLabel \cup {"idle", "rx_send"}]
  /\ tun \in Id \cup {NoPacket}
  /\ raced \in BOOLEAN

(* rx_num, which rx_send compares with config.rx_num and which lets its    *)
(* loop go on with an empty list, is the length of the list at every       *)
(* instant, across insertions, flushes by two threads and resets.          *)
RxNumIsLength == rx_num = Len(rx_list)

(* The list is ordered by identity; equal identities may stand side by     *)
(* side, because the walk of rx_insert passes equals.                      *)
Sorted ==
  \A j, k \in 1 .. Len(rx_list) : j < k => ~After(rx_list[j], rx_list[k])

(* The list never outgrows config.rx_num (or one packet), and outside an   *)
(* insertion and the flush that follows it there is room for one more: no  *)
(* interleaving of main with monitor_rx lets an insertion skip the flush.  *)
Capacity  == IF RxNum > 0 THEN RxNum ELSE 1
RxBounded ==
  /\ Len(rx_list) <= Capacity
  /\ pc["main"] \in {"idle"} \cup ResetLabel => Len(rx_list) < Capacity

(* Once a flush has let the mutex go, a packet that is in turn waits only   *)
(* behind a copy of the packet written last, which came while that one     *)
(* still waited: rx_send never skips such a head.                          *)
OnlyCopyDelays ==
  /\ pc["main"] = "idle"
  /\ rx_mutex = "free"
  /\ \E k \in DOMAIN rx_list : IdOf(rx_list[k]) = Expected
  => IdOf(Head(rx_list)) = tun /\ tun # Expected

(* Outside a reset, and between the two stores of rx_send, the identity    *)
(* expected next is the successor of the last packet written, and (0, 0)   *)
(* in a session that has written nothing.  The exception is a reset that   *)
(* monitor_rx overtook, until the next packet is written.                  *)
ExpectedFollowsTun ==
  ~InReset /\ ~Advancing /\ (raced => tun # NoPacket) => Expected = NextId(tun)

(* A packet that follows everything written in this session is accepted,   *)
(* unless monitor_rx overtook the reset and nothing was written since.     *)
DataPacketKept ==
  pc["main"] = "idle" /\ rx_mutex = "free" /\ (raced => tun # NoPacket) =>
    \A p \in Id : After(p, tun) => ~Stale(p)

(* "If the packet is data packet, send it to the tunnel directly"          *)
(* (fec.c:299): a packet that follows everything written in this session   *)
(* is not discarded by rx_insert.                                          *)
DataPacketSent ==
  pc["main"] = "idle" /\ rx_mutex = "free" =>
    \A p \in Id : After(p, tun) => ~Stale(p)

(* The TUN device never sees a packet after one that follows it, except    *)
(* when group_id has wrapped; only the end of a reset starts again.        *)
WritesInOrder ==
  [][tun' = NoPacket \/ tun = LastId \/ ~After(tun, tun')]_tun

(* No packet waits in the queue for ever, even when the packets in front   *)
(* of it never arrive, client after client synchronises and copies of it   *)
(* keep coming: it is written, or a reset discards it.                     *)
Waiting(p) == \E k \in DOMAIN rx_list : IdOf(rx_list[k]) = p
Drains == \A p \in Id : Waiting(p) ~> (tun = p \/ ~Waiting(p))

(* The queue keeps the promise of OrderedDelivery.  A packet is pending    *)
(* while it is in the list, except the head between its write and its      *)
(* removal.                                                                *)
Ordered == INSTANCE OrderedDelivery WITH
  pending <- [p \in Id |-> Cardinality({k \in DOMAIN rx_list :
                 IdOf(rx_list[k]) = p /\ ~(k = 1 /\ Advancing)})]

Implements == Ordered!Spec
=============================================================================
