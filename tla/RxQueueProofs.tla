--------------------------- MODULE RxQueueProofs ----------------------------
(***************************************************************************)
(* Safety of the receive queue for every group size, capacity and timeout. *)
(* The invariants of RxQueue are not inductive one by one; their           *)
(* conjunction with the parts below is.                                    *)
(***************************************************************************)
EXTENDS RxQueue, SequenceTheorems, FiniteSetTheorems, TLAPS

(* A cell is linked in front of the k-th, or behind the last.              *)
LEMMA InsertAtProperties ==
  ASSUME NEW S, NEW s \in Seq(S), NEW k \in 1 .. Len(s) + 1, NEW e \in S
  PROVE  /\ InsertAt(s, k, e) \in Seq(S)
         /\ Len(InsertAt(s, k, e)) = Len(s) + 1
         /\ \A j \in 1 .. Len(s) + 1 :
              InsertAt(s, k, e)[j] =
                IF j < k THEN s[j] ELSE IF j = k THEN e ELSE s[j - 1]
<1> DEFINE front == SubSeq(s, 1, k - 1)
           back  == SubSeq(s, k, Len(s))
<1>0. Len(s) \in Nat /\ \A j \in 1 .. Len(s) : s[j] \in S
  BY LenProperties, ElementOfSeq
<1>1. /\ front \in Seq(S)
      /\ Len(front) = k - 1
      /\ \A j \in 1 .. k - 1 : front[j] = s[j]
  <2>1. \A j \in 1 .. k - 1 : s[j] \in S
    BY <1>0
  <2> QED
    BY <1>0, <2>1, SubSeqProperties
<1>2. /\ back \in Seq(S)
      /\ Len(back) = Len(s) - k + 1
      /\ \A j \in 1 .. Len(s) - k + 1 : back[j] = s[k + j - 1]
  <2>1. \A j \in k .. Len(s) : s[j] \in S
    BY <1>0
  <2> QED
    BY <1>0, <2>1, SubSeqProperties
<1>3. /\ <<e>> \in Seq(S)
      /\ Len(<<e>>) = 1
      /\ <<e>>[1] = e
  OBVIOUS
<1> HIDE DEF front, back
<1>4. /\ front \o <<e>> \in Seq(S)
      /\ Len(front \o <<e>>) = k
      /\ \A j \in 1 .. k : (front \o <<e>>)[j] = IF j < k THEN s[j] ELSE e
  BY <1>0, <1>1, <1>3, ConcatProperties
<1> DEFINE most == front \o <<e>>
<1>5. /\ most \o back \in Seq(S)
      /\ Len(most \o back) = Len(s) + 1
      /\ \A j \in 1 .. Len(s) + 1 :
           (most \o back)[j] = IF j <= k THEN most[j] ELSE back[j - k]
  <2>1. most \in Seq(S) /\ Len(most) = k
    BY <1>4
  <2> HIDE DEF most
  <2>2. Len(most) + Len(back) = Len(s) + 1
    BY <1>0, <1>2, <2>1
  <2>3. /\ most \o back \in Seq(S)
        /\ Len(most \o back) = Len(most) + Len(back)
        /\ \A j \in 1 .. Len(most) + Len(back) :
             (most \o back)[j] = IF j <= Len(most) THEN most[j] ELSE back[j - Len(most)]
    BY ONLY <1>2, <2>1, ConcatProperties
  <2> QED
    BY ONLY <2>1, <2>2, <2>3
<1>6. ASSUME NEW j \in 1 .. Len(s) + 1, j > k
      PROVE  back[j - k] = s[j - 1]
  BY <1>0, <1>2, <1>6
<1>7. InsertAt(s, k, e) = (front \o <<e>>) \o back
  BY DEF InsertAt, front, back
<1>8. ASSUME NEW j \in 1 .. Len(s) + 1
      PROVE  ((front \o <<e>>) \o back)[j] =
               IF j < k THEN s[j] ELSE IF j = k THEN e ELSE s[j - 1]
  <2>1. CASE j <= k
    BY <1>0, <1>4, <1>5, <2>1
  <2>2. CASE j > k
    BY <1>0, <1>5, <1>6, <2>2
  <2>3. j <= k \/ j > k
    BY <1>0
  <2> QED
    BY <2>1, <2>2, <2>3
<1> QED
  BY <1>5, <1>7, <1>8

-----------------------------------------------------------------------------
(* A thread is inside rx_send exactly while it holds rx_mutex, and         *)
(* monitor_rx runs nothing but rx_send.                                    *)
MutexInv ==
  /\ \A t \in Thread : pc[t] \in SendLabel <=> rx_mutex = t
  /\ pc["monitor_rx"] \in SendLabel \cup {"rx_send"}

(* Whoever is past the condition of the loop has a head to send.           *)
HeadInv ==
  \A t \in Thread :
    pc[t] \in {"match_index", "write", "advance_index"} => rx_list # <<>>

(* main leaves rx_send through the break only with room for a packet.      *)
RoomInv ==
  /\ RxBounded
  /\ pc["main"] = "match_index" => Len(rx_list) < Capacity

(* What the half-done writes and resets leave in the expected identity.    *)
PositionInv ==
  /\ ExpectedFollowsTun
  /\ Advancing => tun = IdOf(Head(rx_list))
  /\ Advancing /\ ~InReset => rx_group_id = NextGroup(tun)
  /\ InReset /\ ~raced => rx_group_id = 0
  /\ pc["main"] = "clean_all_rx" /\ ~raced => rx_index = 0

(* Nothing in the list precedes what was written, but for the wrap.        *)
OrderInv ==
  tun = LastId \/ \A k \in 1 .. Len(rx_list) : ~After(tun, rx_list[k])

(* Once a flush has let the mutex go, the head is not the packet expected  *)
(* next.                                                                   *)
NoReadyHead ==
  /\ pc["main"] = "idle"
  /\ rx_mutex = "free"
  /\ rx_list # <<>>
  => IdOf(Head(rx_list)) # Expected

(* In a session that has written nothing, nothing in the list precedes     *)
(* what is expected: rx_insert let it in.                                  *)
FreshInv ==
  tun = NoPacket /\ ~InReset =>
    \A k \in 1 .. Len(rx_list) : ~After(Expected, rx_list[k])

IInv ==
  /\ TypeOK
  /\ MutexInv
  /\ HeadInv
  /\ RxNumIsLength
  /\ Sorted
  /\ RoomInv
  /\ PositionInv
  /\ OrderInv
  /\ NoReadyHead
  /\ FreshInv
-----------------------------------------------------------------------------
(* The operators of PacketId. *)

LEMMA IdTypes ==
  ASSUME NEW p \in Id
  PROVE  /\ NextGroup(p) \in GroupId
         /\ NextIndex(p) \in Index
         /\ NextId(p) \in Id
BY PacketIdAssumption DEF Id, GroupId, Index, NextGroup, NextIndex, NextId

(* After is a strict order whose complement is transitive, on identities   *)
(* and on packets in the list alike.                                       *)
LEMMA AfterOrder ==
  ASSUME NEW p, p.group_id \in Int, p.index \in Int,
         NEW q, q.group_id \in Int, q.index \in Int,
         NEW r, r.group_id \in Int, r.index \in Int
  PROVE  /\ ~After(p, p)
         /\ After(p, q) => ~After(q, p)
         /\ ~After(p, q) /\ ~After(q, r) => ~After(p, r)
BY DEF After

(* The successor of an identity follows it, unless group_id wraps, and     *)
(* what it does not follow the identity does not follow either.            *)
LEMMA NextIdAfter ==
  ASSUME NEW p \in Id, p # LastId, NEW q \in Id, ~After(NextId(p), q)
  PROVE  ~After(p, q)
BY PacketIdAssumption
   DEF Id, GroupId, Index, After, NextId, NextGroup, NextIndex, LastId

-----------------------------------------------------------------------------
(* How a step changes the list: these facts are all the proofs below need  *)
(* of the sequence operators.                                              *)

LEMMA InsertFacts ==
  ASSUME TypeOK, NEW p \in Id, NEW k \in 1 .. Len(rx_list) + 1,
         rx_list' = InsertAt(rx_list, k,
           [group_id |-> p.group_id, index |-> p.index, age |-> 0])
  PROVE  /\ rx_list' \in Seq(RxPacket)
         /\ Len(rx_list') = Len(rx_list) + 1
         /\ \A j \in 1 .. Len(rx_list) + 1 :
              rx_list'[j] = IF j < k THEN rx_list[j]
                            ELSE IF j = k
                            THEN [group_id |-> p.group_id, index |-> p.index,
                                  age |-> 0]
                            ELSE rx_list[j - 1]
<1> DEFINE e == [group_id |-> p.group_id, index |-> p.index, age |-> 0]
<1>1. e \in RxPacket
  BY RxQueueAssumption DEF RxPacket, Id
<1>2. rx_list \in Seq(RxPacket) /\ rx_list' = InsertAt(rx_list, k, e)
  BY DEF TypeOK
<1> HIDE DEF e
<1>3. /\ rx_list' \in Seq(RxPacket)
      /\ Len(rx_list') = Len(rx_list) + 1
      /\ \A j \in 1 .. Len(rx_list) + 1 :
           rx_list'[j] = IF j < k THEN rx_list[j]
                         ELSE IF j = k THEN e ELSE rx_list[j - 1]
  <2>1. /\ InsertAt(rx_list, k, e) \in Seq(RxPacket)
        /\ Len(InsertAt(rx_list, k, e)) = Len(rx_list) + 1
        /\ \A j \in 1 .. Len(rx_list) + 1 :
             InsertAt(rx_list, k, e)[j] =
               IF j < k THEN rx_list[j]
               ELSE IF j = k THEN e ELSE rx_list[j - 1]
    BY <1>1, <1>2, InsertAtProperties, SMTT(60)
  <2> QED
    BY <1>2, <2>1
<1> QED
  BY <1>3 DEF e

LEMMA PopFacts ==
  ASSUME TypeOK, rx_list # <<>>, rx_list' = Tail(rx_list)
  PROVE  /\ rx_list' \in Seq(RxPacket)
         /\ Len(rx_list) \in Nat \ {0}
         /\ Len(rx_list') = Len(rx_list) - 1
         /\ \A j \in 1 .. Len(rx_list) - 1 : rx_list'[j] = rx_list[j + 1]
BY HeadTailProperties, EmptySeq DEF TypeOK

LEMMA TickFacts ==
  ASSUME TypeOK, Tick
  PROVE  /\ rx_list' \in Seq(RxPacket)
         /\ Len(rx_list') = Len(rx_list)
         /\ \A j \in 1 .. Len(rx_list) :
              /\ rx_list'[j].group_id = rx_list[j].group_id
              /\ rx_list'[j].index = rx_list[j].index
<1> DEFINE older(j) == [rx_list[j] EXCEPT !.age = IF @ < RxTimeout THEN @ + 1 ELSE @]
<1>1. DOMAIN rx_list = 1 .. Len(rx_list) /\ Len(rx_list) \in Nat
  BY LenProperties DEF TypeOK
<1>2. ASSUME NEW j \in 1 .. Len(rx_list)
      PROVE  /\ older(j) \in RxPacket
             /\ older(j).group_id = rx_list[j].group_id
             /\ older(j).index = rx_list[j].index
  <2>1. rx_list[j] \in RxPacket
    BY ElementOfSeq DEF TypeOK
  <2> QED
    BY <2>1, RxQueueAssumption DEF RxPacket
<1>3. rx_list' = [j \in 1 .. Len(rx_list) |-> older(j)]
  BY <1>1 DEF Tick
<1>4. rx_list' \in Seq(RxPacket) /\ Len(rx_list') = Len(rx_list)
  BY <1>1, <1>2, <1>3
<1> QED
  BY <1>2, <1>3, <1>4

(* The head is the first element, and its identity is one.                 *)
LEMMA HeadFacts ==
  ASSUME TypeOK, rx_list # <<>>
  PROVE  /\ Len(rx_list) \in Nat \ {0}
         /\ Head(rx_list) = rx_list[1]
         /\ Head(rx_list) \in RxPacket
         /\ IdOf(Head(rx_list)) \in Id
         /\ IdOf(Head(rx_list)).group_id = Head(rx_list).group_id
         /\ IdOf(Head(rx_list)).index = Head(rx_list).index
         /\ NextGroup(Head(rx_list)) = NextGroup(IdOf(Head(rx_list)))
         /\ NextIndex(Head(rx_list)) = NextIndex(IdOf(Head(rx_list)))
<1>1. Head(rx_list) \in RxPacket /\ Len(rx_list) \in Nat \ {0}
  BY HeadTailProperties, EmptySeq DEF TypeOK
<1>2. Head(rx_list) = rx_list[1]
  BY DEF TypeOK
<1> QED
  BY <1>1, <1>2 DEF IdOf, Id, RxPacket, NextGroup, NextIndex

-----------------------------------------------------------------------------
LEMMA InitIInv == Init => IInv
<1> SUFFICES ASSUME Init PROVE IInv
  OBVIOUS
<1>1. TypeOK
  <2>1. 0 \in GroupId /\ 0 \in Index
    BY PacketIdAssumption DEF GroupId, Index
  <2>2. pc \in [Thread -> SendLabel \cup ResetLabel \cup {"idle", "rx_send"}]
    BY DEF Init
  <2>3. <<>> \in Seq(RxPacket)
    BY EmptySeq
  <2>4. /\ rx_list \in Seq(RxPacket)
        /\ rx_num \in Int
        /\ rx_group_id \in GroupId
        /\ rx_index \in Index
        /\ rx_mutex \in Thread \cup {"free"}
        /\ tun \in Id \cup {NoPacket}
    BY <2>1, <2>3 DEF Init
  <2>5. raced \in BOOLEAN
    BY DEF Init
  <2> QED
    BY <2>2, <2>4, <2>5 DEF TypeOK
<1>2. MutexInv /\ HeadInv /\ PositionInv
  BY PacketIdAssumption
     DEF Init, MutexInv, HeadInv, PositionInv, ExpectedFollowsTun, Thread,
         SendLabel, ResetLabel, InReset, Advancing, Expected, NextId,
         NextGroup, NextIndex, NoPacket
<1>3. RxNumIsLength /\ Sorted /\ RoomInv /\ OrderInv /\ NoReadyHead /\ FreshInv
  BY RxQueueAssumption
     DEF Init, RxNumIsLength, Sorted, RoomInv, RxBounded, Capacity, OrderInv,
         NoReadyHead, FreshInv, Thread
<1> QED
  BY <1>1, <1>2, <1>3 DEF IInv

(* The type invariant needs to know that a head is there when it is read.  *)
LEMMA TypeStep ==
  ASSUME IInv, [Next]_vars
  PROVE  TypeOK'
<1> USE DEF IInv
<1>1. ASSUME NEW p \in Id, rx_insert(p)
      PROVE  TypeOK'
  <2>1. CASE UNCHANGED <<rx_list, rx_num, pc>>
    BY <1>1, <2>1 DEF rx_insert, TypeOK
  <2>2. CASE ~ UNCHANGED <<rx_list, rx_num, pc>>
    <3>1. rx_list' \in Seq(RxPacket)
      BY <1>1, <2>2, InsertFacts DEF rx_insert
    <3> QED
      BY <1>1, <2>2, <3>1 DEF rx_insert, TypeOK
  <2> QED
    BY <2>1, <2>2
<1>2. ASSUME NEW t \in Thread, rx_send(t)
      PROVE  TypeOK'
  <2>1. CASE rx_send_lock(t) \/ rx_send_head(t) \/ rx_send_match(t)
    BY <2>1 DEF rx_send_lock, rx_send_head, rx_send_match, Return, TypeOK,
                SendLabel, Thread
  <2>2. CASE rx_send_write(t) \/ rx_send_advance(t)
    <3>1. rx_list # <<>>
      BY <2>2 DEF rx_send_write, rx_send_advance, HeadInv
    <3>2. /\ IdOf(Head(rx_list)) \in Id
          /\ NextGroup(Head(rx_list)) \in GroupId
          /\ NextIndex(Head(rx_list)) \in Index
      BY <3>1, HeadFacts, IdTypes
    <3>3. Tail(rx_list) \in Seq(RxPacket)
      BY <3>1, HeadTailProperties DEF TypeOK
    <3>4. rx_send_write(t) => TypeOK'
      BY <3>2 DEF rx_send_write, TypeOK, SendLabel
    <3>5. rx_send_advance(t) => TypeOK'
      BY <3>2, <3>3 DEF rx_send_advance, TypeOK, SendLabel
    <3> QED
      BY <2>2, <3>4, <3>5
  <2> QED
    BY <1>2, <2>1, <2>2 DEF rx_send
<1>3. CASE Reset
  <2>1. /\ 0 \in GroupId
        /\ 0 \in Index
        /\ Len(rx_list) \in Nat
        /\ <<>> \in Seq(RxPacket)
    BY PacketIdAssumption, LenProperties, EmptySeq
       DEF GroupId, Index, TypeOK
  <2>2. sync_reset_group \/ sync_reset_index => TypeOK'
    BY <2>1 DEF sync_reset_group, sync_reset_index, TypeOK, ResetLabel
  <2>3. ASSUME clean_all_rx
        PROVE  TypeOK'
    <3>1. rx_num' \in Int /\ rx_list' \in Seq(RxPacket)
      BY <2>1, <2>3 DEF clean_all_rx, TypeOK
    <3> QED
      BY <2>3, <3>1 DEF clean_all_rx, TypeOK
  <2> QED
    BY <1>3, <2>2, <2>3 DEF Reset
<1>4. CASE Tick
  BY <1>4, TickFacts DEF Tick, TypeOK
<1>5. CASE UNCHANGED vars
  BY <1>5 DEF vars, TypeOK
<1> QED
  BY <1>1, <1>2, <1>3, <1>4, <1>5 DEF Next
-----------------------------------------------------------------------------
LEMMA MutexStep ==
  ASSUME IInv, [Next]_vars
  PROVE  MutexInv'
<1> USE DEF IInv, MutexInv, Thread, SendLabel
<1>1. ASSUME NEW p \in Id, rx_insert(p)
      PROVE  MutexInv'
  <2>1. /\ rx_mutex' = rx_mutex
        /\ pc["main"] = "idle"
        /\ pc' = pc \/ pc' = [pc EXCEPT !["main"] = "rx_send"]
    BY <1>1 DEF rx_insert
  <2> QED
    BY <2>1 DEF TypeOK
<1>2. ASSUME NEW t \in Thread, rx_send(t)
      PROVE  MutexInv'
  BY <1>2 DEF rx_send, rx_send_lock, rx_send_head, rx_send_match,
              rx_send_write, rx_send_advance, Return, TypeOK
<1>3. CASE Reset
  BY <1>3 DEF Reset, sync_reset_group, sync_reset_index, clean_all_rx, TypeOK
<1>4. CASE Tick \/ UNCHANGED vars
  BY <1>4 DEF Tick, vars
<1> QED
  BY <1>1, <1>2, <1>3, <1>4 DEF Next

(* Only the holder of the mutex shortens the list while someone sends.     *)
LEMMA HeadStep ==
  ASSUME IInv, [Next]_vars
  PROVE  HeadInv'
<1> USE DEF IInv
<1>1. ASSUME NEW p \in Id, rx_insert(p)
      PROVE  HeadInv'
  <2>1. \A t \in Thread : pc[t] \notin SendLabel
    BY <1>1 DEF rx_insert, MutexInv, Thread
  <2>2. \A t \in Thread : pc'[t] = pc[t] \/ pc'[t] = "rx_send"
    BY <1>1 DEF rx_insert, TypeOK, Thread
  <2> QED
    BY <2>1, <2>2 DEF HeadInv, SendLabel
<1>2. ASSUME NEW t \in Thread, rx_send(t)
      PROVE  HeadInv'
  <2>1. CASE rx_send_lock(t) \/ rx_send_head(t) \/ rx_send_match(t) \/ rx_send_write(t)
    BY <2>1 DEF rx_send_lock, rx_send_head, rx_send_match, rx_send_write,
                Return, HeadInv, TypeOK, Thread
  <2>2. CASE rx_send_advance(t)
    <3>1. rx_mutex = t
      BY <2>2 DEF rx_send_advance, MutexInv, SendLabel
    <3>2. \A u \in Thread : u # t => pc'[u] = pc[u] /\ pc[u] \notin SendLabel
      BY <2>2, <3>1 DEF rx_send_advance, MutexInv, TypeOK
    <3>3. pc'[t] = "send_head"
      BY <2>2 DEF rx_send_advance, TypeOK
    <3> QED
      BY <3>2, <3>3 DEF HeadInv, SendLabel
  <2> QED
    BY <1>2, <2>1, <2>2 DEF rx_send
<1>3. CASE Reset
  BY <1>3
     DEF Reset, sync_reset_group, sync_reset_index, clean_all_rx, HeadInv,
         MutexInv, SendLabel, TypeOK, Thread
<1>4. CASE Tick
  <2>1. rx_list # <<>> => rx_list' # <<>>
    BY <1>4, TickFacts, EmptySeq DEF TypeOK
  <2> QED
    BY <1>4, <2>1 DEF Tick, HeadInv
<1>5. CASE UNCHANGED vars
  BY <1>5 DEF vars, HeadInv
<1> QED
  BY <1>1, <1>2, <1>3, <1>4, <1>5 DEF Next

LEMMA RxNumStep ==
  ASSUME IInv, [Next]_vars
  PROVE  RxNumIsLength'
<1> USE DEF IInv, RxNumIsLength
<1>1. ASSUME NEW p \in Id, rx_insert(p)
      PROVE  RxNumIsLength'
  BY <1>1, InsertFacts DEF rx_insert
<1>2. ASSUME NEW t \in Thread, rx_send(t)
      PROVE  RxNumIsLength'
  <2>1. CASE rx_send_advance(t)
    BY <2>1, PopFacts DEF rx_send_advance, HeadInv
  <2> QED
    BY <1>2, <2>1 DEF rx_send, rx_send_lock, rx_send_head, rx_send_match, rx_send_write
<1>3. CASE Reset
  <2>1. Len(rx_list) - Len(rx_list) = Len(<<>>)
    BY LenProperties, EmptySeq DEF TypeOK
  <2> QED
    BY <1>3, <2>1 DEF Reset, sync_reset_group, sync_reset_index, clean_all_rx
<1>4. CASE Tick
  BY <1>4, TickFacts DEF Tick
<1>5. CASE UNCHANGED vars
  BY <1>5 DEF vars
<1> QED
  BY <1>1, <1>2, <1>3, <1>4, <1>5 DEF Next

-----------------------------------------------------------------------------
(* The elements of the list can be compared.                               *)
LEMMA ElementFacts ==
  ASSUME TypeOK, NEW j \in 1 .. Len(rx_list)
  PROVE  /\ rx_list[j] \in RxPacket
         /\ rx_list[j].group_id \in Int
         /\ rx_list[j].index \in Int
<1>1. rx_list[j] \in RxPacket
  BY ElementOfSeq DEF TypeOK
<1> QED
  BY <1>1 DEF RxPacket, GroupId, Index

LEMMA SortedStep ==
  ASSUME IInv, [Next]_vars
  PROVE  Sorted'
<1> USE DEF IInv
<1>0. Len(rx_list) \in Nat
  BY LenProperties DEF TypeOK
<1>1. ASSUME NEW p \in Id, rx_insert(p), rx_list' # rx_list
      PROVE  Sorted'
  <2>1. PICK k \in 1 .. Len(rx_list) + 1 :
          /\ InsertPoint(k, p)
          /\ rx_list' = InsertAt(rx_list, k,
               [group_id |-> p.group_id, index |-> p.index, age |-> 0])
    BY <1>1 DEF rx_insert
  <2>2. /\ Len(rx_list') = Len(rx_list) + 1
        /\ \A j \in 1 .. Len(rx_list) + 1 :
             rx_list'[j] = IF j < k THEN rx_list[j]
                           ELSE IF j = k
                           THEN [group_id |-> p.group_id, index |-> p.index, age |-> 0]
                           ELSE rx_list[j - 1]
    BY <2>1, InsertFacts
  <2>3. SUFFICES ASSUME NEW i \in 1 .. Len(rx_list) + 1,
                        NEW j \in 1 .. Len(rx_list) + 1, i < j
                 PROVE  ~After(rx_list'[i], rx_list'[j])
    BY <2>2 DEF Sorted
  <2>4. p.group_id \in Int /\ p.index \in Int
    BY DEF Id, GroupId, Index
  <2>5. CASE j < k \/ k < i \/ (i < k /\ k < j)
    <3>1. PICK a \in 1 .. Len(rx_list), b \in 1 .. Len(rx_list) :
            /\ a < b
            /\ rx_list'[i] = rx_list[a]
            /\ rx_list'[j] = rx_list[b]
      <4>1. CASE j < k
        BY <1>0, <2>2, <2>3, <4>1
      <4>2. CASE k < i
        <5>1. i - 1 \in 1 .. Len(rx_list) /\ j - 1 \in 1 .. Len(rx_list) /\ i - 1 < j - 1
          BY <1>0, <2>3, <4>2
        <5>2. rx_list'[i] = rx_list[i - 1] /\ rx_list'[j] = rx_list[j - 1]
          BY <1>0, <2>2, <2>3, <4>2
        <5> QED
          BY <5>1, <5>2
      <4>3. CASE i < k /\ k < j
        <5>1. i \in 1 .. Len(rx_list) /\ j - 1 \in 1 .. Len(rx_list) /\ i < j - 1
          BY <1>0, <2>3, <4>3
        <5> QED
          BY <1>0, <2>2, <2>3, <4>3, <5>1
      <4> QED
        BY <2>5, <4>1, <4>2, <4>3
    <3> QED
      BY <3>1 DEF Sorted
  <2>6. CASE j = k
    <3>1. i \in 1 .. k - 1 /\ rx_list'[i] = rx_list[i]
      BY <1>0, <2>2, <2>3, <2>6
    <3>2. ~After(rx_list[i], p)
      BY <2>1, <3>1 DEF InsertPoint
    <3> QED
      BY <2>2, <2>6, <3>1, <3>2 DEF After
  <2>7. CASE i = k
    <3>1. /\ k \in 1 .. Len(rx_list)
          /\ j - 1 \in 1 .. Len(rx_list)
          /\ k <= j - 1
          /\ rx_list'[j] = rx_list[j - 1]
      BY <1>0, <2>2, <2>3, <2>7
    <3>2. After(rx_list[k], p)
      BY <2>1, <3>1 DEF InsertPoint
    <3>3. ~After(rx_list[k], rx_list[j - 1])
      BY <3>1, ElementFacts, AfterOrder DEF Sorted
    <3>4. /\ rx_list[k].group_id \in Int /\ rx_list[k].index \in Int
          /\ rx_list[j - 1].group_id \in Int /\ rx_list[j - 1].index \in Int
      BY <3>1, ElementFacts
    <3>5. ~After(p, rx_list[j - 1])
      BY <2>4, <3>2, <3>3, <3>4 DEF After
    <3> QED
      BY <2>2, <2>7, <3>1, <3>5 DEF After
  <2> QED
    BY <1>0, <2>3, <2>5, <2>6, <2>7
<1>2. ASSUME NEW t \in Thread, rx_send_advance(t)
      PROVE  Sorted'
  BY <1>0, <1>2, PopFacts DEF rx_send_advance, HeadInv, Sorted
<1>3. CASE clean_all_rx
  BY <1>3, EmptySeq DEF clean_all_rx, Sorted
<1>4. CASE Tick
  BY <1>4, TickFacts DEF Sorted, After
<1>5. CASE rx_list' = rx_list
  BY <1>5 DEF Sorted
<1> QED
  BY <1>1, <1>2, <1>3, <1>4, <1>5
     DEF Next, rx_send, rx_send_lock, rx_send_head, rx_send_match,
         rx_send_write, Reset, sync_reset_group, sync_reset_index, vars
LEMMA RoomStep ==
  ASSUME IInv, [Next]_vars
  PROVE  RoomInv'
<1> USE DEF IInv, RoomInv, RxBounded
<1>0. /\ Len(rx_list) \in Nat
      /\ Capacity \in Nat \ {0}
      /\ RxNum > 0 => Capacity = RxNum
      /\ rx_num = Len(rx_list)
  BY LenProperties, RxQueueAssumption DEF TypeOK, Capacity, RxNumIsLength
<1> USE <1>0
<1>1. ASSUME NEW p \in Id, rx_insert(p)
      PROVE  RoomInv'
  <2>1. CASE UNCHANGED <<rx_list, rx_num, pc>>
    BY <2>1 DEF Capacity
  <2>2. CASE ~ UNCHANGED <<rx_list, rx_num, pc>>
    <3>1. Len(rx_list') = Len(rx_list) + 1 /\ Len(rx_list) < Capacity
      BY <1>1, <2>2, InsertFacts DEF rx_insert
    <3>2. pc'["main"] = "rx_send"
      BY <1>1, <2>2 DEF rx_insert, TypeOK, Thread
    <3> QED
      BY <3>1, <3>2 DEF ResetLabel, Capacity
  <2> QED
    BY <2>1, <2>2
<1>2. ASSUME NEW t \in Thread, rx_send(t)
      PROVE  RoomInv'
  <2>1. CASE rx_send_lock(t) \/ rx_send_write(t)
    BY <2>1 DEF rx_send_lock, rx_send_write, TypeOK, Thread, ResetLabel, Capacity
  <2>2. CASE rx_send_head(t)
    <3>1. rx_list' = rx_list
      BY <2>2 DEF rx_send_head
    <3>2. CASE t = "main"
      <4>1. rx_list = <<>> => Len(rx_list) = 0
        BY EmptySeq
      <4>2. ~Forced => Len(rx_list) < Capacity
        BY RxQueueAssumption DEF Forced
      <4>3. \/ rx_list = <<>>
            \/ ~Forced
            \/ pc'["main"] = "write"
        BY <2>2, <3>2 DEF rx_send_head, TypeOK, Thread
      <4> QED
        BY <3>1, <4>1, <4>2, <4>3 DEF ResetLabel, Capacity
    <3>3. CASE t # "main"
      BY <2>2, <3>1, <3>3 DEF rx_send_head, Return, TypeOK, Thread, Capacity
    <3> QED
      BY <3>2, <3>3
  <2>3. CASE rx_send_match(t)
    BY <2>3 DEF rx_send_match, Return, TypeOK, Thread, ResetLabel, Capacity
  <2>4. CASE rx_send_advance(t)
    <3>1. Len(rx_list') = Len(rx_list) - 1
      BY <2>4, PopFacts DEF rx_send_advance, HeadInv
    <3> QED
      BY <2>4, <3>1 DEF rx_send_advance, TypeOK, Thread, Capacity
  <2> QED
    BY <1>2, <2>1, <2>2, <2>3, <2>4 DEF rx_send
<1>3. CASE Reset
  <2>1. CASE sync_reset_group \/ sync_reset_index
    BY <2>1 DEF sync_reset_group, sync_reset_index, TypeOK, Thread, ResetLabel, Capacity
  <2>2. CASE clean_all_rx
    <3>1. Len(rx_list') = 0
      BY <2>2, EmptySeq DEF clean_all_rx
    <3> QED
      BY <3>1 DEF Capacity
  <2> QED
    BY <1>3, <2>1, <2>2 DEF Reset
<1>4. CASE Tick
  BY <1>4, TickFacts DEF Tick, Capacity
<1>5. CASE UNCHANGED vars
  BY <1>5 DEF vars, Capacity
<1> QED
  BY <1>1, <1>2, <1>3, <1>4, <1>5 DEF Next

-----------------------------------------------------------------------------
(* Only the holder of the mutex is between its two stores.                 *)
LEMMA AdvancingFacts ==
  ASSUME MutexInv
  PROVE  /\ rx_mutex = "free" => ~Advancing
         /\ \A t \in Thread : rx_mutex = t =>
              (Advancing <=> pc[t] = "advance_index")
BY DEF MutexInv, Advancing, SendLabel, Thread

(* Before the first packet of a session (0, 0) is expected. *)
LEMMA FirstExpected ==
  NextGroup(NoPacket) = 0 /\ NextIndex(NoPacket) = 0
BY PacketIdAssumption DEF NoPacket, NextGroup, NextIndex

LEMMA PositionStep ==
  ASSUME IInv, [Next]_vars
  PROVE  PositionInv'
<1> USE DEF IInv, PositionInv, ExpectedFollowsTun, Expected, NextId
<1>1. ASSUME NEW p \in Id, rx_insert(p)
      PROVE  PositionInv'
  <2>1. ~Advancing /\ ~InReset
    BY <1>1, AdvancingFacts DEF rx_insert, InReset, ResetLabel
  <2>2. ~Advancing' /\ ~InReset' /\ pc'["main"] # "clean_all_rx"
    BY <1>1, <2>1 DEF rx_insert, Advancing, InReset, ResetLabel, TypeOK, Thread
  <2> QED
    BY <1>1, <2>1, <2>2 DEF rx_insert
<1>2. ASSUME NEW t \in Thread, rx_send(t)
      PROVE  PositionInv'
  <2>1. /\ InReset' <=> InReset
        /\ pc'["main"] = "clean_all_rx" <=> pc["main"] = "clean_all_rx"
    BY <1>2 DEF rx_send, rx_send_lock, rx_send_head, rx_send_match,
                rx_send_write, rx_send_advance, Return, InReset, ResetLabel,
                TypeOK, Thread
  <2>2. CASE rx_send_lock(t) \/ rx_send_head(t) \/ rx_send_match(t)
    <3>1. ~Advancing
      BY <2>2, AdvancingFacts
         DEF rx_send_lock, rx_send_head, rx_send_match, MutexInv, SendLabel
    <3>2. ~Advancing'
      BY <2>2, <3>1 DEF rx_send_lock, rx_send_head, rx_send_match, Return,
                        Advancing, TypeOK, Thread
    <3> QED
      BY <2>1, <2>2, <3>1, <3>2 DEF rx_send_lock, rx_send_head, rx_send_match
  <2>3. CASE rx_send_write(t)
    <3>1. Advancing'
      BY <2>3 DEF rx_send_write, Advancing, TypeOK
    <3>2. rx_list # <<>>
      BY <2>3 DEF rx_send_write, HeadInv
    <3>3. /\ tun' = IdOf(Head(rx_list))
          /\ rx_group_id' = NextGroup(tun')
          /\ rx_list' = rx_list
      BY <2>3, <3>2, HeadFacts DEF rx_send_write
    <3>4. tun' = IdOf(Head(rx_list))'
      BY <3>3 DEF IdOf
    <3>5. InReset' => raced'
      BY <2>1, <2>3 DEF rx_send_write
    <3>6. pc["main"] = "clean_all_rx" => InReset
      BY DEF InReset, ResetLabel
    <3> QED
      BY <2>1, <3>1, <3>3, <3>4, <3>5, <3>6
  <2>4. CASE rx_send_advance(t)
    <3>1. Advancing /\ rx_list # <<>> /\ tun' = tun /\ rx_group_id' = rx_group_id
      BY <2>4 DEF rx_send_advance, Advancing, HeadInv
    <3>2. ~Advancing'
      BY <2>4 DEF rx_send_advance, Advancing, MutexInv, SendLabel, TypeOK
    <3>3. rx_index' = NextIndex(tun)
      BY <2>4, <3>1, HeadFacts DEF rx_send_advance
    <3>4. raced => raced'
      BY <2>4 DEF rx_send_advance
    <3>5. pc["main"] = "clean_all_rx" => raced'
      BY <2>4 DEF rx_send_advance
    <3>6. ~InReset' => rx_group_id' = NextGroup(tun') /\ rx_index' = NextIndex(tun')
      BY <2>1, <3>1, <3>3
    <3> QED
      BY <2>1, <3>1, <3>2, <3>4, <3>5, <3>6
  <2> QED
    BY <1>2, <2>2, <2>3, <2>4 DEF rx_send
<1>3. CASE sync_reset_group \/ sync_reset_index
  <2>1. InReset' /\ (Advancing' <=> Advancing)
    BY <1>3 DEF sync_reset_group, sync_reset_index, InReset, ResetLabel,
                Advancing, TypeOK, Thread
  <2>2. CASE sync_reset_group
    <3>1. pc'["main"] = "reset_index"
      BY <2>2 DEF sync_reset_group, TypeOK, Thread
    <3> QED
      BY <2>1, <2>2, <3>1 DEF sync_reset_group, IdOf
  <2>3. CASE sync_reset_index
    <3>1. InReset
      BY <2>3 DEF sync_reset_index, InReset, ResetLabel
    <3> QED
      BY <2>1, <2>3, <3>1 DEF sync_reset_index, IdOf
  <2> QED
    BY <1>3, <2>2, <2>3
<1>4. CASE clean_all_rx
  <2>1. ~Advancing
    BY <1>4, AdvancingFacts DEF clean_all_rx
  <2>2. ~Advancing' /\ ~InReset' /\ pc'["main"] = "idle"
    BY <1>4, <2>1 DEF clean_all_rx, Advancing, InReset, ResetLabel, TypeOK, Thread
  <2>3. ~raced => rx_group_id = 0 /\ rx_index = 0
    BY <1>4 DEF clean_all_rx, InReset, ResetLabel
  <2>4. tun' = NoPacket /\ raced' = raced /\ rx_group_id' = rx_group_id /\ rx_index' = rx_index
    BY <1>4 DEF clean_all_rx
  <2> QED
    BY <2>2, <2>3, <2>4, FirstExpected
<1>5. CASE Tick
  <2>1. ASSUME Advancing
        PROVE  IdOf(Head(rx_list))' = IdOf(Head(rx_list))
    <3>1. rx_list # <<>>
      BY <2>1 DEF Advancing, HeadInv
    <3>2. Head(rx_list) = rx_list[1] /\ Len(rx_list) \in Nat \ {0}
      BY <3>1, HeadFacts
    <3>3. Head(rx_list') = rx_list'[1]
      BY <1>5, <3>2, TickFacts, HeadTailProperties
    <3> QED
      BY <1>5, <3>2, <3>3, TickFacts DEF IdOf
  <2>2. UNCHANGED <<rx_num, rx_group_id, rx_index, rx_mutex, pc, tun, raced>>
    BY <1>5 DEF Tick
  <2> QED
    BY <2>1, <2>2 DEF Advancing, InReset
<1>6. CASE UNCHANGED vars
  BY <1>6 DEF vars, Advancing, InReset, IdOf
<1> QED
  BY <1>1, <1>2, <1>3, <1>4, <1>5, <1>6 DEF Next, Reset
-----------------------------------------------------------------------------
LEMMA OrderStep ==
  ASSUME IInv, [Next]_vars
  PROVE  OrderInv'
<1> USE DEF IInv
<1>0. Len(rx_list) \in Nat
  BY LenProperties DEF TypeOK
<1>1. ASSUME NEW p \in Id, rx_insert(p), rx_list' # rx_list
      PROVE  OrderInv'
  <2>1. PICK k \in 1 .. Len(rx_list) + 1 :
          rx_list' = InsertAt(rx_list, k,
            [group_id |-> p.group_id, index |-> p.index, age |-> 0])
    BY <1>1 DEF rx_insert
  <2>2. tun' = tun /\ ~Stale(p)
    BY <1>1 DEF rx_insert
  <2>3. tun = LastId \/ ~After(tun, p)
    <3>1. CASE tun = NoPacket
      BY <3>1 DEF NoPacket, After, Id, GroupId, Index
    <3>2. CASE tun # NoPacket /\ tun # LastId
      <4>1. ~Advancing /\ ~InReset
        BY <1>1, AdvancingFacts DEF rx_insert, InReset, ResetLabel
      <4>2. Expected = NextId(tun)
        BY <3>2, <4>1 DEF PositionInv, ExpectedFollowsTun
      <4>3. tun \in Id
        BY <3>2 DEF TypeOK
      <4> QED
        BY <2>2, <3>2, <4>2, <4>3, NextIdAfter DEF Stale
    <3> QED
      BY <3>1, <3>2
  <2>4. SUFFICES ASSUME tun # LastId, NEW j \in 1 .. Len(rx_list')
                 PROVE  ~After(tun, rx_list'[j])
    BY <2>2 DEF OrderInv
  <2>5. /\ Len(rx_list') = Len(rx_list) + 1
        /\ rx_list'[j] = IF j < k THEN rx_list[j]
                         ELSE IF j = k
                         THEN [group_id |-> p.group_id, index |-> p.index, age |-> 0]
                         ELSE rx_list[j - 1]
    BY <2>1, InsertFacts
  <2>6. CASE j = k
    BY <2>3, <2>4, <2>5, <2>6 DEF After
  <2>7. CASE j # k
    <3>1. PICK i \in 1 .. Len(rx_list) : rx_list'[j] = rx_list[i]
      <4>1. CASE j < k
        BY <1>0, <2>5, <4>1
      <4>2. CASE j > k
        <5>1. j - 1 \in 1 .. Len(rx_list) /\ rx_list'[j] = rx_list[j - 1]
          BY <1>0, <2>5, <4>2
        <5> QED
          BY <5>1
      <4> QED
        BY <1>0, <2>5, <2>7, <4>1, <4>2
    <3> QED
      BY <2>4, <3>1 DEF OrderInv
  <2> QED
    BY <2>6, <2>7
<1>2. ASSUME NEW t \in Thread, rx_send_write(t)
      PROVE  OrderInv'
  <2>1. rx_list # <<>> /\ rx_list' = rx_list /\ tun' = IdOf(Head(rx_list))
    BY <1>2 DEF rx_send_write, HeadInv
  <2>2. Head(rx_list) = rx_list[1] /\ 1 \in 1 .. Len(rx_list)
    BY <2>1, HeadFacts
  <2>3. ASSUME NEW j \in 1 .. Len(rx_list)
        PROVE  ~After(rx_list[1], rx_list[j])
    BY <2>2, ElementFacts, AfterOrder DEF Sorted
  <2> QED
    BY <2>1, <2>2, <2>3 DEF OrderInv, IdOf, After
<1>3. ASSUME NEW t \in Thread, rx_send_advance(t)
      PROVE  OrderInv'
  BY <1>0, <1>3, PopFacts DEF rx_send_advance, HeadInv, OrderInv
<1>4. CASE clean_all_rx
  BY <1>4, EmptySeq DEF clean_all_rx, OrderInv
<1>5. CASE Tick
  BY <1>5, TickFacts DEF Tick, OrderInv, After
<1>6. CASE UNCHANGED <<rx_list, tun>>
  BY <1>6 DEF OrderInv
<1> QED
  BY <1>1, <1>2, <1>3, <1>4, <1>5, <1>6
     DEF Next, rx_insert, rx_send, rx_send_lock, rx_send_head, rx_send_match,
         Reset, sync_reset_group, sync_reset_index, vars

(* main leaves rx_send only when the head is not the packet expected next. *)
LEMMA NoReadyHeadStep ==
  ASSUME IInv, [Next]_vars
  PROVE  NoReadyHead'
<1> USE DEF IInv, NoReadyHead, Expected, IdOf
<1>1. ASSUME NEW p \in Id, rx_insert(p)
      PROVE  NoReadyHead'
  <2>1. CASE UNCHANGED <<rx_list, rx_num, pc>>
    BY <1>1, <2>1 DEF rx_insert
  <2>2. CASE ~ UNCHANGED <<rx_list, rx_num, pc>>
    BY <1>1, <2>2 DEF rx_insert, TypeOK, Thread
  <2> QED
    BY <2>1, <2>2
<1>2. ASSUME NEW t \in Thread, rx_send(t)
      PROVE  NoReadyHead'
  <2>1. CASE rx_send_lock(t)
    BY <2>1 DEF rx_send_lock, Thread
  <2>2. CASE rx_send_head(t)
    BY <2>2 DEF rx_send_head, Return, MutexInv, SendLabel, Thread
  <2>3. CASE rx_send_match(t)
    BY <2>3 DEF rx_send_match, Return, MutexInv, SendLabel, Thread
  <2>4. CASE rx_send_write(t) \/ rx_send_advance(t)
    BY <2>4 DEF rx_send_write, rx_send_advance, MutexInv, SendLabel, Thread
  <2> QED
    BY <1>2, <2>1, <2>2, <2>3, <2>4 DEF rx_send
<1>3. CASE Reset
  BY <1>3 DEF Reset, sync_reset_group, sync_reset_index, clean_all_rx,
              TypeOK, Thread
<1>4. ASSUME Tick, pc["main"] = "idle", rx_mutex = "free", rx_list' # <<>>
      PROVE  IdOf(Head(rx_list')) # Expected
  <2>1. rx_list # <<>>
    BY <1>4, TickFacts, EmptySeq DEF TypeOK
  <2>2. Head(rx_list) = rx_list[1] /\ 1 \in 1 .. Len(rx_list)
    BY <2>1, HeadFacts
  <2>3. Head(rx_list') = rx_list'[1]
    BY <1>4, TickFacts
  <2> QED
    BY <1>4, <2>1, <2>2, <2>3, TickFacts
<1>5. CASE UNCHANGED vars
  BY <1>5 DEF vars
<1> QED
  BY <1>1, <1>2, <1>3, <1>4, <1>5 DEF Next, Tick

(* Until the first write nothing moves the expected identity: whoever is   *)
(* between its two stores has written.                                     *)
LEMMA FreshStep ==
  ASSUME IInv, [Next]_vars
  PROVE  FreshInv'
<1> USE DEF IInv
<1>0. Len(rx_list) \in Nat
  BY LenProperties DEF TypeOK
<1>1. ASSUME NEW p \in Id, rx_insert(p)
      PROVE  FreshInv'
  <2>1. ~InReset /\ tun' = tun /\ rx_group_id' = rx_group_id /\ rx_index' = rx_index
    BY <1>1 DEF rx_insert, InReset, ResetLabel
  <2>2. CASE rx_list' = rx_list
    BY <2>1, <2>2 DEF FreshInv, Expected
  <2>3. CASE rx_list' # rx_list
    <3>1. PICK k \in 1 .. Len(rx_list) + 1 :
            rx_list' = InsertAt(rx_list, k,
              [group_id |-> p.group_id, index |-> p.index, age |-> 0])
      BY <1>1, <2>3 DEF rx_insert
    <3>2. ~After(Expected, p)
      BY <1>1, <2>3 DEF rx_insert, Stale
    <3>3. SUFFICES ASSUME tun = NoPacket, NEW j \in 1 .. Len(rx_list')
                   PROVE  ~After(Expected, rx_list'[j])
      BY <2>1 DEF FreshInv, Expected
    <3>4. /\ Len(rx_list') = Len(rx_list) + 1
          /\ rx_list'[j] = IF j < k THEN rx_list[j]
                           ELSE IF j = k
                           THEN [group_id |-> p.group_id, index |-> p.index, age |-> 0]
                           ELSE rx_list[j - 1]
      BY <3>1, <3>3, InsertFacts
    <3>5. CASE j = k
      BY <3>2, <3>4, <3>5 DEF After
    <3>6. CASE j # k
      <4>1. PICK i \in 1 .. Len(rx_list) : rx_list'[j] = rx_list[i]
        <5>1. CASE j < k
          BY <1>0, <3>4, <5>1
        <5>2. CASE j > k
          <6>1. j - 1 \in 1 .. Len(rx_list) /\ rx_list'[j] = rx_list[j - 1]
            BY <1>0, <3>4, <5>2
          <6> QED
            BY <6>1
        <5> QED
          BY <1>0, <3>4, <3>6, <5>1, <5>2
      <4> QED
        BY <2>1, <3>3, <4>1 DEF FreshInv
    <3> QED
      BY <3>5, <3>6
  <2> QED
    BY <2>2, <2>3
<1>2. ASSUME NEW t \in Thread, rx_send_write(t) \/ rx_send_advance(t)
      PROVE  FreshInv'
  <2>1. rx_list # <<>>
    BY <1>2 DEF rx_send_write, rx_send_advance, HeadInv
  <2>2. tun' = IdOf(Head(rx_list))
    BY <1>2 DEF rx_send_write, rx_send_advance, PositionInv, Advancing
  <2>3. tun' # NoPacket
    BY <2>1, <2>2, HeadFacts DEF Id, GroupId, NoPacket
  <2> QED
    BY <2>3 DEF FreshInv
<1>3. ASSUME NEW t \in Thread, rx_send_lock(t) \/ rx_send_head(t) \/ rx_send_match(t)
      PROVE  FreshInv'
  <2>1. /\ UNCHANGED <<rx_list, rx_group_id, rx_index, tun>>
        /\ InReset' <=> InReset
    BY <1>3 DEF rx_send_lock, rx_send_head, rx_send_match, Return, InReset, ResetLabel,
                TypeOK, Thread
  <2> QED
    BY <2>1 DEF FreshInv, Expected
<1>4. CASE sync_reset_group \/ sync_reset_index
  BY <1>4 DEF sync_reset_group, sync_reset_index, FreshInv, InReset, ResetLabel,
              TypeOK, Thread
<1>5. CASE clean_all_rx
  BY <1>5, EmptySeq DEF clean_all_rx, FreshInv
<1>6. CASE Tick
  <2>1. UNCHANGED <<rx_group_id, rx_index, pc, tun>>
    BY <1>6 DEF Tick
  <2> QED
    BY <1>6, <2>1, TickFacts DEF FreshInv, Expected, After, InReset
<1>7. CASE UNCHANGED vars
  BY <1>7 DEF vars, FreshInv, Expected, InReset
<1> QED
  BY <1>1, <1>2, <1>3, <1>4, <1>5, <1>6, <1>7 DEF Next, rx_send, Reset

-----------------------------------------------------------------------------
(* The invariant, and what follows from it.                                *)
THEOREM Invariance == Spec => []IInv
<1>1. IInv /\ [Next]_vars => IInv'
  <2> SUFFICES ASSUME IInv, [Next]_vars PROVE IInv'
    OBVIOUS
  <2>1. TypeOK' /\ MutexInv' /\ HeadInv' /\ RxNumIsLength'
    BY TypeStep, MutexStep, HeadStep, RxNumStep
  <2>2. Sorted' /\ RoomInv' /\ PositionInv' /\ OrderInv' /\ NoReadyHead' /\ FreshInv'
    BY SortedStep, RoomStep, PositionStep, OrderStep, NoReadyHeadStep, FreshStep
  <2> QED
    BY <2>1, <2>2 DEF IInv
<1> QED
  BY InitIInv, <1>1, PTL DEF Spec

(* Whatever the threads do, every variable of fec.c the queue keeps has a  *)
(* value of its type; in particular the expected identity is one a packet  *)
(* can have.                                                               *)
THEOREM TypeCorrect == Spec => []TypeOK
BY Invariance, PTL DEF IInv

(* The counter rx_num is the length of rx_list at every instant, so that   *)
(* the loop of rx_send never follows the null head of an empty list.       *)
THEOREM CounterExact == Spec => []RxNumIsLength
BY Invariance, PTL DEF IInv

(* rx_list stays ordered by (group_id, index).                             *)
THEOREM ListSorted == Spec => []Sorted
BY Invariance, PTL DEF IInv

(* rx_list never outgrows config.rx_num, and has room whenever rx_insert   *)
(* is about to run.                                                        *)
THEOREM ListBounded == Spec => []RxBounded
BY Invariance, PTL DEF IInv, RoomInv

(* When no one flushes the queue, a packet that is in turn is in it only   *)
(* behind a copy of the packet written last.                               *)
THEOREM OnlyCopiesDelay == Spec => []OnlyCopyDelays
<1>1. IInv => OnlyCopyDelays
  <2> SUFFICES ASSUME IInv, pc["main"] = "idle", rx_mutex = "free",
                      NEW k \in DOMAIN rx_list, IdOf(rx_list[k]) = Expected
               PROVE  IdOf(Head(rx_list)) = tun /\ tun # Expected
    BY DEF OnlyCopyDelays
  <2> USE DEF IInv
  <2>0. ~Advancing /\ ~InReset
    BY AdvancingFacts DEF InReset, ResetLabel
  <2>1. /\ Len(rx_list) \in Nat /\ k \in 1 .. Len(rx_list)
        /\ 1 \in 1 .. Len(rx_list) /\ rx_list # <<>>
    BY LenProperties, EmptySeq DEF TypeOK
  <2>2. /\ Head(rx_list) = rx_list[1]
        /\ IdOf(Head(rx_list)) \in Id
        /\ IdOf(Head(rx_list)) # Expected
    BY <2>1, HeadFacts DEF NoReadyHead
  <2> DEFINE head == IdOf(Head(rx_list))
  <2>3. ~After(head, Expected)
    <3>1. ~After(rx_list[1], rx_list[k])
      BY <2>1, ElementFacts, AfterOrder DEF Sorted
    <3> QED
      BY <2>2, <3>1 DEF IdOf, After
  <2>4. Expected \in Id
    BY DEF TypeOK, Expected, Id
  <2>5. tun # NoPacket
    <3>1. SUFFICES ASSUME tun = NoPacket PROVE FALSE
      OBVIOUS
    <3>2. ~After(Expected, head)
      BY <2>0, <2>1, <2>2, <3>1 DEF FreshInv, After, IdOf
    <3> QED
      BY <2>2, <2>3, <2>4, <3>2 DEF After, Id, GroupId, Index
  <2>6. tun \in Id /\ Expected = NextId(tun)
    BY <2>0, <2>5 DEF PositionInv, ExpectedFollowsTun, TypeOK
  <2>7. tun # LastId
    BY <2>2, <2>3, <2>6, PacketIdAssumption
       DEF LastId, NextId, NextGroup, NextIndex, After, Id, GroupId, Index
  <2>8. ~After(tun, head)
    BY <2>1, <2>2, <2>7 DEF OrderInv, After, IdOf
  <2> HIDE DEF head
  <2>9. head = tun
    BY <2>2, <2>3, <2>6, <2>7, <2>8, PacketIdAssumption
       DEF head, LastId, NextId, NextGroup, NextIndex, After, Id, GroupId, Index
  <2> QED
    BY <2>2, <2>9 DEF head
<1> QED
  BY Invariance, <1>1, PTL

(* (rx_group_id, rx_index) is the successor of the last packet written,    *)
(* but for a reset that monitor_rx overtook.                               *)
THEOREM PositionExact == Spec => []ExpectedFollowsTun
BY Invariance, PTL DEF IInv, PositionInv

(* rx_insert discards no packet that follows everything written in the     *)
(* session, but for a reset that monitor_rx overtook.                      *)
THEOREM NothingLost == Spec => []DataPacketKept
<1>1. IInv => DataPacketKept
  <2> SUFFICES ASSUME IInv, pc["main"] = "idle", rx_mutex = "free",
                      raced => tun # NoPacket,
                      NEW p \in Id, After(p, tun)
               PROVE  ~After(Expected, p)
    BY DEF DataPacketKept, Stale
  <2>1. ~Advancing /\ ~InReset
    BY AdvancingFacts DEF IInv, InReset, ResetLabel
  <2>2. Expected = NextId(tun)
    BY <2>1 DEF IInv, PositionInv, ExpectedFollowsTun
  <2>3. CASE tun = NoPacket
    BY <2>2, <2>3, FirstExpected DEF NextId, After, Id, GroupId, Index
  <2>4. CASE tun \in Id
    BY <2>2, <2>4, PacketIdAssumption
       DEF NextId, NextGroup, NextIndex, After, Id, GroupId, Index
  <2> QED
    BY <2>3, <2>4 DEF IInv, TypeOK
<1> QED
  BY Invariance, <1>1, PTL

(* The TUN device gets the packets of a session in order.                  *)
THEOREM InOrder == Spec => WritesInOrder
<1>1. ASSUME IInv, [Next]_vars
      PROVE  [tun' = NoPacket \/ tun = LastId \/ ~After(tun, tun')]_tun
  <2>1. ASSUME NEW t \in Thread, rx_send_write(t)
        PROVE  tun = LastId \/ ~After(tun, tun')
    <3>1. rx_list # <<>> /\ tun' = IdOf(Head(rx_list))
      BY <1>1, <2>1 DEF rx_send_write, IInv, HeadInv
    <3>2. Head(rx_list) = rx_list[1] /\ 1 \in 1 .. Len(rx_list)
      BY <1>1, <3>1, HeadFacts DEF IInv
    <3> QED
      BY <1>1, <3>1, <3>2 DEF IInv, OrderInv, After, IdOf
  <2>2. clean_all_rx => tun' = NoPacket
    BY DEF clean_all_rx
  <2> QED
    BY <1>1, <2>1, <2>2
       DEF Next, rx_insert, rx_send, rx_send_lock, rx_send_head,
           rx_send_match, rx_send_advance, Reset, sync_reset_group,
           sync_reset_index, Tick, vars
<1> QED
  BY Invariance, <1>1, PTL DEF Spec, WritesInOrder
-----------------------------------------------------------------------------
(* The queue implements OrderedDelivery.  Where the copies of a packet are *)
(* in the list, and how many there are.                                    *)
CopiesAt(p) == {k \in DOMAIN rx_list : IdOf(rx_list[k]) = p /\ ~(k = 1 /\ Advancing)}
Copies      == [p \in Id |-> Cardinality(CopiesAt(p))]

LEMMA OneToOne ==
  ASSUME NEW S, IsFiniteSet(S), NEW T, NEW f \in [S -> T],
         \A a, b \in S : f[a] = f[b] => a = b,
         \A c \in T : \E a \in S : f[a] = c
  PROVE  IsFiniteSet(T) /\ Cardinality(T) = Cardinality(S)
<1>1. f \in Bijection(S, T)
  BY DEF Bijection, Injection, IsInjective, Surjection
<1> QED
  BY <1>1, FS_Bijection DEF ExistsBijection

LEMMA CopiesFinite ==
  ASSUME TypeOK, NEW p
  PROVE  /\ Len(rx_list) \in Nat /\ DOMAIN rx_list = 1 .. Len(rx_list)
         /\ CopiesAt(p) \subseteq 1 .. Len(rx_list)
         /\ IsFiniteSet(CopiesAt(p)) /\ Cardinality(CopiesAt(p)) \in Nat
<1>1. Len(rx_list) \in Nat /\ DOMAIN rx_list = 1 .. Len(rx_list)
  BY LenProperties DEF TypeOK
<1>2. CopiesAt(p) \subseteq 1 .. Len(rx_list)
  BY <1>1 DEF CopiesAt
<1>3. IsFiniteSet(1 .. Len(rx_list))
  BY <1>1, FS_Interval
<1>4. IsFiniteSet(CopiesAt(p))
  BY <1>2, <1>3, FS_Subset
<1> QED
  BY <1>1, <1>2, <1>4, FS_CardinalityType

(* A packet put into the list is one copy more, wherever it comes to be.   *)
LEMMA InsertAddsCopy ==
  ASSUME TypeOK, ~Advancing, ~Advancing', NEW p \in Id, NEW k \in 1 .. Len(rx_list) + 1,
         rx_list' = InsertAt(rx_list, k,
           [group_id |-> p.group_id, index |-> p.index, age |-> 0])
  PROVE  Copies' = [Copies EXCEPT ![p] = @ + 1]
<1>1. /\ rx_list' \in Seq(RxPacket)
      /\ Len(rx_list') = Len(rx_list) + 1
      /\ \A j \in 1 .. Len(rx_list) + 1 :
           rx_list'[j] = IF j < k THEN rx_list[j]
                         ELSE IF j = k
                         THEN [group_id |-> p.group_id, index |-> p.index, age |-> 0]
                         ELSE rx_list[j - 1]
  BY InsertFacts
<1>2. Len(rx_list) \in Nat /\ DOMAIN rx_list = 1 .. Len(rx_list)
      /\ DOMAIN rx_list' = 1 .. Len(rx_list) + 1 /\ k \in Nat
  BY <1>1, LenProperties, CopiesFinite
<1>3. IdOf(rx_list'[k]) = p
  BY <1>1 DEF IdOf, Id
<1>4. ASSUME NEW q \in Id
      PROVE  Cardinality(CopiesAt(q)') =
               IF q = p THEN Cardinality(CopiesAt(q)) + 1 ELSE Cardinality(CopiesAt(q))
  <2> DEFINE others == CopiesAt(q)' \ {k}
             moved(j) == IF j < k THEN j ELSE j + 1
             move == [j \in CopiesAt(q) |-> moved(j)]
  <2>1. \A j \in CopiesAt(q) : j \in 1 .. Len(rx_list) /\ IdOf(rx_list[j]) = q
    BY <1>2 DEF CopiesAt
  <2>2. \A j \in 1 .. Len(rx_list) :
          moved(j) \in 1 .. Len(rx_list) + 1 /\ moved(j) # k /\ rx_list'[moved(j)] = rx_list[j]
    <3> TAKE j \in 1 .. Len(rx_list)
    <3>1. CASE j < k
      BY <1>1, <1>2, <3>1
    <3>2. CASE ~(j < k)
      <4>1. j + 1 \in 1 .. Len(rx_list) + 1 /\ ~(j + 1 < k) /\ j + 1 # k /\ (j + 1) - 1 = j
        BY <1>2, <3>2
      <4> QED
        BY <1>1, <3>2, <4>1
    <3> QED
      BY <3>1, <3>2
  <2>3. move \in [CopiesAt(q) -> others]
    <3>1. \A j \in CopiesAt(q) : moved(j) \in others
      BY <1>2, <2>1, <2>2 DEF CopiesAt
    <3> QED
      BY <3>1
  <2>4. \A a, b \in CopiesAt(q) : move[a] = move[b] => a = b
    BY <1>2, <2>1
  <2>5. \A c \in others : \E a \in CopiesAt(q) : move[a] = c
    <3> TAKE c \in others
    <3>1. c \in 1 .. Len(rx_list) + 1 /\ c # k /\ IdOf(rx_list'[c]) = q
      BY <1>2 DEF CopiesAt
    <3>2. PICK a \in 1 .. Len(rx_list) : moved(a) = c
      <4>1. CASE c < k
        BY <1>2, <3>1, <4>1
      <4>2. CASE ~(c < k)
        <5>1. c - 1 \in 1 .. Len(rx_list) /\ moved(c - 1) = c
          BY <1>2, <3>1, <4>2
        <5> QED
          BY <5>1
      <4> QED
        BY <4>1, <4>2
    <3>3. a \in CopiesAt(q)
      BY <1>2, <2>2, <3>1, <3>2 DEF CopiesAt
    <3> QED
      BY <3>2, <3>3
  <2> HIDE DEF move
  <2>6. IsFiniteSet(others) /\ Cardinality(others) = Cardinality(CopiesAt(q))
    BY <2>3, <2>4, <2>5, CopiesFinite, OneToOne
  <2>7. k \in CopiesAt(q)' <=> q = p
    BY <1>2, <1>3 DEF CopiesAt
  <2>8. /\ k \notin others
        /\ CopiesAt(q)' = IF q = p THEN others \cup {k} ELSE others
    BY <2>7
  <2> HIDE DEF others
  <2>9. Cardinality(others \cup {k}) = Cardinality(others) + 1
    BY <2>6, <2>8, FS_AddElement
  <2> QED
    BY <2>6, <2>8, <2>9
<1>5. \A q \in Id : Cardinality(CopiesAt(q)) \in Nat
  BY CopiesFinite
<1> QED
  BY <1>4, <1>5 DEF Copies

(* Written, the head does not wait any more although it is in the list.    *)
LEMMA WriteTakesCopy ==
  ASSUME TypeOK, rx_list # <<>>, ~Advancing, Advancing', UNCHANGED rx_list
  PROVE  Copies' = [Copies EXCEPT ![IdOf(Head(rx_list))] = @ - 1]
<1> DEFINE p == IdOf(Head(rx_list))
<1>1. p \in Id /\ Head(rx_list) = rx_list[1] /\ 1 \in DOMAIN rx_list
  BY HeadFacts, CopiesFinite
<1>2. ASSUME NEW q \in Id
      PROVE  Cardinality(CopiesAt(q)') = Cardinality(CopiesAt(q)) - IF q = p THEN 1 ELSE 0
  <2>1. CopiesAt(q)' = CopiesAt(q) \ {1}
    BY DEF CopiesAt
  <2>2. 1 \in CopiesAt(q) <=> q = p
    BY <1>1 DEF CopiesAt
  <2>3. Cardinality(CopiesAt(q) \ {1}) =
          IF 1 \in CopiesAt(q) THEN Cardinality(CopiesAt(q)) - 1 ELSE Cardinality(CopiesAt(q))
    BY CopiesFinite, FS_RemoveElement
  <2>4. Cardinality(CopiesAt(q)) \in Nat
    BY CopiesFinite
  <2> QED
    BY <2>1, <2>2, <2>3, <2>4
<1> HIDE DEF p
<1>3. \A q \in Id : Cardinality(CopiesAt(q)) \in Nat
  BY CopiesFinite
<1>4. Copies' = [Copies EXCEPT ![p] = @ - 1]
  BY <1>2, <1>3 DEF Copies
<1> QED
  BY <1>4 DEF p

(* Its removal from the list then changes nothing.                         *)
LEMMA PopKeepsCopies ==
  ASSUME TypeOK, rx_list # <<>>, Advancing, ~Advancing', rx_list' = Tail(rx_list)
  PROVE  Copies' = Copies
<1>1. /\ rx_list' \in Seq(RxPacket)
      /\ Len(rx_list) \in Nat \ {0}
      /\ Len(rx_list') = Len(rx_list) - 1
      /\ \A j \in 1 .. Len(rx_list) - 1 : rx_list'[j] = rx_list[j + 1]
  BY PopFacts
<1>2. DOMAIN rx_list = 1 .. Len(rx_list) /\ DOMAIN rx_list' = 1 .. Len(rx_list) - 1
  BY <1>1, LenProperties, CopiesFinite
<1>3. ASSUME NEW q \in Id
      PROVE  Cardinality(CopiesAt(q)') = Cardinality(CopiesAt(q))
  <2> DEFINE move == [j \in CopiesAt(q) |-> j - 1]
  <2>1. \A j \in CopiesAt(q) :
          j \in 2 .. Len(rx_list) /\ j \in Int /\ IdOf(rx_list[j]) = q
    BY <1>1, <1>2 DEF CopiesAt
  <2>2. move \in [CopiesAt(q) -> CopiesAt(q)']
    <3> SUFFICES ASSUME NEW j \in CopiesAt(q) PROVE j - 1 \in CopiesAt(q)'
      OBVIOUS
    <3>1. j - 1 \in 1 .. Len(rx_list) - 1 /\ (j - 1) + 1 = j
      BY <1>1, <2>1
    <3>2. IdOf(rx_list'[j - 1]) = q
      BY <1>1, <2>1, <3>1
    <3> QED
      BY <1>2, <3>1, <3>2 DEF CopiesAt
  <2>3. \A a, b \in CopiesAt(q) : move[a] = move[b] => a = b
    BY <2>1
  <2>4. \A c \in CopiesAt(q)' : \E a \in CopiesAt(q) : move[a] = c
    <3> TAKE c \in CopiesAt(q)'
    <3>1. c \in 1 .. Len(rx_list) - 1 /\ IdOf(rx_list'[c]) = q
      BY <1>2 DEF CopiesAt
    <3>2. c + 1 \in 1 .. Len(rx_list) /\ c + 1 # 1 /\ rx_list'[c] = rx_list[c + 1]
          /\ (c + 1) - 1 = c
      BY <1>1, <3>1
    <3>3. c + 1 \in CopiesAt(q)
      BY <1>2, <3>1, <3>2 DEF CopiesAt
    <3>4. move[c + 1] = c
      BY <3>2, <3>3
    <3> QED
      BY <3>3, <3>4
  <2> HIDE DEF move
  <2> QED
    BY <2>2, <2>3, <2>4, CopiesFinite, OneToOne
<1> QED
  BY <1>3 DEF Copies

LEMMA SameIdentities ==
  /\ Ordered!Id = Id /\ Ordered!LastId = LastId /\ Ordered!NoPacket = NoPacket
  /\ \A p, q : Ordered!After(p, q) <=> After(p, q)
BY DEF Ordered!Id, Ordered!GroupId, Ordered!Index, Ordered!LastId, Ordered!NoPacket,
       Ordered!After, Id, GroupId, Index, LastId, NoPacket, After

(* A packet that is not discarded follows everything written.              *)
LEMMA InsertIsAccept ==
  ASSUME IInv, NEW p \in Id, rx_insert(p), ~UNCHANGED <<rx_list, rx_num, pc>>
  PROVE  Ordered!Accept(p)
<1> USE DEF IInv
<1>1. /\ pc["main"] = "idle" /\ rx_mutex = "free" /\ ~Stale(p) /\ tun' = tun
      /\ pc' = [pc EXCEPT !["main"] = "rx_send"]
  BY DEF rx_insert
<1>2. PICK k \in 1 .. Len(rx_list) + 1 :
        rx_list' = InsertAt(rx_list, k,
          [group_id |-> p.group_id, index |-> p.index, age |-> 0])
  BY DEF rx_insert
<1>3. ~Advancing /\ ~Advancing' /\ ~InReset
  BY <1>1, AdvancingFacts DEF InReset, ResetLabel, Advancing, TypeOK
<1>4. Copies' = [Copies EXCEPT ![p] = @ + 1]
  BY <1>2, <1>3, InsertAddsCopy
<1>5. After(p, tun) \/ tun = LastId
  <2>1. CASE tun = NoPacket
    BY <2>1 DEF NoPacket, After, Id, GroupId, Index
  <2>2. CASE tun # NoPacket /\ tun # LastId
    <3>1. Expected = NextId(tun) /\ tun \in Id
      BY <1>3, <2>2 DEF PositionInv, ExpectedFollowsTun, TypeOK
    <3>2. ~After(NextId(tun), p)
      BY <1>1, <3>1 DEF Stale
    <3> QED
      BY <2>2, <3>1, <3>2, PacketIdAssumption
         DEF Id, GroupId, Index, After, NextId, NextGroup, NextIndex, LastId
  <2> QED
    BY <2>1, <2>2
<1> QED
  BY <1>1, <1>4, <1>5, SameIdentities DEF Ordered!Accept, Copies, CopiesAt

LEMMA WriteIsWrite ==
  ASSUME IInv, NEW t \in Thread, rx_send_write(t)
  PROVE  \E p \in Id : Ordered!Write(p)
<1> USE DEF IInv
<1> DEFINE p == IdOf(Head(rx_list))
<1>1. /\ pc[t] = "write" /\ rx_list # <<>> /\ rx_list' = rx_list /\ tun' = p
      /\ pc' = [pc EXCEPT ![t] = "advance_index"]
  BY DEF rx_send_write, HeadInv
<1>2. p \in Id /\ Head(rx_list) = rx_list[1] /\ 1 \in 1 .. Len(rx_list)
  BY <1>1, HeadFacts
<1>3. ~Advancing /\ Advancing'
  <2>1. rx_mutex = t
    BY <1>1 DEF MutexInv, SendLabel
  <2> QED
    BY <1>1, <2>1, AdvancingFacts DEF Advancing, TypeOK
<1>4. Copies' = [Copies EXCEPT ![p] = @ - 1]
  BY <1>1, <1>3, WriteTakesCopy
<1>5. ASSUME NEW q \in Id, Copies[q] > 0 PROVE ~After(p, q)
  <2>1. CopiesAt(q) # {}
    BY <1>5, FS_EmptySet DEF Copies
  <2>2. PICK k \in 1 .. Len(rx_list) : IdOf(rx_list[k]) = q
    BY <2>1, CopiesFinite DEF CopiesAt
  <2>3. ~After(rx_list[1], rx_list[k])
    BY <1>2, ElementFacts, AfterOrder DEF Sorted
  <2> QED
    BY <1>2, <2>2, <2>3 DEF IdOf, After
<1>6. Copies[p] > 0
  <2>1. 1 \in CopiesAt(p)
    BY <1>2, <1>3, CopiesFinite DEF CopiesAt
  <2>2. Cardinality(CopiesAt(p)) # 0 /\ Cardinality(CopiesAt(p)) \in Nat
    BY <2>1, CopiesFinite, FS_EmptySet
  <2> QED
    BY <1>2, <2>2 DEF Copies
<1> HIDE DEF p
<1>7. Ordered!Write(p)
  BY <1>1, <1>4, <1>5, <1>6, SameIdentities DEF Ordered!Write, Copies, CopiesAt
<1> QED
  BY <1>2, <1>7 DEF p

LEMMA CleanIsReset ==
  ASSUME IInv, clean_all_rx
  PROVE  Ordered!Reset
<1>1. rx_list' = <<>> /\ tun' = NoPacket
  BY DEF clean_all_rx
<1>2. \A p \in Id : CopiesAt(p)' = {}
  BY <1>1 DEF CopiesAt
<1>3. Copies' = [p \in Id |-> 0]
  BY <1>2, FS_EmptySet DEF Copies
<1> QED
  BY <1>1, <1>3, SameIdentities DEF Ordered!Reset, Ordered!Nothing, Copies, CopiesAt

(* Every other step promises nothing: no copy comes or goes.               *)
LEMMA OthersStutter ==
  ASSUME IInv,
         \/ \E t \in Thread : \/ rx_send_lock(t) \/ rx_send_head(t)
                              \/ rx_send_match(t) \/ rx_send_advance(t)
         \/ sync_reset_group \/ sync_reset_index \/ Tick
         \/ UNCHANGED <<rx_list, pc, tun>>
  PROVE  UNCHANGED <<Copies, tun>>
<1> USE DEF IInv
<1>1. ASSUME NEW t \in Thread, rx_send_advance(t) PROVE UNCHANGED <<Copies, tun>>
  <2>1. /\ pc[t] = "advance_index" /\ rx_list # <<>> /\ rx_list' = Tail(rx_list) /\ tun' = tun
        /\ pc' = [pc EXCEPT ![t] = "send_head"]
    BY <1>1 DEF rx_send_advance, HeadInv
  <2>2. rx_mutex = t
    BY <2>1 DEF MutexInv, SendLabel
  <2>3. Advancing /\ ~Advancing'
    <3>1. \A u \in Thread : u # t => pc[u] # "advance_index"
      BY <2>2 DEF MutexInv, SendLabel
    <3> QED
      BY <2>1, <3>1 DEF Advancing, TypeOK
  <2> QED
    BY <2>1, <2>3, PopKeepsCopies
<1>2. ASSUME NEW t \in Thread, rx_send_lock(t) \/ rx_send_head(t) \/ rx_send_match(t)
      PROVE  UNCHANGED <<Copies, tun>>
  <2>1. /\ pc[t] # "advance_index"
        /\ \E l \in {"send_head", "idle", "rx_send", "write", "match_index"} :
             pc' = [pc EXCEPT ![t] = l]
        /\ UNCHANGED <<rx_list, tun>>
    BY <1>2 DEF rx_send_lock, rx_send_head, rx_send_match, Return
  <2>2. Advancing' = Advancing
    BY <2>1 DEF Advancing, TypeOK
  <2> QED
    BY <2>1, <2>2 DEF Copies, CopiesAt
<1>3. CASE sync_reset_group \/ sync_reset_index
  <2>1. /\ pc["main"] # "advance_index"
        /\ \E l \in ResetLabel : pc' = [pc EXCEPT !["main"] = l]
        /\ UNCHANGED <<rx_list, tun>>
    BY <1>3 DEF sync_reset_group, sync_reset_index, ResetLabel
  <2>2. Advancing' = Advancing
    BY <2>1 DEF Advancing, TypeOK, ResetLabel
  <2> QED
    BY <2>1, <2>2 DEF Copies, CopiesAt
<1>4. CASE Tick
  <2>1. /\ rx_list' \in Seq(RxPacket) /\ Len(rx_list') = Len(rx_list)
        /\ \A j \in 1 .. Len(rx_list) : IdOf(rx_list'[j]) = IdOf(rx_list[j])
    BY <1>4, TickFacts DEF IdOf
  <2>2. Advancing' = Advancing /\ tun' = tun
    BY <1>4 DEF Tick, Advancing
  <2>3. DOMAIN rx_list = 1 .. Len(rx_list) /\ DOMAIN rx_list' = 1 .. Len(rx_list)
    BY <2>1, LenProperties, CopiesFinite
  <2>4. \A p \in Id : CopiesAt(p)' = CopiesAt(p)
    BY <2>1, <2>2, <2>3 DEF CopiesAt
  <2> QED
    BY <2>2, <2>4 DEF Copies
<1>5. CASE UNCHANGED <<rx_list, pc, tun>>
  BY <1>5 DEF Copies, CopiesAt, Advancing
<1> QED
  BY <1>1, <1>2, <1>3, <1>4, <1>5

LEMMA StepIsPromised ==
  ASSUME IInv, [Next]_vars
  PROVE  [Ordered!Next]_(Ordered!vars)
<1>1. ASSUME NEW p \in Id, rx_insert(p) PROVE Ordered!Next \/ UNCHANGED <<Copies, tun>>
  <2>1. CASE UNCHANGED <<rx_list, rx_num, pc>>
    BY <1>1, <2>1, OthersStutter DEF rx_insert
  <2>2. CASE ~UNCHANGED <<rx_list, rx_num, pc>>
    BY <1>1, <2>2, InsertIsAccept, SameIdentities DEF Ordered!Next
  <2> QED
    BY <2>1, <2>2
<1>2. ASSUME NEW t \in Thread, rx_send_write(t) PROVE Ordered!Next
  BY <1>2, WriteIsWrite, SameIdentities DEF Ordered!Next
<1>3. ASSUME clean_all_rx PROVE Ordered!Next
  BY <1>3, CleanIsReset DEF Ordered!Next
<1>4. ASSUME UNCHANGED vars PROVE UNCHANGED <<Copies, tun>>
  BY <1>4, OthersStutter DEF vars
<1>5. Ordered!Next \/ UNCHANGED <<Copies, tun>>
  BY <1>1, <1>2, <1>3, <1>4, OthersStutter DEF Next, rx_send, Reset
<1> QED
  BY <1>5 DEF Ordered!vars, Copies, CopiesAt

(* rx_insert accepts only what follows everything written; rx_send writes  *)
(* every copy once and after those that precede it; and nothing but the    *)
(* reset discards one.                                                     *)
THEOREM ImplementsPromise == Spec => Implements
<1>1. Init => Ordered!Init
  <2> SUFFICES ASSUME Init PROVE Ordered!Init
    OBVIOUS
  <2>1. \A p \in Id : CopiesAt(p) = {}
    BY DEF Init, CopiesAt
  <2>2. Copies = [p \in Id |-> 0]
    BY <2>1, FS_EmptySet DEF Copies
  <2> QED
    BY <2>2, SameIdentities DEF Init, Ordered!Init, Ordered!Nothing, Copies, CopiesAt
<1> QED
  BY <1>1, StepIsPromised, Invariance, PTL DEF Spec, Implements, Ordered!Spec
=============================================================================
