--------------------------- MODULE AckQueueProofs ----------------------------
(***************************************************************************)
(* Acknowledged sending for every number of packets, every ack_timeout and *)
(* every parity_delay_thres: the list is consistent whenever it is         *)
(* touched, monitor_ack leaves no overdue packet behind, parity_status     *)
(* follows the delays, and the packets are settled as Retransmission       *)
(* promises.                                                               *)
(***************************************************************************)
EXTENDS AckQueue, SequenceTheorems, TLAPS

(* The k-th cell is unlinked.                                              *)
LEMMA RemoveAtProperties ==
  ASSUME NEW S, NEW s \in Seq(S), NEW k \in 1 .. Len(s)
  PROVE  /\ RemoveAt(s, k) \in Seq(S)
         /\ Len(RemoveAt(s, k)) = Len(s) - 1
         /\ \A j \in 1 .. Len(s) - 1 :
              RemoveAt(s, k)[j] = IF j < k THEN s[j] ELSE s[j + 1]
<1> DEFINE front == SubSeq(s, 1, k - 1)
           back  == SubSeq(s, k + 1, Len(s))
<1>0. Len(s) \in Nat /\ \A j \in 1 .. Len(s) : s[j] \in S
  BY LenProperties, ElementOfSeq
<1>1. /\ front \in Seq(S)
      /\ Len(front) = k - 1
      /\ \A j \in 1 .. k - 1 : front[j] = s[j]
  <2>1. \A j \in 1 .. k - 1 : s[j] \in S
    BY <1>0
  <2> QED
    BY <1>0, <2>1, SubSeqProperties
<1>2. /\ back \in Seq(S)
      /\ Len(back) = Len(s) - k
      /\ \A j \in 1 .. Len(s) - k : back[j] = s[k + j]
  <2>1. \A j \in k + 1 .. Len(s) : s[j] \in S
    BY <1>0
  <2> QED
    BY <1>0, <2>1, SubSeqProperties
<1>3. RemoveAt(s, k) = front \o back
  BY DEF RemoveAt, front, back
<1> HIDE DEF front, back
<1>4. Len(front) + Len(back) = Len(s) - 1
  BY <1>0, <1>1, <1>2
<1>5. /\ front \o back \in Seq(S)
      /\ Len(front \o back) = Len(s) - 1
      /\ \A j \in 1 .. Len(s) - 1 : (front \o back)[j] =
           IF j <= Len(front) THEN front[j] ELSE back[j - Len(front)]
  <2>1. front \in Seq(S) /\ back \in Seq(S)
    BY <1>1, <1>2
  <2> QED
    BY <1>4, <2>1, ConcatProperties
<1>6. ASSUME NEW j \in 1 .. Len(s) - 1
      PROVE  (front \o back)[j] = IF j < k THEN s[j] ELSE s[j + 1]
  <2>1. CASE j < k
    BY <1>0, <1>1, <1>5, <2>1
  <2>2. CASE j >= k
    <3>1. /\ Len(front) = k - 1
          /\ j - (k - 1) \in 1 .. Len(s) - k
          /\ k + (j - (k - 1)) = j + 1
      BY <1>0, <1>1, <2>2
    <3>2. back[j - (k - 1)] = s[j + 1]
      BY <1>2, <3>1
    <3>3. (front \o back)[j] = back[j - (k - 1)]
      BY <1>0, <1>5, <2>2, <3>1
    <3> QED
      BY <1>0, <2>2, <3>2, <3>3
  <2>3. j < k \/ j >= k
    BY <1>0
  <2> QED
    BY <2>1, <2>2, <2>3
<1> QED
  BY <1>3, <1>5, <1>6

-----------------------------------------------------------------------------
(* Every packet sent waits in the list, was acknowledged or was taken off  *)
(* it; what was taken off is not in it any more.                           *)
OutcomeInv ==
  /\ \A k \in 1 .. Len(ack_list) : ack_list[k] <= sent
  /\ acked \cup expired \subseteq 1 .. sent
  /\ \A p \in Packet : InList(p) => p \notin expired
  /\ \A p \in 1 .. sent : ~InList(p) => p \in acked \cup expired

(* What the counters of parity_status_fun say of the last two delays.      *)
Counts(counter, late) ==
  /\ (counter = 2) <=> (slow = <<late, late>>)
  /\ (counter >= 1) <=> (slow # <<>> /\ slow[Len(slow)] = late)

ParityInv ==
  /\ Counts(delay_over_thres_time, TRUE)
  /\ Counts(delay_below_thres_time, FALSE)

IInv == ListConsistent /\ OutcomeInv /\ ParityInv
-----------------------------------------------------------------------------
(* How a step changes the list: these facts are all that the proofs below  *)
(* need of the sequence operators.                                         *)

LEMMA ListFacts ==
  ASSUME TypeOK
  PROVE  /\ Len(ack_list) \in Nat
         /\ ack_list = <<>> <=> Len(ack_list) = 0
         /\ \A k \in 1 .. Len(ack_list) : ack_list[k] \in Packet
BY LenProperties, ElementOfSeq, EmptySeq DEF TypeOK

(* ack_insert links the packet behind the last cell, since that is where   *)
(* ack_tail points.                                                        *)
LEMMA InsertFacts ==
  ASSUME TypeOK, TailIsLast, OldestFirst, NEW p \in Packet, Insert(p)
  PROVE  /\ ack_list' \in Seq(Packet)
         /\ Len(ack_list') = Len(ack_list) + 1
         /\ ack_list'[Len(ack_list) + 1] = p
         /\ \A k \in 1 .. Len(ack_list) : ack_list'[k] = ack_list[k]
         /\ ack_tail' = p
<1> DEFINE n == Len(ack_list)
<1>0. /\ ack_list \in Seq(Packet)
      /\ n \in Nat
      /\ ack_list = <<>> <=> n = 0
      /\ \A k \in 1 .. n : ack_list[k] \in Packet
  BY ListFacts DEF TypeOK
<1>1. ack_list' = Append(ack_list, p)
  <2>1. CASE ack_list = <<>>
    BY <2>1 DEF Insert
  <2>2. CASE ack_list # <<>>
    <3>1. n \in 1 .. n /\ ack_tail = ack_list[n]
      BY <1>0, <2>2 DEF TailIsLast, Last
    <3>2. ASSUME NEW k \in 1 .. n, ack_list[k] = ack_tail PROVE k = n
      <4>1. k < n => ack_list[k] < ack_list[n]
        BY <3>1 DEF OldestFirst
      <4> QED
        BY <1>0, <3>1, <3>2, <4>1 DEF Packet
    <3>3. {k \in 1 .. n : ack_list[k] = ack_tail} = {n}
      BY <3>1, <3>2
    <3>4. SubSeq(ack_list, 1, n) = ack_list
      BY <1>0, SubSeqFull
    <3>5. LinkBehind(ack_tail, p) = Append(SubSeq(ack_list, 1, n), p)
      BY <3>3 DEF LinkBehind
    <3> QED
      BY <2>2, <3>4, <3>5 DEF Insert
  <2> QED
    BY <2>1, <2>2
<1>2. /\ Append(ack_list, p) \in Seq(Packet)
      /\ Len(Append(ack_list, p)) = n + 1
      /\ \A k \in 1 .. n + 1 :
           Append(ack_list, p)[k] = IF k <= n THEN ack_list[k] ELSE p
  BY <1>0, AppendProperties
<1> QED
  BY <1>0, <1>1, <1>2 DEF Insert

LEMMA UnlinkFacts ==
  ASSUME TypeOK, TailIsLast, NEW k \in 1 .. Len(ack_list), Unlink(k)
  PROVE  /\ ack_list' \in Seq(Packet)
         /\ Len(ack_list') = Len(ack_list) - 1
         /\ \A j \in 1 .. Len(ack_list) - 1 :
              ack_list'[j] = IF j < k THEN ack_list[j] ELSE ack_list[j + 1]
         /\ ack_tail' \in Packet \cup {Null}
         /\ TailIsLast'
<1> DEFINE n == Len(ack_list)
<1>0. /\ n \in Nat \ {0}
      /\ ack_list # <<>>
      /\ \A j \in 1 .. n : ack_list[j] \in Packet
  BY ListFacts
<1>1. /\ ack_list' \in Seq(Packet)
      /\ Len(ack_list') = n - 1
      /\ \A j \in 1 .. n - 1 :
           ack_list'[j] = IF j < k THEN ack_list[j] ELSE ack_list[j + 1]
  BY RemoveAtProperties DEF TypeOK, Unlink
<1>2. ack_list' = <<>> <=> n = 1
  BY <1>0, <1>1, EmptySeq
<1>3. ack_tail' = IF ack_list' = <<>> THEN Null ELSE ack_list'[n - 1]
  <2>1. CASE k < n
    <3>1. ack_list'[n - 1] = ack_list[n]
      BY <1>0, <1>1, <2>1
    <3> QED
      BY <1>0, <1>2, <2>1, <3>1 DEF Unlink, TailIsLast, Last
  <2>2. CASE k = n /\ n = 1
    BY <1>2, <2>2 DEF Unlink
  <2>3. CASE k = n /\ n # 1
    <3>1. ack_list'[n - 1] = ack_list[n - 1]
      BY <1>0, <1>1, <2>3
    <3> QED
      BY <1>0, <1>2, <2>3, <3>1 DEF Unlink
  <2> QED
    BY <1>0, <2>1, <2>2, <2>3
<1>4. ack_tail' \in Packet \cup {Null}
  <2>1. n # 1 => ack_list'[n - 1] \in Packet
    BY <1>0, <1>1
  <2> QED
    BY <1>2, <1>3, <2>1
<1> QED
  BY <1>1, <1>3, <1>4 DEF TailIsLast, Last

(* What is in the list after a packet was linked to it or taken off it.    *)
LEMMA InsertInList ==
  ASSUME TypeOK, TailIsLast, OldestFirst, NEW p \in Packet, Insert(p)
  PROVE  \A q : InList(q)' <=> InList(q) \/ q = p
<1>1. /\ Len(ack_list) \in Nat
      /\ Len(ack_list') = Len(ack_list) + 1
      /\ ack_list'[Len(ack_list) + 1] = p
      /\ \A k \in 1 .. Len(ack_list) : ack_list'[k] = ack_list[k]
  BY ListFacts, InsertFacts
<1> QED
  BY <1>1 DEF InList

LEMMA UnlinkInList ==
  ASSUME TypeOK, TailIsLast, OldestFirst, NEW k \in 1 .. Len(ack_list), Unlink(k)
  PROVE  \A q : InList(q)' <=> InList(q) /\ q # ack_list[k]
<1> DEFINE n == Len(ack_list)
<1>1. /\ n \in Nat \ {0}
      /\ \A j \in 1 .. n : ack_list[j] \in Packet
      /\ Len(ack_list') = n - 1
      /\ \A j \in 1 .. n - 1 :
           ack_list'[j] = IF j < k THEN ack_list[j] ELSE ack_list[j + 1]
  BY ListFacts, UnlinkFacts
<1>2. ASSUME NEW i \in 1 .. n, NEW j \in 1 .. n, i < j
      PROVE  ack_list[i] # ack_list[j]
  <2>1. ack_list[i] < ack_list[j]
    BY <1>2 DEF OldestFirst
  <2> QED
    BY <1>1, <2>1 DEF Packet
<1>3. ASSUME NEW q, InList(q)'
      PROVE  InList(q) /\ q # ack_list[k]
  <2>1. PICK j \in 1 .. n - 1 : ack_list'[j] = q
    BY <1>1, <1>3 DEF InList
  <2>2. CASE j < k
    BY <1>1, <1>2, <2>1, <2>2 DEF InList
  <2>3. CASE j >= k
    <3>1. j + 1 \in 1 .. n /\ k < j + 1 /\ ack_list[j + 1] = q
      BY <1>1, <2>1, <2>3
    <3> QED
      BY <1>2, <3>1 DEF InList
  <2> QED
    BY <1>1, <2>2, <2>3
<1>4. ASSUME NEW q, InList(q), q # ack_list[k]
      PROVE  InList(q)'
  <2>1. PICK j \in 1 .. n : ack_list[j] = q
    BY <1>4 DEF InList
  <2>2. CASE j < k
    BY <1>1, <2>1, <2>2 DEF InList
  <2>3. CASE j > k
    <3>1. j - 1 \in 1 .. n - 1 /\ ~(j - 1 < k) /\ (j - 1) + 1 = j
      BY <1>1, <2>3
    <3>2. ack_list'[j - 1] = q
      BY <1>1, <2>1, <3>1
    <3> QED
      BY <1>1, <3>1, <3>2 DEF InList
  <2> QED
    BY <1>1, <1>4, <2>1, <2>2, <2>3
<1> QED
  BY <1>3, <1>4

(* Taking a packet off the list leaves it in order.                        *)
LEMMA UnlinkOldestFirst ==
  ASSUME TypeOK, TailIsLast, OldestFirst,
         NEW k \in 1 .. Len(ack_list), Unlink(k), age' = age
  PROVE  OldestFirst'
<1> DEFINE n == Len(ack_list)
           from(j) == IF j < k THEN j ELSE j + 1
<1>1. /\ n \in Nat
      /\ Len(ack_list') = n - 1
      /\ \A j \in 1 .. n - 1 : ack_list'[j] = ack_list[from(j)]
  BY ListFacts, UnlinkFacts
<1>2. \A j \in 1 .. n - 1 : from(j) \in 1 .. n
  BY <1>1
<1>3. \A i, j \in 1 .. n - 1 : i < j => from(i) < from(j)
  BY <1>1
<1> HIDE DEF from
<1> SUFFICES ASSUME NEW i \in 1 .. n - 1, NEW j \in 1 .. n - 1, i < j
             PROVE  /\ ack_list'[i] < ack_list'[j]
                    /\ age[ack_list'[i]] >= age[ack_list'[j]]
  BY <1>1 DEF OldestFirst
<1>4. from(i) \in 1 .. n /\ from(j) \in 1 .. n /\ from(i) < from(j)
  BY <1>2, <1>3
<1>5. /\ ack_list[from(i)] < ack_list[from(j)]
      /\ age[ack_list[from(i)]] >= age[ack_list[from(j)]]
  BY <1>4 DEF OldestFirst
<1> QED
  BY <1>1, <1>5
-----------------------------------------------------------------------------
(* parity_status_fun keeps the counters in step with the last two delays,  *)
(* and parity_status follows those.                                        *)
LEMMA ParityFacts ==
  ASSUME TypeOK, ParityInv, NEW p \in Packet, parity_status_fun(p)
  PROVE  /\ delay_over_thres_time' \in 0 .. 2
         /\ delay_below_thres_time' \in 0 .. 2
         /\ parity_status' \in {0, 1}
         /\ slow' \in [1 .. 1 -> BOOLEAN] \cup [1 .. 2 -> BOOLEAN]
         /\ ParityInv'
         /\ parity_status' = CASE slow' = <<TRUE, TRUE>>   -> 1
                               [] slow' = <<FALSE, FALSE>> -> 0
                               [] OTHER -> parity_status
<1> DEFINE late == age[p] > ParityDelayThres
           last == slow[Len(slow)]
<1>1. /\ delay_over_thres_time \in 0 .. 2 /\ delay_below_thres_time \in 0 .. 2
      /\ parity_status \in {0, 1}
      /\ slow = <<>> \/ last \in BOOLEAN
      /\ late \in BOOLEAN
  BY DEF TypeOK
<1>2. /\ slow' = IF slow = <<>> THEN <<late>> ELSE <<last, late>>
      /\ delay_over_thres_time' = IF late THEN Count(delay_over_thres_time) ELSE 0
      /\ delay_below_thres_time' = IF late THEN 0 ELSE Count(delay_below_thres_time)
      /\ parity_status' = IF delay_below_thres_time' >= 2 THEN 0
                          ELSE IF delay_over_thres_time' >= 2 THEN 1 ELSE parity_status
  BY DEF parity_status_fun, Counted
<1>3. /\ (delay_over_thres_time >= 1) <=> (slow # <<>> /\ last = TRUE)
      /\ (delay_below_thres_time >= 1) <=> (slow # <<>> /\ last = FALSE)
  BY DEF ParityInv, Counts
<1> HIDE DEF late, last
<1>4. /\ (delay_over_thres_time' = 2) <=> (late /\ slow # <<>> /\ last = TRUE)
      /\ (delay_over_thres_time' >= 1) <=> late
      /\ (delay_below_thres_time' = 2) <=> (~late /\ slow # <<>> /\ last = FALSE)
      /\ (delay_below_thres_time' >= 1) <=> ~late
      /\ delay_over_thres_time' \in 0 .. 2
      /\ delay_below_thres_time' \in 0 .. 2
  BY <1>1, <1>2, <1>3 DEF Count
<1>5. /\ slow' # <<>>
      /\ slow'[Len(slow')] = late
      /\ \A b \in BOOLEAN :
           slow' = <<b, b>> <=> slow # <<>> /\ last = b /\ late = b
      /\ slow' \in [1 .. 1 -> BOOLEAN] \cup [1 .. 2 -> BOOLEAN]
  <2>1. CASE slow = <<>>
    BY <1>1, <1>2, <2>1
  <2>2. CASE slow # <<>>
    BY <1>1, <1>2, <2>2
  <2> QED
    BY <2>1, <2>2
<1>6. ParityInv'
  BY <1>1, <1>4, <1>5 DEF ParityInv, Counts
<1>7. /\ parity_status' = CASE slow' = <<TRUE, TRUE>>   -> 1
                            [] slow' = <<FALSE, FALSE>> -> 0
                            [] OTHER -> parity_status
      /\ parity_status' \in {0, 1}
  <2>1. /\ slow' = <<TRUE, TRUE>> <=> delay_over_thres_time' = 2
        /\ slow' = <<FALSE, FALSE>> <=> delay_below_thres_time' = 2
        /\ ~(delay_over_thres_time' = 2 /\ delay_below_thres_time' = 2)
    <3>1. /\ slow' = <<TRUE, TRUE>> <=> slow # <<>> /\ last = TRUE /\ late = TRUE
          /\ slow' = <<FALSE, FALSE>> <=> slow # <<>> /\ last = FALSE /\ late = FALSE
      BY <1>5, Zenon
    <3>2. (late = TRUE <=> late) /\ (late = FALSE <=> ~late)
      BY <1>1
    <3> QED
      BY <1>4, <3>1, <3>2, Zenon
  <2>2. parity_status' = IF delay_below_thres_time' = 2 THEN 0
                         ELSE IF delay_over_thres_time' = 2 THEN 1 ELSE parity_status
    <3>1. /\ delay_below_thres_time' >= 2 <=> delay_below_thres_time' = 2
          /\ delay_over_thres_time' >= 2 <=> delay_over_thres_time' = 2
      BY <1>4
    <3> QED
      BY <1>2, <3>1, Zenon
  <2>3. CASE slow' = <<TRUE, TRUE>>
    BY <2>1, <2>2, <2>3, Zenon
  <2>4. CASE slow' = <<FALSE, FALSE>> /\ slow' # <<TRUE, TRUE>>
    BY <2>1, <2>2, <2>4, Zenon
  <2>5. CASE slow' # <<TRUE, TRUE>> /\ slow' # <<FALSE, FALSE>>
    BY <1>1, <2>1, <2>2, <2>5
  <2> QED
    BY <1>1, <2>1, <2>2, <2>3, <2>4, <2>5
<1> QED
  BY <1>4, <1>5, <1>6, <1>7
-----------------------------------------------------------------------------
LEMMA InitIInv == Init => IInv
<1> SUFFICES ASSUME Init PROVE IInv
  OBVIOUS
<1>1. ack_list = <<>> /\ Len(ack_list) = 0
  BY DEF Init
<1>2. TypeOK
  <2>1. age \in [Packet -> 0 .. MaxAge]
    BY AckQueueAssumption DEF Init, MaxAge
  <2> QED
    BY <1>1, <2>1, AckQueueAssumption, EmptySeq DEF Init, TypeOK
<1>3. TailIsLast /\ OldestFirst
  BY <1>1 DEF Init, TailIsLast, OldestFirst
<1>4. OutcomeInv
  BY <1>1 DEF Init, OutcomeInv, InList
<1>5. ParityInv
  BY DEF Init, ParityInv, Counts
<1> QED
  BY <1>2, <1>3, <1>4, <1>5 DEF IInv, ListConsistent

LEMMA InsertStep == IInv /\ ack_insert => IInv'
<1> SUFFICES ASSUME IInv, ack_insert PROVE IInv'
  OBVIOUS
<1> DEFINE n == Len(ack_list)
           p == sent + 1
<1>0. TypeOK /\ TailIsLast /\ OldestFirst /\ OutcomeInv /\ ParityInv
  BY DEF IInv, ListConsistent
<1>1. /\ p \in Packet
      /\ sent \in Nat /\ sent' = p
      /\ age' = [age EXCEPT ![p] = 0]
      /\ Insert(p)
      /\ UNCHANGED <<ack_mutex, parity_vars, mode, acked, expired>>
  BY <1>0, AckQueueAssumption DEF ack_insert, TypeOK, Packet
<1> HIDE DEF p
<1>2. /\ n \in Nat
      /\ \A k \in 1 .. n : ack_list[k] \in Packet
      /\ ack_list' \in Seq(Packet)
      /\ Len(ack_list') = n + 1
      /\ ack_list'[n + 1] = p
      /\ \A k \in 1 .. n : ack_list'[k] = ack_list[k]
      /\ ack_tail' = p
  BY <1>0, <1>1, ListFacts, InsertFacts
<1>3. \A k \in 1 .. n : ack_list[k] < p
  BY <1>0, <1>1, <1>2 DEF OutcomeInv, p, Packet
<1>4. age' \in [Packet -> 0 .. MaxAge]
  BY <1>0, <1>1, AckQueueAssumption DEF TypeOK, MaxAge
<1>5. TypeOK'
  <2>1. p \in 0 .. MaxPacket
    BY <1>1 DEF Packet
  <2> QED
    BY <1>0, <1>1, <1>2, <1>4, <2>1 DEF TypeOK, parity_vars
<1>6. TailIsLast'
  <2>1. ack_list' # <<>>
    BY <1>2, EmptySeq
  <2> QED
    BY <1>2, <2>1 DEF TailIsLast, Last
<1>7. OldestFirst'
  <2> SUFFICES ASSUME NEW i \in 1 .. n + 1, NEW j \in 1 .. n + 1, i < j
               PROVE  /\ ack_list'[i] < ack_list'[j]
                      /\ age'[ack_list'[i]] >= age'[ack_list'[j]]
    BY <1>2 DEF OldestFirst
  <2>1. i \in 1 .. n /\ ack_list'[i] = ack_list[i] /\ ack_list[i] \in Packet
    BY <1>2
  <2>2. ack_list[i] < p /\ ack_list[i] # p
    BY <1>1, <1>3, <2>1 DEF Packet
  <2>3. age'[ack_list[i]] = age[ack_list[i]] /\ age[ack_list[i]] >= 0
    BY <1>0, <1>1, <2>1, <2>2 DEF TypeOK
  <2>4. CASE j = n + 1
    <3>1. age'[p] = 0
      BY <1>0, <1>1 DEF TypeOK
    <3> QED
      BY <1>2, <2>1, <2>2, <2>3, <2>4, <3>1
  <2>5. CASE j \in 1 .. n
    <3>1. ack_list'[j] = ack_list[j] /\ ack_list[j] \in Packet
      BY <1>2, <2>5
    <3>2. ack_list[j] # p
      BY <1>3, <2>5, <3>1 DEF Packet
    <3>3. age'[ack_list[j]] = age[ack_list[j]]
      BY <1>0, <1>1, <3>1, <3>2 DEF TypeOK
    <3> QED
      BY <1>0, <2>1, <2>3, <2>5, <3>1, <3>3 DEF OldestFirst
  <2> QED
    BY <1>2, <2>4, <2>5
<1>8. OutcomeInv'
  <2>1. \A q : InList(q)' <=> InList(q) \/ q = p
    BY <1>0, <1>1, InsertInList
  <2>2. \A k \in 1 .. Len(ack_list') : ack_list'[k] <= sent'
    BY <1>1, <1>2, <1>3 DEF Packet
  <2>3. (acked \cup expired)' \subseteq 1 .. sent'
    BY <1>0, <1>1 DEF OutcomeInv, p
  <2>4. \A q \in Packet : InList(q)' => q \notin expired'
    BY <1>0, <1>1, <2>1 DEF OutcomeInv, p
  <2>5. \A q \in 1 .. sent' : ~InList(q)' => q \in (acked \cup expired)'
    BY <1>0, <1>1, <2>1 DEF OutcomeInv, p
  <2> QED
    BY <2>2, <2>3, <2>4, <2>5 DEF OutcomeInv
<1>9. ParityInv'
  BY <1>0, <1>1 DEF ParityInv, Counts, parity_vars
<1> QED
  BY <1>5, <1>6, <1>7, <1>8, <1>9 DEF IInv, ListConsistent

(* remove_ack and monitor_expire take a packet off the list; the first has *)
(* an acknowledgement for it, the second none.                             *)
LEMMA UnlinkStep ==
  ASSUME IInv, NEW k \in 1 .. Len(ack_list), Unlink(k),
         IF mode = 4 THEN parity_status_fun(ack_list[k]) ELSE UNCHANGED parity_vars,
         UNCHANGED <<age, mode, sent>>, ack_mutex' \in {"free", "monitor_ack"},
         \/ acked' = acked \cup {ack_list[k]} /\ UNCHANGED expired
         \/ expired' = expired \cup {ack_list[k]} /\ UNCHANGED acked
  PROVE  IInv'
<1> DEFINE n == Len(ack_list)
           p == ack_list[k]
<1>0. TypeOK /\ TailIsLast /\ OldestFirst /\ OutcomeInv /\ ParityInv
  BY DEF IInv, ListConsistent
<1>1. /\ n \in Nat
      /\ p \in Packet
      /\ p <= sent
      /\ ack_list' \in Seq(Packet)
      /\ Len(ack_list') = n - 1
      /\ \A j \in 1 .. n - 1 :
           ack_list'[j] = IF j < k THEN ack_list[j] ELSE ack_list[j + 1]
      /\ ack_tail' \in Packet \cup {Null}
      /\ TailIsLast'
  BY <1>0, ListFacts, UnlinkFacts DEF OutcomeInv
<1>2. \A q : InList(q)' <=> InList(q) /\ q # p
  BY <1>0, UnlinkInList
<1>3. /\ delay_over_thres_time' \in 0 .. 2 /\ delay_below_thres_time' \in 0 .. 2
      /\ parity_status' \in {0, 1}
      /\ slow' \in {<<>>} \cup [1 .. 1 -> BOOLEAN] \cup [1 .. 2 -> BOOLEAN]
      /\ ParityInv'
  <2>1. CASE mode = 4
    BY <1>0, <1>1, <2>1, ParityFacts
  <2>2. CASE mode # 4
    BY <1>0, <2>2 DEF TypeOK, ParityInv, Counts, parity_vars
  <2> QED
    BY <2>1, <2>2
<1>4. TypeOK'
  BY <1>0, <1>1, <1>3 DEF TypeOK
<1>5. OldestFirst'
  BY <1>0, UnlinkOldestFirst
<1>6. OutcomeInv'
  <2>1. \A j \in 1 .. Len(ack_list') : ack_list'[j] <= sent'
    <3> SUFFICES ASSUME NEW j \in 1 .. n - 1 PROVE ack_list'[j] <= sent
      BY <1>1
    <3>1. j \in 1 .. n /\ j + 1 \in 1 .. n
      BY <1>1
    <3> QED
      BY <1>0, <1>1, <3>1 DEF OutcomeInv
  <2>2. (acked \cup expired)' \subseteq 1 .. sent'
    <3>1. p \in 1 .. sent
      BY <1>0, <1>1 DEF Packet, TypeOK
    <3> QED
      BY <1>0, <3>1 DEF OutcomeInv
  <2>3. \A q \in Packet : InList(q)' => q \notin expired'
    BY <1>0, <1>2 DEF OutcomeInv
  <2>4. \A q \in 1 .. sent' : ~InList(q)' => q \in (acked \cup expired)'
    BY <1>0, <1>2 DEF OutcomeInv
  <2> QED
    BY <2>1, <2>2, <2>3, <2>4 DEF OutcomeInv
<1> QED
  BY <1>1, <1>3, <1>4, <1>5, <1>6 DEF IInv, ListConsistent

LEMMA RemoveStep ==
  ASSUME IInv, NEW p \in Packet, remove_ack(p)
  PROVE  IInv'
<1>0. TypeOK /\ TailIsLast /\ OldestFirst /\ OutcomeInv /\ ParityInv
  BY DEF IInv, ListConsistent
<1>1. p \in 1 .. sent
  BY <1>0 DEF remove_ack, Packet, TypeOK
<1>2. CASE InList(p)
  <2>1. PICK k \in 1 .. Len(ack_list) :
          /\ ack_list[k] = p
          /\ Unlink(k)
          /\ IF mode = 4 THEN parity_status_fun(p) ELSE UNCHANGED parity_vars
    BY <1>2 DEF remove_ack
  <2> QED
    BY <1>0, <2>1, UnlinkStep DEF remove_ack, TypeOK
<1>3. CASE ~InList(p)
  <2>1. /\ UNCHANGED <<list_vars, parity_vars, ack_mutex, age, mode, sent, expired>>
        /\ acked' = acked \cup {p}
    BY <1>3 DEF remove_ack, InList
  <2>2. TypeOK'
    BY <1>0, <2>1 DEF TypeOK, list_vars, parity_vars
  <2>3. TailIsLast' /\ OldestFirst' /\ ParityInv'
    BY <1>0, <2>1
       DEF TailIsLast, OldestFirst, ParityInv, Counts, list_vars, parity_vars
  <2>4. OutcomeInv'
    BY <1>0, <1>1, <2>1 DEF OutcomeInv, InList, list_vars
  <2> QED
    BY <2>2, <2>3, <2>4 DEF IInv, ListConsistent
<1> QED
  BY <1>2, <1>3

LEMMA CleanStep == IInv /\ clean_all_ack => IInv'
<1> SUFFICES ASSUME IInv, clean_all_ack PROVE IInv'
  OBVIOUS
<1>0. TypeOK /\ ParityInv
  BY DEF IInv, ListConsistent
<1>1. ack_list' = <<>> /\ Len(ack_list') = 0
  BY DEF clean_all_ack
<1>2. TypeOK'
  <2>1. age' \in [Packet -> 0 .. MaxAge]
    BY AckQueueAssumption DEF clean_all_ack, MaxAge
  <2> QED
    BY <1>0, <1>1, <2>1, AckQueueAssumption, EmptySeq
       DEF clean_all_ack, TypeOK, parity_vars
<1>3. TailIsLast' /\ OldestFirst'
  BY <1>1 DEF clean_all_ack, TailIsLast, OldestFirst
<1>4. OutcomeInv'
  BY <1>1 DEF clean_all_ack, OutcomeInv, InList
<1>5. ParityInv'
  BY <1>0 DEF clean_all_ack, ParityInv, Counts, parity_vars
<1> QED
  BY <1>2, <1>3, <1>4, <1>5 DEF IInv, ListConsistent

LEMMA MonitorStep == IInv /\ monitor_ack => IInv'
<1> SUFFICES ASSUME IInv, monitor_ack PROVE IInv'
  OBVIOUS
<1>0. TypeOK
  BY DEF IInv, ListConsistent
<1>1. CASE monitor_expire
  <2>1. 1 \in 1 .. Len(ack_list) /\ Head(ack_list) = ack_list[1]
    BY <1>0, <1>1, ListFacts DEF monitor_expire
  <2> QED
    BY <1>0, <1>1, <2>1, UnlinkStep DEF monitor_expire, TypeOK
<1>2. CASE monitor_lock \/ monitor_release
  <2>1. /\ UNCHANGED <<list_vars, age, parity_vars, session_vars>>
        /\ ack_mutex' \in {"free", "monitor_ack"}
    BY <1>2 DEF monitor_lock, monitor_release
  <2> QED
    BY <2>1
       DEF IInv, ListConsistent, TypeOK, TailIsLast, OldestFirst, OutcomeInv,
           ParityInv, Counts, InList, list_vars, parity_vars, session_vars
<1> QED
  BY <1>1, <1>2 DEF monitor_ack

(* Time passes alike for all packets in the list.                          *)
LEMMA TickStep == IInv /\ Tick => IInv'
<1> SUFFICES ASSUME IInv, Tick PROVE IInv'
  OBVIOUS
<1>0. TypeOK /\ TailIsLast /\ OldestFirst /\ OutcomeInv /\ ParityInv
  BY DEF IInv, ListConsistent
<1>1. /\ UNCHANGED <<list_vars, ack_mutex, parity_vars, session_vars>>
      /\ age' = [q \in Packet |->
                   IF InList(q) /\ age[q] < MaxAge THEN age[q] + 1 ELSE age[q]]
  BY DEF Tick
<1>2. MaxAge \in Nat
  BY AckQueueAssumption DEF MaxAge
<1>3. age' \in [Packet -> 0 .. MaxAge]
  BY <1>0, <1>1, <1>2 DEF TypeOK
<1>4. TypeOK'
  BY <1>0, <1>1, <1>3 DEF TypeOK, list_vars, parity_vars, session_vars
<1>5. OldestFirst'
  <2> SUFFICES ASSUME NEW i \in 1 .. Len(ack_list), NEW j \in 1 .. Len(ack_list), i < j
               PROVE  /\ ack_list[i] < ack_list[j]
                      /\ age'[ack_list[i]] >= age'[ack_list[j]]
    BY <1>1 DEF OldestFirst, list_vars
  <2>1. /\ ack_list[i] \in Packet /\ ack_list[j] \in Packet
        /\ InList(ack_list[i]) /\ InList(ack_list[j])
    BY <1>0, ListFacts DEF InList
  <2>2. /\ age[ack_list[i]] \in 0 .. MaxAge /\ age[ack_list[j]] \in 0 .. MaxAge
        /\ ack_list[i] < ack_list[j]
        /\ age[ack_list[i]] >= age[ack_list[j]]
    BY <1>0, <2>1 DEF TypeOK, OldestFirst
  <2> QED
    BY <1>1, <1>2, <2>1, <2>2
<1>6. TailIsLast' /\ OutcomeInv' /\ ParityInv'
  BY <1>0, <1>1
     DEF TailIsLast, OutcomeInv, ParityInv, Counts, InList, list_vars,
         parity_vars, session_vars
<1> QED
  BY <1>4, <1>5, <1>6 DEF IInv, ListConsistent

LEMMA StepIInv == IInv /\ [Next]_vars => IInv'
<1> SUFFICES ASSUME IInv, [Next]_vars PROVE IInv'
  OBVIOUS
<1>1. CASE ack_insert
  BY <1>1, InsertStep
<1>2. CASE \E p \in Packet : remove_ack(p)
  BY <1>2, RemoveStep
<1>3. CASE clean_all_ack
  BY <1>3, CleanStep
<1>4. CASE monitor_ack
  BY <1>4, MonitorStep
<1>5. CASE Tick
  BY <1>5, TickStep
<1>6. CASE UNCHANGED vars
  BY <1>6
     DEF IInv, ListConsistent, TypeOK, TailIsLast, OldestFirst, OutcomeInv,
         ParityInv, Counts, InList, vars, list_vars, parity_vars, session_vars
<1> QED
  BY <1>1, <1>2, <1>3, <1>4, <1>5, <1>6 DEF Next
-----------------------------------------------------------------------------
(* The inductive invariant holds in every reachable state.                 *)
THEOREM Invariance == Spec => []IInv
<1> QED
  BY InitIInv, StepIInv, PTL DEF Spec

(* Whenever the list is touched, ack_tail is its last cell (fec.c:844-853, *)
(* 912-927, 1005-1013), and it is in order of sending and of age.          *)
THEOREM ListAlwaysConsistent == Spec => []ListConsistent
<1>1. IInv => ListConsistent
  BY DEF IInv
<1> QED
  BY <1>1, Invariance, PTL

(* monitor_ack stops at the first packet that is not overdue (fec.c:962-968), *)
(* and lets none that is overdue wait behind it.                           *)
THEOREM NoneLeftOverdue == Spec => NoneOverdue
<1>1. ASSUME IInv, [Next]_vars
      PROVE  [monitor_release => \A p \in Packet : InList(p) => age[p] < AckTimeout]_vars
  <2> SUFFICES ASSUME monitor_release, NEW p \in Packet, InList(p)
               PROVE  age[p] < AckTimeout
    OBVIOUS
  <2>0. TypeOK /\ OldestFirst
    BY <1>1 DEF IInv, ListConsistent
  <2>1. PICK k \in 1 .. Len(ack_list) : ack_list[k] = p
    BY DEF InList
  <2>2. /\ 1 \in 1 .. Len(ack_list)
        /\ ack_list # <<>>
        /\ Head(ack_list) = ack_list[1]
        /\ ack_list[1] \in Packet
    BY <2>0, <2>1, ListFacts
  <2>3. age[ack_list[1]] < AckTimeout
    <3>1. ~Overdue(ack_list[1])
      BY <2>2 DEF monitor_release
    <3>2. age[ack_list[1]] \in Int
      BY <2>0, <2>2 DEF TypeOK
    <3> QED
      BY <3>1, <3>2, AckQueueAssumption DEF Overdue
  <2>4. age[p] <= age[ack_list[1]]
    <3>1. age[ack_list[1]] \in Int
      BY <2>0, <2>2 DEF TypeOK
    <3>2. CASE k = 1
      BY <2>1, <3>1, <3>2
    <3>3. CASE 1 < k
      BY <2>0, <2>1, <2>2, <3>3 DEF OldestFirst
    <3> QED
      BY <2>1, <3>2, <3>3
  <2> QED
    BY <2>0, <2>2, <2>3, <2>4, AckQueueAssumption DEF TypeOK
<1> QED
  BY <1>1, Invariance, PTL DEF Spec, NoneOverdue

(* parity_status changes when two delays in a row are on the other side of *)
(* the threshold, and only then (parity_status_fun, fec.c:857-887).      *)
THEOREM ParityAlwaysFollows == Spec => ParityFollows
<1> DEFINE Follows ==
      parity_status' = CASE slow' = <<TRUE, TRUE>>   -> 1
                         [] slow' = <<FALSE, FALSE>> -> 0
                         [] OTHER -> parity_status
<1>1. ASSUME IInv, [Next]_vars
      PROVE  [Follows]_parity_vars
  <2>0. TypeOK /\ ParityInv
    BY <1>1 DEF IInv, ListConsistent
  <2>1. \/ UNCHANGED parity_vars
        \/ \E p \in Packet : parity_status_fun(p)
    <3>1. CASE monitor_expire
      <4>1. Head(ack_list) \in Packet
        BY <2>0, <3>1, ListFacts DEF monitor_expire
      <4> QED
        BY <3>1, <4>1 DEF monitor_expire
    <3> QED
      BY <1>1, <3>1
         DEF Next, vars, ack_insert, remove_ack, clean_all_ack, monitor_ack,
             monitor_lock, monitor_release, Tick
  <2> QED
    BY <2>0, <2>1, ParityFacts
<1> QED
  BY <1>1, Invariance, PTL DEF Spec, ParityFollows
-----------------------------------------------------------------------------
(* The packets are settled as Retransmission promises: each step of the    *)
(* list is a step of the promise, or changes nothing that it mentions.     *)
Outcomes == [p \in Packet |-> OutcomeOf(p)]
Late     == {p \in Packet : InList(p) /\ age[p] >= AckTimeout}

(* What a state of the list says of a packet.                              *)
LEMMA OutcomeFacts ==
  ASSUME IInv, NEW q \in Packet
  PROVE  /\ Outcomes[q] = OutcomeOf(q)
         /\ OutcomeOf(q) = "unsent" <=> q > sent
         /\ OutcomeOf(q) = "waiting" <=> InList(q)
         /\ InList(q) => q <= sent /\ q \notin expired
         /\ q <= sent /\ ~InList(q) => q \in acked \cup expired
<1>1. InList(q) => q <= sent /\ q \notin expired
  BY DEF IInv, OutcomeInv, InList
<1>2. q <= sent /\ ~InList(q) => q \in acked \cup expired
  BY DEF IInv, OutcomeInv, Packet, ListConsistent, TypeOK
<1>3. sent \in Nat /\ q \in Nat
  BY DEF IInv, ListConsistent, TypeOK, Packet
<1> QED
  BY <1>1, <1>2, <1>3 DEF OutcomeOf, Outcomes

LEMMA InsertIsSend ==
  ASSUME IInv, ack_insert
  PROVE  \E p \in Packet : Promise!Send(p)
<1>0. TypeOK /\ TailIsLast /\ OldestFirst
  BY DEF IInv, ListConsistent
<1>p. PICK p \in Packet : p = sent + 1
  BY <1>0, AckQueueAssumption DEF ack_insert, TypeOK, Packet
<1>1. /\ sent \in Nat /\ sent' = p
      /\ age' = [age EXCEPT ![p] = 0]
      /\ Insert(p)
      /\ UNCHANGED <<acked, expired>>
  BY <1>0, <1>p DEF ack_insert, TypeOK
<1>2. \A q \in Packet : InList(q)' <=> InList(q) \/ q = p
  BY <1>0, <1>1, InsertInList
<1>3. \A q \in Packet : OutcomeOf(q)' = IF q = p THEN "waiting" ELSE OutcomeOf(q)
  <2> SUFFICES ASSUME NEW q \in Packet
               PROVE  OutcomeOf(q)' = IF q = p THEN "waiting" ELSE OutcomeOf(q)
    OBVIOUS
  <2>1. q > sent' <=> q > sent /\ q # p
    BY <1>p, <1>1 DEF Packet
  <2>2. ~(p > sent')
    BY <1>p, <1>1
  <2> QED
    BY <1>1, <1>2, <2>1, <2>2 DEF OutcomeOf
<1>4. Outcomes' = [Outcomes EXCEPT ![p] = "waiting"]
  BY <1>1, <1>3 DEF Outcomes
<1>5. \A q \in Packet : q # p => age'[q] = age[q]
  BY <1>0, <1>1 DEF TypeOK
<1>6. age'[p] = 0
  BY <1>0, <1>1 DEF TypeOK
<1>7. ~InList(p)
  BY <1>p, <1>1, OutcomeFacts
<1>8. \/ Late' = Late
      \/ AckTimeout = 0 /\ Late = {q \in Packet : InList(q)} /\ Late' = Late \cup {p}
  <2>1. CASE AckTimeout = 0
    <3>1. ASSUME NEW q \in Packet
          PROVE  age[q] >= AckTimeout /\ age'[q] >= AckTimeout
      <4>1. age[q] >= AckTimeout
        BY <1>0, <2>1, AckQueueAssumption DEF TypeOK
      <4> QED
        BY <1>5, <1>6, <2>1, <4>1
    <3> QED
      BY <1>1, <1>2, <2>1, <3>1 DEF Late
  <2>2. CASE AckTimeout # 0
    <3>1. ~(age'[p] >= AckTimeout)
      BY <1>6, <2>2, AckQueueAssumption
    <3> QED
      BY <1>1, <1>2, <1>5, <1>7, <3>1 DEF Late
  <2> QED
    BY <2>1, <2>2
<1>9. {q \in Packet : InList(q)} = {q \in Packet : Outcomes[q] = "waiting"}
  BY OutcomeFacts
<1>10. /\ Outcomes[p] = "unsent"
       /\ \A q \in Packet : q < p => Outcomes[q] # "unsent"
  <2>1. p > sent /\ \A q \in Packet : q < p => ~(q > sent)
    BY <1>p, <1>1 DEF Packet
  <2> QED
    BY <2>1, OutcomeFacts
<1>11. Promise!Send(p)
  BY <1>4, <1>8, <1>9, <1>10 DEF Promise!Send, Promise!Waiting, Outcomes, Late
<1> QED
  BY <1>11

(* A packet that leaves the list is settled, the others stay as they are.  *)
LEMMA UnlinkSettles ==
  ASSUME IInv, NEW k \in 1 .. Len(ack_list), Unlink(k), UNCHANGED <<age, sent>>,
         NEW settled \in {"acked", "expired"},
         IF settled = "acked"
         THEN acked' = acked \cup {ack_list[k]} /\ UNCHANGED expired
         ELSE expired' = expired \cup {ack_list[k]} /\ UNCHANGED acked
  PROVE  /\ ack_list[k] \in Packet /\ Outcomes[ack_list[k]] = "waiting"
         /\ Outcomes' = [Outcomes EXCEPT ![ack_list[k]] = settled]
         /\ Late' = Late \ {ack_list[k]}
<1> DEFINE p == ack_list[k]
<1>0. TypeOK /\ TailIsLast /\ OldestFirst
  BY DEF IInv, ListConsistent
<1>1. p \in Packet /\ InList(p)
  BY <1>0, ListFacts DEF InList
<1>2. \A q : InList(q)' <=> InList(q) /\ q # p
  BY <1>0, UnlinkInList
<1> HIDE DEF p
<1>3. ~(p > sent) /\ p \notin expired
  <2>1. p \in Nat /\ sent \in Nat
    BY <1>0, <1>1 DEF TypeOK, Packet
  <2> QED
    BY <1>1, <2>1, OutcomeFacts
<1>4. \A q \in Packet : OutcomeOf(q)' = IF q = p THEN settled ELSE OutcomeOf(q)
  BY <1>2, <1>3 DEF OutcomeOf, p
<1>5. Outcomes' = [Outcomes EXCEPT ![p] = settled]
  BY <1>4 DEF Outcomes
<1>6. Late' = Late \ {p}
  BY <1>2 DEF Late
<1> QED
  BY <1>1, <1>5, <1>6, OutcomeFacts DEF p

LEMMA RemoveIsAck ==
  ASSUME IInv, NEW p \in Packet, remove_ack(p)
  PROVE  Promise!Ack(p) \/ UNCHANGED <<Outcomes, Late>>
<1>1. CASE InList(p)
  <2>1. PICK k \in 1 .. Len(ack_list) : ack_list[k] = p /\ Unlink(k)
    BY <1>1 DEF remove_ack
  <2>2. UNCHANGED <<age, sent, expired>> /\ acked' = acked \cup {p}
    BY DEF remove_ack
  <2>3. /\ Outcomes[p] = "waiting"
        /\ Outcomes' = [Outcomes EXCEPT ![p] = "acked"]
        /\ Late' = Late \ {p}
    BY <2>1, <2>2, UnlinkSettles
  <2> QED
    BY <2>3 DEF Promise!Ack, Promise!Waiting, Outcomes, Late
<1>2. CASE ~InList(p)
  <2>1. /\ UNCHANGED <<ack_list, age, sent, expired>>
        /\ acked' = acked \cup {p}
        /\ p <= sent
    BY <1>2 DEF remove_ack, InList, list_vars
  <2>2. p \in acked \cup expired
    BY <1>2, <2>1, OutcomeFacts
  <2>3. \A q \in Packet : OutcomeOf(q)' = OutcomeOf(q)
    BY <2>1, <2>2 DEF OutcomeOf, InList
  <2> QED
    BY <2>1, <2>3 DEF Outcomes, Late, InList
<1> QED
  BY <1>1, <1>2

LEMMA CleanIsNewSession ==
  ASSUME clean_all_ack
  PROVE  Promise!NewSession
<1>1. \A q \in Packet : ~InList(q)' /\ q > sent'
  BY DEF clean_all_ack, InList, Packet
<1> QED
  BY <1>1 DEF Promise!NewSession, OutcomeOf

(* monitor_ack takes the oldest packet.                                    *)
LEMMA ExpireIsExpire ==
  ASSUME IInv, monitor_expire
  PROVE  \E p \in Packet : Promise!Expire(p)
<1>0. TypeOK /\ OldestFirst
  BY DEF IInv, ListConsistent
<1>p. PICK p \in Packet : p = ack_list[1]
  BY <1>0, ListFacts DEF monitor_expire
<1>1. /\ 1 \in 1 .. Len(ack_list)
      /\ Head(ack_list) = p
      /\ InList(p)
  BY <1>0, <1>p, ListFacts DEF monitor_expire, InList
<1>2. /\ Unlink(1)
      /\ UNCHANGED <<age, sent, acked>>
      /\ expired' = expired \cup {p}
      /\ age[p] >= AckTimeout
  BY <1>1 DEF monitor_expire, Overdue
<1>3. /\ Outcomes' = [Outcomes EXCEPT ![p] = "expired"]
      /\ Late' = Late \ {p}
  BY <1>p, <1>1, <1>2, UnlinkSettles
<1>4. ASSUME NEW q \in Packet, InList(q)
      PROVE  p <= q
  <2>1. PICK k \in 1 .. Len(ack_list) : ack_list[k] = q
    BY <1>4 DEF InList
  <2>2. k > 1 => p < q
    BY <1>0, <1>p, <1>1, <2>1 DEF OldestFirst
  <2> QED
    BY <1>p, <2>1, <2>2 DEF Packet
<1>5. p \in Late
  BY <1>1, <1>2 DEF Late
<1>6. \A q \in Packet : Outcomes[q] = "waiting" => p <= q
  BY <1>4, OutcomeFacts
<1>7. Promise!Expire(p)
  BY <1>3, <1>5, <1>6 DEF Promise!Expire, Promise!Waiting, Outcomes, Late
<1> QED
  BY <1>7

(* A packet is late no sooner than those sent before it, since it entered  *)
(* the list behind them.                                                   *)
LEMMA TickIsElapse ==
  ASSUME IInv, Tick
  PROVE  Promise!Elapse
<1>0. TypeOK /\ OldestFirst /\ TypeOK' /\ OldestFirst'
  BY TickStep DEF IInv, ListConsistent
<1>1. /\ UNCHANGED <<ack_list, sent, acked, expired>>
      /\ age' = [q \in Packet |->
                   IF InList(q) /\ age[q] < MaxAge THEN age[q] + 1 ELSE age[q]]
  BY DEF Tick, list_vars, session_vars
<1>2. \A q \in Packet : InList(q)' <=> InList(q)
  BY <1>1 DEF InList
<1>3. Outcomes' = Outcomes
  BY <1>1, <1>2 DEF Outcomes, OutcomeOf
<1>4. Late \subseteq Late'
  <2>1. ASSUME NEW q \in Packet PROVE age'[q] >= age[q]
    BY <1>0, <1>1 DEF TypeOK
  <2>2. MaxAge \in Nat
    BY AckQueueAssumption DEF MaxAge
  <2>3. ASSUME NEW q \in Packet, age[q] >= AckTimeout PROVE age'[q] >= AckTimeout
    BY <1>0, <2>1, <2>2, <2>3, AckQueueAssumption DEF TypeOK
  <2> QED
    BY <1>2, <2>3 DEF Late
<1>5. Late' \subseteq {q \in Packet : Outcomes[q] = "waiting"}
  BY <1>2, OutcomeFacts DEF Late
<1>6. ASSUME NEW p \in Late', NEW q \in Packet, Outcomes[q] = "waiting", q < p
      PROVE  q \in Late'
  <2>1. /\ p \in Packet /\ InList(p) /\ age'[p] >= AckTimeout
        /\ InList(q)
    BY <1>2, <1>6, OutcomeFacts DEF Late
  <2>2. PICK i \in 1 .. Len(ack_list), j \in 1 .. Len(ack_list) :
          ack_list[i] = q /\ ack_list[j] = p
    BY <2>1 DEF InList
  <2>3. i < j
    <3>1. j < i => p < q
      BY <1>0, <2>2 DEF OldestFirst
    <3>2. ~(p < q) /\ p # q
      BY <1>6, <2>1 DEF Packet
    <3> QED
      BY <2>2, <3>1, <3>2
  <2>4. age'[q] >= age'[p]
    BY <1>0, <1>1, <2>2, <2>3 DEF OldestFirst
  <2>5. MaxAge \in Nat /\ age'[p] \in 0 .. MaxAge /\ age'[q] \in 0 .. MaxAge
    <3>1. MaxAge \in Nat
      BY AckQueueAssumption DEF MaxAge
    <3> QED
      BY <1>0, <2>1, <3>1 DEF TypeOK
  <2>6. age'[q] >= AckTimeout
    BY <2>1, <2>4, <2>5, AckQueueAssumption
  <2> QED
    BY <1>2, <2>1, <2>6 DEF Late
<1> QED
  BY <1>3, <1>4, <1>5, <1>6 DEF Promise!Elapse, Promise!Waiting, Outcomes, Late

LEMMA StepIsPromised ==
  ASSUME IInv, [Next]_vars
  PROVE  [Promise!Next]_(Promise!vars)
<1>1. CASE ack_insert
  BY <1>1, InsertIsSend DEF Promise!Next
<1>2. CASE \E p \in Packet : remove_ack(p)
  BY <1>2, RemoveIsAck DEF Promise!Next, Promise!vars, Outcomes, Late
<1>3. CASE clean_all_ack
  BY <1>3, CleanIsNewSession DEF Promise!Next
<1>4. CASE monitor_expire
  BY <1>4, ExpireIsExpire DEF Promise!Next
<1>5. CASE Tick
  BY <1>5, TickIsElapse DEF Promise!Next
<1>6. CASE monitor_lock \/ monitor_release \/ UNCHANGED vars
  <2>1. UNCHANGED <<ack_list, age, sent, acked, expired>>
    BY <1>6
       DEF monitor_lock, monitor_release, vars, list_vars, session_vars
  <2> QED
    BY <2>1 DEF Promise!vars, OutcomeOf, InList
<1> QED
  BY <1>1, <1>2, <1>3, <1>4, <1>5, <1>6 DEF Next, monitor_ack

(* Every packet sent in a session is settled at most once, and timeouts    *)
(* come in the order of sending (ack_insert, remove_ack and monitor_ack of *)
(* fec.c).                                                                 *)
THEOREM ImplementsPromise == Spec => Implements
<1>1. Init => Promise!Init
  BY DEF Init, Promise!Init, OutcomeOf, InList, Packet
<1> QED
  BY <1>1, StepIsPromised, Invariance, PTL DEF Spec, Implements, Promise!Spec
=============================================================================
