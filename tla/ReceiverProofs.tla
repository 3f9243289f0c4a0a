--------------------------- MODULE ReceiverProofs ----------------------------
(***************************************************************************)
(* The receiver for every group size, number of parity packets, timeout    *)
(* and capacity: what serve_output hands to the receive queue, that the    *)
(* decoder it works on stays, and that it uses the queue as RxQueue        *)
(* describes, so that what is proved of RxQueue holds in the receiver.     *)
(***************************************************************************)
EXTENDS Receiver, FiniteSetTheorems, TLAPS

(* The theorems about the queue. *)
RxP == INSTANCE RxQueueProofs

LocalType ==
  /\ mode \in Mode
  /\ DOMAIN decoders \subseteq GroupId
  /\ \A g \in DOMAIN decoders : decoders[g] \in Decoder
  /\ main_pc \in {"poll", "store", "hand", "decode", "hand_missing",
                  "clean_all_decoder", "clean_all_rx"}
  /\ serving \in [group_id : GroupId, index : BlockIndex] \cup {NoPacket}
  /\ todo \subseteq Index

(* A decoder counts what it received, in the repeating modes only data     *)
(* packets, and has the blocks of the first data_num of them.              *)
Counted(m, d) ==
  /\ d.receive_num = Cardinality(BlockIndex \ d.marks)
  /\ m = "repeat" => BlockIndex \ Index \subseteq d.marks
  /\ d.receive_num <= DataNum => \A i \in BlockIndex \ d.marks : d.data_blocks[i] = "data"

(* It handed over all that it can.                                         *)
Settled(d) ==
  d.handed = IF d.receive_num >= DataNum THEN Index ELSE Index \ d.marks

DecodersInv ==
  \A g \in DOMAIN decoders :
    /\ Counted(mode, decoders[g])
    /\ serving.group_id # g => Settled(decoders[g])

(* The decoder serve_output works on, at each of its stages.               *)
Serving == {"store", "hand", "decode", "hand_missing"}

ServingInv ==
  /\ main_pc \in Serving =>
       /\ serving # NoPacket
       /\ serving.group_id \in DOMAIN decoders
       /\ mode = "repeat" => serving.index \in Index
  /\ main_pc \notin Serving => serving = NoPacket
  /\ main_pc = "clean_all_rx" => DOMAIN decoders = {}
  /\ main_pc = "store" => Settled(dec)
  /\ main_pc \in {"hand", "decode"} => dec.receive_num <= DataNum
  /\ main_pc = "hand" =>
       /\ serving.index \in Index \ dec.marks
       /\ dec.handed = (Index \ dec.marks) \ {serving.index}
  /\ main_pc = "decode" => dec.handed = Index \ dec.marks
  /\ main_pc = "hand_missing" =>
       /\ dec.receive_num = DataNum
       /\ dec.handed = Index \ todo
       /\ \A i \in todo : dec.data_blocks[i] = "data"

IInv == LocalType /\ DecodersInv /\ ServingInv
-----------------------------------------------------------------------------
LEMMA Sizes ==
  /\ DataNum \in Nat \ {0} /\ ParityNum \in Nat
  /\ Index \subseteq BlockIndex
  /\ IsFiniteSet(BlockIndex) /\ Cardinality(BlockIndex) = DataNum + ParityNum
  /\ IsFiniteSet(Index) /\ Cardinality(Index) = DataNum
  /\ NoPacket.group_id \notin GroupId
<1>1. DataNum \in Nat \ {0} /\ ParityNum \in Nat /\ GroupMod \in Nat
  BY PacketIdAssumption, ReceiverAssumption
<1>2. IsFiniteSet(BlockIndex) /\ Cardinality(BlockIndex) = DataNum + ParityNum
  BY <1>1, FS_Interval DEF BlockIndex
<1>3. IsFiniteSet(Index) /\ Cardinality(Index) = DataNum
  BY <1>1, FS_Interval DEF Index
<1> QED
  BY <1>1, <1>2, <1>3 DEF Index, BlockIndex, NoPacket, GroupId

(* One more packet is received.                                            *)
LEMMA OneMore ==
  ASSUME NEW marks \in SUBSET BlockIndex, NEW i \in marks
  PROVE  /\ Cardinality(BlockIndex \ marks) \in Nat
         /\ Cardinality(BlockIndex \ (marks \ {i})) = Cardinality(BlockIndex \ marks) + 1
         /\ Cardinality(BlockIndex \ (marks \ {i})) <= DataNum + ParityNum
<1>1. IsFiniteSet(BlockIndex \ marks) /\ IsFiniteSet(BlockIndex \ (marks \ {i}))
  BY Sizes, FS_Subset
<1>2. BlockIndex \ (marks \ {i}) = (BlockIndex \ marks) \cup {i} /\ i \notin BlockIndex \ marks
  OBVIOUS
<1>3. Cardinality(BlockIndex \ (marks \ {i})) = Cardinality(BlockIndex \ marks) + 1
  BY <1>1, <1>2, FS_AddElement
<1>4. Cardinality(BlockIndex \ (marks \ {i})) <= DataNum + ParityNum
  BY Sizes, FS_Subset
<1> QED
  BY <1>1, <1>3, <1>4, FS_CardinalityType

(* When data_num packets are there, as many of them are parity packets as  *)
(* data packets are missing: the blocks are enough to restore these.       *)
LEMMA EnoughParity ==
  ASSUME NEW marks \in SUBSET BlockIndex, Cardinality(BlockIndex \ marks) = DataNum
  PROVE  /\ IsFiniteSet(marks \cap Index)
         /\ Cardinality(BlockIndex \ (Index \cup marks)) = Cardinality(marks \cap Index)
<1> DEFINE Data == Index \ marks
           Gone == marks \cap Index
           Rest == BlockIndex \ (Index \cup marks)
<1>1. IsFiniteSet(Data) /\ IsFiniteSet(Gone) /\ IsFiniteSet(Rest)
  BY Sizes, FS_Subset
<1>2. Data \cup Gone = Index /\ Data \cap Gone = {}
  OBVIOUS
<1>3. Data \cup Rest = BlockIndex \ marks /\ Data \cap Rest = {}
  BY Sizes
<1> HIDE DEF Data, Gone, Rest
<1>4. /\ Cardinality(Data) \in Nat /\ Cardinality(Gone) \in Nat
      /\ Cardinality(Rest) \in Nat
  BY <1>1, FS_CardinalityType
<1>5. Cardinality(Data \cup Gone) = Cardinality(Data) + Cardinality(Gone)
  <2>1. Cardinality(Data \cup Gone)
          = Cardinality(Data) + Cardinality(Gone) - Cardinality(Data \cap Gone)
    BY <1>1, FS_Union
  <2>2. Cardinality(Data \cap Gone) = 0
    BY <1>2, FS_EmptySet
  <2> QED
    BY <1>4, <2>1, <2>2
<1>6. Cardinality(Data \cup Rest) = Cardinality(Data) + Cardinality(Rest)
  <2>1. Cardinality(Data \cup Rest)
          = Cardinality(Data) + Cardinality(Rest) - Cardinality(Data \cap Rest)
    BY <1>1, FS_Union
  <2>2. Cardinality(Data \cap Rest) = 0
    BY <1>3, FS_EmptySet
  <2> QED
    BY <1>4, <2>1, <2>2
<1>7. Cardinality(Data \cup Gone) = DataNum /\ Cardinality(Data \cup Rest) = DataNum
  BY <1>2, <1>3, Sizes
<1>8. Cardinality(Rest) = Cardinality(Gone)
  BY <1>4, <1>5, <1>6, <1>7
<1> QED
  BY <1>1, <1>8 DEF Gone, Rest
-----------------------------------------------------------------------------
LEMMA InitIInv == Init => IInv
<1> SUFFICES ASSUME Init PROVE IInv
  OBVIOUS
<1>1. LocalType
  BY DEF Init, LocalType, Mode
<1>2. DecodersInv
  BY DEF Init, DecodersInv
<1>3. ServingInv
  BY DEF Init, ServingInv, Serving
<1> QED
  BY <1>1, <1>2, <1>3 DEF IInv

(* Where serve_output changes nothing but its own decoder, or returns when *)
(* that one is settled, the decoders stay in order.                        *)
LEMMA OwnDecoder ==
  ASSUME IInv, NEW d \in Decoder,
         serving.group_id \in DOMAIN decoders,
         decoders' = [decoders EXCEPT ![serving.group_id] = d],
         mode' = mode,
         Counted(mode, d),
         serving' = serving \/ (serving' = NoPacket /\ Settled(d))
  PROVE  /\ DOMAIN decoders' = DOMAIN decoders
         /\ decoders'[serving.group_id] = d
         /\ \A h \in DOMAIN decoders' : decoders'[h] \in Decoder
         /\ DecodersInv'
<1>1. /\ DOMAIN decoders' = DOMAIN decoders
      /\ decoders'[serving.group_id] = d
      /\ \A h \in DOMAIN decoders \ {serving.group_id} : decoders'[h] = decoders[h]
  OBVIOUS
<1>2. \A h \in DOMAIN decoders' : decoders'[h] \in Decoder
  BY <1>1 DEF IInv, LocalType
<1>3. ASSUME NEW h \in DOMAIN decoders'
      PROVE  /\ Counted(mode', decoders'[h])
             /\ serving'.group_id # h => Settled(decoders'[h])
  <2>1. CASE h = serving.group_id
    BY <1>1, <2>1
  <2>2. CASE h # serving.group_id
    BY <1>1, <2>2 DEF IInv, DecodersInv
  <2> QED
    BY <2>1, <2>2
<1>4. DecodersInv'
  BY <1>3 DEF DecodersInv, Counted, Settled
<1> QED
  BY <1>1, <1>2, <1>4

(* A step that keeps the decoders, or returns from a settled one.          *)
LEMMA DecodersKept ==
  ASSUME IInv, decoders' = decoders, mode' = mode,
         \/ serving' = serving
         \/ serving' = NoPacket /\ (serving.group_id \in DOMAIN decoders => Settled(dec))
  PROVE  DecodersInv'
BY DEF IInv, DecodersInv, Counted, Settled, dec

LEMMA ServeStep ==
  ASSUME IInv, NEW g \in GroupId, NEW i \in WireIndex, serve_output(g, i)
  PROVE  IInv'
<1>1. /\ main_pc' = "store" /\ mode' = mode /\ todo' = todo /\ serving = NoPacket
      /\ serving' = [group_id |-> g, index |-> DataIndex(i)]
      /\ DOMAIN decoders' = DOMAIN decoders \cup {g}
  BY DEF serve_output, IInv, ServingInv, Serving
<1>2. DataIndex(i) \in BlockIndex /\ (mode = "repeat" => DataIndex(i) \in Index)
  BY Sizes DEF DataIndex, WireIndex, BlockIndex, Index, IInv, LocalType, Mode
<1>3. /\ NewDecoder \in Decoder
      /\ Counted(mode, NewDecoder)
      /\ Settled(NewDecoder)
  <2>1. BlockIndex \ NewDecoder.marks = {}
    BY DEF NewDecoder
  <2>2. Cardinality(BlockIndex \ NewDecoder.marks) = 0
    BY <2>1, FS_EmptySet
  <2>3. Counted(mode, NewDecoder)
    BY <2>1, <2>2 DEF Counted, NewDecoder
  <2>4. Settled(NewDecoder)
    BY Sizes DEF Settled, NewDecoder
  <2>5. NewDecoder \in Decoder
    BY Sizes, ReceiverAssumption DEF NewDecoder, Decoder
  <2> QED
    BY <2>3, <2>4, <2>5
<1>4. ASSUME NEW h \in DOMAIN decoders'
      PROVE  /\ decoders'[h] \in Decoder
             /\ Counted(mode, decoders'[h])
             /\ Settled(decoders'[h])
  <2>1. CASE h \in DOMAIN decoders
    <3>1. /\ decoders[h] \in Decoder
          /\ Counted(mode, decoders[h])
          /\ Settled(decoders[h])
      BY <1>1, <2>1, Sizes DEF IInv, LocalType, DecodersInv
    <3>2. decoders'[h] = decoders[h] \/ decoders'[h] = [decoders[h] EXCEPT !.age = 0]
      BY <2>1 DEF serve_output
    <3>3. /\ decoders'[h] \in Decoder
          /\ decoders'[h].marks = decoders[h].marks
          /\ decoders'[h].receive_num = decoders[h].receive_num
          /\ decoders'[h].data_blocks = decoders[h].data_blocks
          /\ decoders'[h].handed = decoders[h].handed
      BY <3>1, <3>2, ReceiverAssumption DEF Decoder
    <3> QED
      BY <3>1, <3>3 DEF Counted, Settled
  <2>2. CASE h \notin DOMAIN decoders
    <3>1. h = g /\ decoders'[h] = NewDecoder
      BY <1>1, <2>2 DEF serve_output
    <3> QED
      BY <1>3, <3>1
  <2> QED
    BY <2>1, <2>2
<1>5. LocalType'
  BY <1>1, <1>2, <1>4 DEF IInv, LocalType
<1>6. DecodersInv'
  BY <1>1, <1>4 DEF DecodersInv, Counted, Settled
<1>7. ServingInv'
  <2>1. serving' # NoPacket /\ serving'.group_id = g /\ serving'.index = DataIndex(i)
    BY <1>1, Sizes
  <2> QED
    BY <1>1, <1>2, <1>4, <2>1 DEF ServingInv, Serving, Settled, dec
<1> QED
  BY <1>5, <1>6, <1>7 DEF IInv

LEMMA StoreStep ==
  ASSUME IInv, store_block
  PROVE  IInv'
<1> DEFINE g == serving.group_id
           i == serving.index
<1>1. /\ mode' = mode /\ todo' = todo
      /\ g \in DOMAIN decoders /\ g \in GroupId /\ i \in BlockIndex
      /\ mode = "repeat" => i \in Index
      /\ Settled(dec) /\ Counted(mode, dec) /\ dec \in Decoder
  BY DEF store_block, IInv, ServingInv, Serving, LocalType, DecodersInv, dec
<1>2. CASE i \notin dec.marks /\ Return /\ UNCHANGED decoders
  <2>1. LocalType'
    BY <1>1, <1>2 DEF IInv, LocalType, Return
  <2>2. DecodersInv'
    BY <1>1, <1>2, DecodersKept DEF Return
  <2>3. ServingInv'
    BY <1>2 DEF ServingInv, Serving, Return
  <2> QED
    BY <2>1, <2>2, <2>3 DEF IInv
<1>3. ASSUME i \in dec.marks
      PROVE  /\ dec.receive_num + 1 \in 0 .. DataNum + ParityNum
             /\ dec.receive_num \in Nat
             /\ dec.marks \in SUBSET BlockIndex
             /\ dec.receive_num + 1 = Cardinality(BlockIndex \ (dec.marks \ {i}))
  BY <1>1, <1>3, OneMore, Sizes DEF Counted, Decoder
<1>4. CASE /\ i \in dec.marks
           /\ dec.receive_num >= DataNum
           /\ decoders' = [decoders EXCEPT
                ![serving.group_id].receive_num = @ + 1,
                ![serving.group_id].marks = @ \ {serving.index}]
           /\ Return
  <2> DEFINE d == [dec EXCEPT !.receive_num = @ + 1, !.marks = @ \ {i}]
  <2>1. /\ d \in Decoder
        /\ d.receive_num = dec.receive_num + 1 /\ d.marks = dec.marks \ {i}
        /\ d.handed = dec.handed /\ d.data_blocks = dec.data_blocks
    BY <1>1, <1>3, <1>4 DEF Decoder
  <2>2. decoders' = [decoders EXCEPT ![serving.group_id] = d]
    BY <1>1, <1>4 DEF dec
  <2> HIDE DEF d
  <2>3. Counted(mode, d) /\ Settled(d)
    BY <1>1, <1>3, <1>4, <2>1, Sizes DEF Counted, Settled
  <2>4. /\ DOMAIN decoders' = DOMAIN decoders
        /\ \A h \in DOMAIN decoders' : decoders'[h] \in Decoder
        /\ DecodersInv'
    BY <1>1, <1>4, <2>1, <2>2, <2>3, OwnDecoder DEF Return
  <2>5. LocalType'
    BY <1>1, <1>4, <2>4 DEF IInv, LocalType, Return
  <2>6. ServingInv'
    BY <1>4 DEF ServingInv, Serving, Return
  <2> QED
    BY <2>4, <2>5, <2>6 DEF IInv
<1>5. CASE /\ i \in dec.marks
           /\ dec.receive_num < DataNum
           /\ decoders' = [decoders EXCEPT
                ![serving.group_id].receive_num = @ + 1,
                ![serving.group_id].marks = @ \ {serving.index},
                ![serving.group_id].data_blocks[serving.index] = "data"]
           /\ main_pc' = IF IsData(serving.index) THEN "hand" ELSE "decode"
           /\ UNCHANGED serving
  <2> DEFINE d == [dec EXCEPT !.receive_num = @ + 1, !.marks = @ \ {i},
                              !.data_blocks[i] = "data"]
  <2>1. /\ d \in Decoder
        /\ d.receive_num = dec.receive_num + 1 /\ d.marks = dec.marks \ {i}
        /\ d.handed = dec.handed
        /\ \A j \in BlockIndex : d.data_blocks[j] = IF j = i THEN "data" ELSE dec.data_blocks[j]
    BY <1>1, <1>3, <1>5 DEF Decoder
  <2>2. decoders' = [decoders EXCEPT ![serving.group_id] = d]
    BY <1>1, <1>5 DEF dec
  <2> HIDE DEF d
  <2>3. Counted(mode, d) /\ d.receive_num <= DataNum
    <3>1. dec.receive_num <= DataNum /\ d.receive_num <= DataNum
      BY <1>3, <1>5, <2>1, Sizes
    <3>2. \A j \in BlockIndex \ d.marks : d.data_blocks[j] = "data"
      BY <1>1, <2>1, <3>1 DEF Counted
    <3> QED
      BY <1>1, <1>3, <1>5, <2>1, <3>1, <3>2 DEF Counted
  <2>4. /\ DOMAIN decoders' = DOMAIN decoders
        /\ decoders'[g] = d
        /\ \A h \in DOMAIN decoders' : decoders'[h] \in Decoder
        /\ DecodersInv'
    BY <1>1, <1>5, <2>1, <2>2, <2>3, OwnDecoder
  <2>5. LocalType'
    BY <1>1, <1>5, <2>4 DEF IInv, LocalType
  <2>6. i \in Index <=> IsData(i)
    BY <1>1, Sizes DEF IsData, Index, BlockIndex
  <2>7. d.handed = Index \ dec.marks
    BY <1>1, <1>3, <1>5, <2>1, Sizes DEF Settled
  <2>8. dec' = d /\ serving' = serving
    BY <1>5, <2>4 DEF dec
  <2>9. ServingInv'
    <3>1. /\ serving' # NoPacket /\ serving'.group_id \in DOMAIN decoders'
          /\ mode' = "repeat" => serving'.index \in Index
      BY <1>1, <2>4, <2>8, Sizes
    <3>2. CASE IsData(i)
      BY <1>5, <2>1, <2>3, <2>6, <2>7, <2>8, <3>1, <3>2 DEF ServingInv, Serving
    <3>3. CASE ~IsData(i)
      BY <1>5, <2>1, <2>3, <2>6, <2>7, <2>8, <3>1, <3>3 DEF ServingInv, Serving
    <3> QED
      BY <3>2, <3>3
  <2> QED
    BY <2>4, <2>5, <2>9 DEF IInv
<1> QED
  BY <1>2, <1>4, <1>5 DEF store_block

(* rx_insert is called with a packet of the group.                         *)
LEMMA HandOverFacts ==
  ASSUME IInv, main_pc \in Serving, UNCHANGED <<mode, serving>>,
         NEW i \in Index, HandOver(i)
  PROVE  /\ DOMAIN decoders' = DOMAIN decoders
         /\ \A h \in DOMAIN decoders' : decoders'[h] \in Decoder
         /\ DecodersInv'
         /\ dec'.receive_num = dec.receive_num /\ dec'.marks = dec.marks
         /\ dec'.data_blocks = dec.data_blocks
         /\ dec'.handed = dec.handed \cup {i}
<1> DEFINE d == [dec EXCEPT !.handed = @ \cup {i}]
<1>1. /\ serving.group_id \in DOMAIN decoders
      /\ dec \in Decoder /\ Counted(mode, dec)
  BY DEF IInv, ServingInv, LocalType, DecodersInv, dec
<1>2. /\ d \in Decoder
      /\ d.receive_num = dec.receive_num /\ d.marks = dec.marks
      /\ d.data_blocks = dec.data_blocks
      /\ d.handed = dec.handed \cup {i}
  BY <1>1 DEF Decoder
<1>3. decoders' = [decoders EXCEPT ![serving.group_id] = d]
  BY <1>1 DEF HandOver, dec
<1> HIDE DEF d
<1>4. Counted(mode, d)
  BY <1>1, <1>2 DEF Counted
<1>5. /\ DOMAIN decoders' = DOMAIN decoders
      /\ decoders'[serving.group_id] = d
      /\ \A h \in DOMAIN decoders' : decoders'[h] \in Decoder
      /\ DecodersInv'
  BY <1>1, <1>2, <1>3, <1>4, OwnDecoder
<1>6. dec' = d
  BY <1>5 DEF dec
<1> QED
  BY <1>2, <1>5, <1>6

LEMMA HandDataStep ==
  ASSUME IInv, hand_data
  PROVE  IInv'
<1>1. /\ main_pc = "hand" /\ main_pc' = "decode"
      /\ UNCHANGED <<mode, serving, todo>>
      /\ HandOver(serving.index)
      /\ main_pc \in Serving
      /\ serving.index \in Index \ dec.marks
      /\ dec.handed = (Index \ dec.marks) \ {serving.index}
      /\ dec.receive_num <= DataNum
      /\ serving # NoPacket /\ serving.group_id \in DOMAIN decoders
      /\ mode = "repeat" => serving.index \in Index
  BY DEF hand_data, IInv, ServingInv, Serving
<1>2. /\ DOMAIN decoders' = DOMAIN decoders
      /\ \A h \in DOMAIN decoders' : decoders'[h] \in Decoder
      /\ DecodersInv'
      /\ dec'.receive_num = dec.receive_num /\ dec'.marks = dec.marks
      /\ dec'.handed = dec.handed \cup {serving.index}
  BY <1>1, HandOverFacts
<1>3. LocalType'
  BY <1>1, <1>2 DEF IInv, LocalType
<1>4. ServingInv'
  <2>1. dec'.handed = Index \ dec'.marks
    BY <1>1, <1>2
  <2> QED
    BY <1>1, <1>2, <2>1 DEF ServingInv, Serving
<1> QED
  BY <1>2, <1>3, <1>4 DEF IInv

LEMMA DecodeStep ==
  ASSUME IInv, decode
  PROVE  IInv'
<1>1. /\ main_pc = "decode" /\ mode' = mode
      /\ serving # NoPacket /\ serving.group_id \in DOMAIN decoders
      /\ mode = "repeat" => serving.index \in Index
      /\ dec.receive_num <= DataNum
      /\ dec.handed = Index \ dec.marks
      /\ dec \in Decoder /\ Counted(mode, dec)
  BY DEF decode, IInv, ServingInv, Serving, LocalType, DecodersInv, dec
<1>2. dec.marks \in SUBSET BlockIndex /\ dec.receive_num \in Nat
  BY <1>1, Sizes DEF Decoder
<1>3. CASE /\ dec.receive_num = DataNum /\ Missing # {}
           /\ decoders' = [decoders EXCEPT ![serving.group_id].data_blocks =
                [i \in BlockIndex |-> IF i \in Missing THEN Restored ELSE @[i]]]
           /\ todo' = Missing
           /\ main_pc' = "hand_missing"
           /\ UNCHANGED serving
  <2>1. Restored = "data"
    <3>1. Cardinality(BlockIndex \ dec.marks) = DataNum
      BY <1>1, <1>3 DEF Counted
    <3>2. mode = "fec"
      <4> SUFFICES ASSUME mode = "repeat" PROVE FALSE
        BY DEF IInv, LocalType, Mode
      <4>1. BlockIndex \ dec.marks \subseteq Index
        BY <1>1 DEF Counted
      <4>2. BlockIndex \ dec.marks = Index
        BY <3>1, <4>1, Sizes, FS_Subset
      <4> QED
        BY <1>3, <4>2, Sizes DEF Missing
    <3>3. Parity = BlockIndex \ (Index \cup dec.marks)
      BY <1>1 DEF Counted, Parity
    <3>4. Cardinality(Parity) = Cardinality(Missing)
      BY <1>2, <3>1, <3>3, EnoughParity DEF Missing
    <3>5. Cardinality(Missing) \in Nat
      BY <1>2, <3>1, EnoughParity, FS_CardinalityType DEF Missing
    <3> QED
      BY <3>2, <3>4, <3>5 DEF Restored
  <2> DEFINE d == [dec EXCEPT !.data_blocks =
                     [i \in BlockIndex |-> IF i \in Missing THEN "data" ELSE @[i]]]
  <2>2. /\ d \in Decoder
        /\ d.receive_num = dec.receive_num /\ d.marks = dec.marks /\ d.handed = dec.handed
        /\ \A i \in BlockIndex :
             d.data_blocks[i] = IF i \in Missing THEN "data" ELSE dec.data_blocks[i]
    BY <1>1 DEF Decoder
  <2>3. decoders' = [decoders EXCEPT ![serving.group_id] = d]
    BY <1>1, <1>3, <2>1 DEF dec
  <2> HIDE DEF d
  <2>4. Counted(mode, d)
    BY <1>1, <2>2 DEF Counted
  <2>5. /\ DOMAIN decoders' = DOMAIN decoders
        /\ decoders'[serving.group_id] = d
        /\ \A h \in DOMAIN decoders' : decoders'[h] \in Decoder
        /\ DecodersInv'
    BY <1>1, <1>3, <2>2, <2>3, <2>4, OwnDecoder
  <2>6. dec' = d
    BY <1>3, <2>5 DEF dec
  <2>7. Missing = dec.marks \cap Index /\ Missing \subseteq BlockIndex
    BY Sizes DEF Missing
  <2>8. LocalType'
    BY <1>1, <1>3, <2>5, <2>7 DEF IInv, LocalType
  <2>9. ServingInv'
    <3>1. dec'.handed = Index \ todo'
      BY <1>1, <1>3, <2>2, <2>6, <2>7
    <3>2. \A i \in todo' : dec'.data_blocks[i] = "data"
      BY <1>3, <2>2, <2>6, <2>7
    <3>3. dec'.receive_num = DataNum
      BY <1>3, <2>2, <2>6
    <3> QED
      BY <1>1, <1>3, <2>5, <3>1, <3>2, <3>3 DEF ServingInv, Serving
  <2> QED
    BY <2>5, <2>8, <2>9 DEF IInv
<1>4. CASE /\ dec.receive_num # DataNum \/ Missing = {}
           /\ Return
           /\ UNCHANGED <<decoders, todo>>
  <2>1. Settled(dec)
    BY <1>1, <1>2, <1>4, Sizes DEF Settled, Missing
  <2>2. DecodersInv'
    BY <1>1, <1>4, <2>1, DecodersKept DEF Return
  <2>3. LocalType'
    BY <1>1, <1>4 DEF IInv, LocalType, Return
  <2>4. ServingInv'
    BY <1>4 DEF ServingInv, Serving, Return
  <2> QED
    BY <2>2, <2>3, <2>4 DEF IInv
<1> QED
  BY <1>3, <1>4 DEF decode

LEMMA HandMissingStep ==
  ASSUME IInv, hand_missing
  PROVE  IInv'
<1>1. /\ main_pc = "hand_missing" /\ mode' = mode /\ main_pc \in Serving
      /\ serving # NoPacket /\ serving.group_id \in DOMAIN decoders
      /\ mode = "repeat" => serving.index \in Index
      /\ dec.receive_num = DataNum
      /\ dec.handed = Index \ todo
      /\ \A i \in todo : dec.data_blocks[i] = "data"
      /\ todo \subseteq Index
  BY DEF hand_missing, IInv, ServingInv, Serving, LocalType
<1>2. ASSUME NEW i \in todo, HandOver(i), todo' = todo \ {i}, UNCHANGED <<main_pc, serving>>
      PROVE  IInv'
  <2>1. /\ DOMAIN decoders' = DOMAIN decoders
        /\ \A h \in DOMAIN decoders' : decoders'[h] \in Decoder
        /\ DecodersInv'
        /\ dec'.receive_num = dec.receive_num /\ dec'.data_blocks = dec.data_blocks
        /\ dec'.handed = dec.handed \cup {i}
    BY <1>1, <1>2, HandOverFacts
  <2>2. LocalType'
    BY <1>1, <1>2, <2>1 DEF IInv, LocalType
  <2>3. dec'.handed = Index \ todo'
    BY <1>1, <1>2, <2>1
  <2>4. ServingInv'
    BY <1>1, <1>2, <2>1, <2>3 DEF ServingInv, Serving
  <2> QED
    BY <2>1, <2>2, <2>4 DEF IInv
<1>3. CASE todo = {} /\ Return /\ UNCHANGED <<decoders, todo>>
  <2>1. Settled(dec)
    BY <1>1, <1>3, Sizes DEF Settled
  <2>2. DecodersInv'
    BY <1>1, <1>3, <2>1, DecodersKept DEF Return
  <2>3. LocalType'
    BY <1>1, <1>3 DEF IInv, LocalType, Return
  <2>4. ServingInv'
    BY <1>3 DEF ServingInv, Serving, Return
  <2> QED
    BY <2>2, <2>3, <2>4 DEF IInv
<1> QED
  BY <1>2, <1>3 DEF hand_missing
-----------------------------------------------------------------------------
LEMMA MonitorStep ==
  ASSUME IInv, monitor_decoder
  PROVE  IInv'
<1>1. PICK g \in DOMAIN decoders :
        /\ serving.group_id # g
        /\ decoders' = [h \in DOMAIN decoders \ {g} |-> decoders[h]]
  BY DEF monitor_decoder, Locked
<1>2. /\ UNCHANGED <<mode, main_pc, serving, todo>>
      /\ DOMAIN decoders' = DOMAIN decoders \ {g}
      /\ \A h \in DOMAIN decoders' : decoders'[h] = decoders[h]
  BY <1>1 DEF monitor_decoder
<1>3. LocalType'
  BY <1>2 DEF IInv, LocalType
<1>4. DecodersInv'
  BY <1>2 DEF IInv, DecodersInv, Counted, Settled
<1>5. ServingInv'
  <2>1. main_pc \in Serving => dec' = dec
    BY <1>1, <1>2 DEF IInv, ServingInv, dec
  <2> QED
    BY <1>1, <1>2, <2>1 DEF IInv, ServingInv, Serving, Settled
<1> QED
  BY <1>3, <1>4, <1>5 DEF IInv

LEMMA ResetStep ==
  ASSUME IInv, Reset
  PROVE  IInv'
<1>1. CASE sync_reset_index
  BY <1>1 DEF sync_reset_index, IInv, LocalType, DecodersInv, ServingInv, Counted,
              Settled, Serving, dec
<1>2. CASE sync_reset_group \/ clean_all_decoder \/ clean_all_rx
  <2>1. /\ main_pc \notin Serving /\ main_pc' \notin Serving
        /\ UNCHANGED <<serving, todo>>
        /\ mode' \in Mode
        /\ main_pc' \in {"poll", "clean_all_decoder", "clean_all_rx"}
        /\ main_pc' = "clean_all_rx" => DOMAIN decoders' = {}
        /\ \/ DOMAIN decoders' = {}
           \/ decoders' = decoders /\ mode' = mode
    BY <1>2 DEF sync_reset_group, clean_all_decoder, clean_all_rx, Serving,
                IInv, LocalType, ServingInv
  <2>2. LocalType'
    BY <2>1 DEF IInv, LocalType
  <2>3. DecodersInv'
    BY <2>1 DEF IInv, DecodersInv, Counted, Settled
  <2>4. ServingInv'
    BY <2>1 DEF IInv, ServingInv, Serving
  <2> QED
    BY <2>2, <2>3, <2>4 DEF IInv
<1> QED
  BY <1>1, <1>2 DEF Reset

LEMMA TickStep ==
  ASSUME IInv, Tick
  PROVE  IInv'
<1>1. /\ UNCHANGED <<mode, main_pc, serving, todo>>
      /\ DOMAIN decoders' = DOMAIN decoders
  BY DEF Tick
<1>2. ASSUME NEW g \in DOMAIN decoders
      PROVE  /\ decoders'[g] \in Decoder
             /\ decoders'[g].marks = decoders[g].marks
             /\ decoders'[g].receive_num = decoders[g].receive_num
             /\ decoders'[g].data_blocks = decoders[g].data_blocks
             /\ decoders'[g].handed = decoders[g].handed
  <2>1. decoders[g] \in Decoder
    BY DEF IInv, LocalType
  <2>2. decoders'[g] = [decoders[g] EXCEPT !.age =
          IF decoders[g].age <= DecodeTimeout THEN decoders[g].age + 1 ELSE decoders[g].age]
    BY DEF Tick
  <2>3. (IF decoders[g].age <= DecodeTimeout THEN decoders[g].age + 1 ELSE decoders[g].age)
          \in 0 .. DecodeTimeout + 1
    BY <2>1, ReceiverAssumption DEF Decoder
  <2> QED
    BY <2>1, <2>2, <2>3 DEF Decoder
<1>3. LocalType'
  BY <1>1, <1>2 DEF IInv, LocalType
<1>4. DecodersInv'
  <2> SUFFICES ASSUME NEW g \in DOMAIN decoders
               PROVE  /\ Counted(mode, decoders'[g])
                      /\ serving.group_id # g => Settled(decoders'[g])
    BY <1>1 DEF DecodersInv
  <2>1. Counted(mode, decoders[g]) /\ (serving.group_id # g => Settled(decoders[g]))
    BY DEF IInv, DecodersInv
  <2>2. Counted(mode, decoders'[g])
    BY <1>2, <2>1 DEF Counted
  <2>3. serving.group_id # g => Settled(decoders'[g])
    BY <1>2, <2>1 DEF Settled
  <2> QED
    BY <2>2, <2>3
<1>5. ServingInv'
  <2>1. main_pc \in Serving =>
          /\ dec'.marks = dec.marks /\ dec'.receive_num = dec.receive_num
          /\ dec'.data_blocks = dec.data_blocks /\ dec'.handed = dec.handed
    BY <1>1, <1>2 DEF IInv, ServingInv, dec
  <2> QED
    BY <1>1, <2>1 DEF IInv, ServingInv, Serving, Settled
<1> QED
  BY <1>3, <1>4, <1>5 DEF IInv
-----------------------------------------------------------------------------
(* The inductive invariant: what every decoder counted, stored and handed  *)
(* over, and how far serve_output is with its own.                         *)
THEOREM Invariance == Spec => []IInv
<1>1. Init => IInv
  BY InitIInv
<1>2. IInv /\ [Next]_vars => IInv'
  <2> SUFFICES ASSUME IInv, [Next]_vars PROVE IInv'
    OBVIOUS
  <2>1. CASE \E g \in GroupId, i \in WireIndex : serve_output(g, i)
    BY <2>1, ServeStep
  <2>2. CASE Serve
    BY <2>2, StoreStep, HandDataStep, DecodeStep, HandMissingStep DEF Serve
  <2>3. CASE monitor_decoder
    BY <2>3, MonitorStep
  <2>4. CASE Reset
    BY <2>4, ResetStep
  <2>5. CASE Tick
    BY <2>5, TickStep
  <2>6. CASE (\E t \in Rx!Thread : rx_send(t)) \/ UNCHANGED vars
    <3>1. UNCHANGED <<mode, decoders, main_pc, serving, todo>>
      BY <2>6 DEF rx_send, vars
    <3> QED
      BY <3>1 DEF IInv, LocalType, DecodersInv, ServingInv, Counted, Settled, Serving, dec
  <2> QED
    BY <2>1, <2>2, <2>3, <2>4, <2>5, <2>6 DEF Next
<1> QED
  BY <1>1, <1>2, PTL DEF Spec

(* A packet goes into the queue once while its decoder lives: a second     *)
(* copy and a late arrival of a restored packet do not (serve_output).     *)
THEOREM AlwaysHandedOnce == Spec => []HandedOnce
<1>1. ASSUME IInv PROVE HandedOnce
  BY <1>1 DEF IInv, ServingInv, Serving, HandedOnce, AboutToHand
<1> QED
  BY <1>1, Invariance, PTL

(* No zero-filled block goes into the queue: when decode runs there are as *)
(* many parity blocks as packets are missing, for every data_num and       *)
(* parity_num.                                                             *)
THEOREM AlwaysHandedGenuine == Spec => []HandedGenuine
<1>1. ASSUME IInv PROVE HandedGenuine
  <2>1. CASE main_pc = "hand"
    <3>1. /\ serving.index \in BlockIndex \ dec.marks
          /\ dec.receive_num <= DataNum /\ Counted(mode, dec)
      BY <1>1, <2>1, Sizes DEF IInv, ServingInv, Serving, DecodersInv, dec
    <3> QED
      BY <2>1, <3>1 DEF HandedGenuine, AboutToHand, Counted
  <2>2. CASE main_pc # "hand"
    BY <1>1, <2>2 DEF HandedGenuine, AboutToHand, IInv, ServingInv
  <2> QED
    BY <2>1, <2>2
<1> QED
  BY <1>1, Invariance, PTL

(* Between the calls of serve_output no decoder holds back a packet it     *)
(* could hand over.                                                        *)
THEOREM AlwaysHandedComplete == Spec => []HandedComplete
<1>1. ASSUME IInv PROVE HandedComplete
  <2> SUFFICES ASSUME main_pc = "poll", NEW g \in DOMAIN decoders
               PROVE  Settled(decoders[g])
    BY DEF HandedComplete, Settled
  <2> QED
    BY <1>1, Sizes DEF IInv, LocalType, DecodersInv, ServingInv, Serving
<1> QED
  BY <1>1, Invariance, PTL
-----------------------------------------------------------------------------
(* The receiver does to the queue only what RxQueue describes.             *)
LEMMA HandOverInserts ==
  ASSUME IInv, main_pc \in Serving, NEW i \in Index, HandOver(i)
  PROVE  Rx!Next
<1>1. serving.group_id \in GroupId
  BY DEF IInv, LocalType, ServingInv
<1>2. PICK p \in Rx!Id : p = [group_id |-> serving.group_id, index |-> i]
  BY <1>1 DEF Rx!Id, Rx!GroupId, Rx!Index, GroupId, Index
<1>3. Rx!rx_insert(p)
  BY <1>2 DEF HandOver
<1> QED
  BY <1>3 DEF Rx!Next

LEMMA StepUsesQueue ==
  ASSUME IInv, [Next]_vars
  PROVE  [Rx!Next]_Rx!vars
<1>1. UNCHANGED rx_vars => UNCHANGED Rx!vars
  BY DEF rx_vars, Rx!vars
<1>2. CASE \/ \E g \in GroupId, i \in WireIndex : serve_output(g, i)
           \/ store_block \/ decode \/ monitor_decoder \/ clean_all_decoder
           \/ UNCHANGED vars
  BY <1>1, <1>2 DEF serve_output, store_block, decode, monitor_decoder,
                    clean_all_decoder, vars
<1>3. CASE hand_data
  BY <1>3, HandOverInserts DEF hand_data, IInv, ServingInv, Serving
<1>4. CASE hand_missing
  BY <1>1, <1>4, HandOverInserts DEF hand_missing, IInv, LocalType, Serving
<1>5. CASE \E t \in Rx!Thread : rx_send(t)
  BY <1>5 DEF rx_send, Rx!Next
<1>6. CASE sync_reset_group \/ sync_reset_index \/ clean_all_rx
  BY <1>6 DEF sync_reset_group, sync_reset_index, clean_all_rx, Rx!Next, Rx!Reset
<1>7. CASE Tick
  BY <1>7 DEF Tick, Rx!Next
<1> QED
  BY <1>2, <1>3, <1>4, <1>5, <1>6, <1>7 DEF Next, Serve, Reset

(* Whatever arrives, main calls rx_insert and the reset, and both threads  *)
(* rx_send, as RxQueue says.                                               *)
THEOREM QueueUsed == Spec => UsesRxQueue
<1>1. Init => Rx!Init
  BY DEF Init
<1>2. IInv /\ [Next]_vars => [Rx!Next]_Rx!vars
  BY StepUsesQueue
<1> QED
  BY <1>1, <1>2, Invariance, PTL DEF Spec, UsesRxQueue, Rx!Spec

(* RxQueue is one module, whichever instance names it.                     *)
LEMMA SameQueue ==
  /\ Rx!Init <=> RxP!Init
  /\ [Rx!Next]_Rx!vars <=> [RxP!Next]_RxP!vars
  /\ Rx!TypeOK <=> RxP!TypeOK
  /\ Rx!RxNumIsLength <=> RxP!RxNumIsLength
  /\ Rx!Sorted <=> RxP!Sorted
  /\ Rx!RxBounded <=> RxP!RxBounded
  /\ Rx!ExpectedFollowsTun <=> RxP!ExpectedFollowsTun
BY DEF
      Rx!GroupId, RxP!GroupId, Rx!Index, RxP!Index, Rx!Id, RxP!Id, Rx!After,
      RxP!After, Rx!NextGroup, RxP!NextGroup, Rx!NextIndex, RxP!NextIndex,
      Rx!NextId, RxP!NextId, Rx!LastId, RxP!LastId, Rx!NoPacket, RxP!NoPacket,
      Rx!vars, RxP!vars, Rx!Thread, RxP!Thread, Rx!SendLabel, RxP!SendLabel,
      Rx!ResetLabel, RxP!ResetLabel, Rx!RxPacket, RxP!RxPacket, Rx!IdOf,
      RxP!IdOf, Rx!Expected, RxP!Expected, Rx!InReset, RxP!InReset,
      Rx!Advancing, RxP!Advancing, Rx!Init, RxP!Init, Rx!Stale, RxP!Stale,
      Rx!InsertPoint, RxP!InsertPoint, Rx!rx_insert, RxP!rx_insert,
      Rx!rx_send_lock, RxP!rx_send_lock, Rx!Return, RxP!Return, Rx!Forced,
      RxP!Forced, Rx!rx_send_head, RxP!rx_send_head, Rx!rx_send_match,
      RxP!rx_send_match, Rx!rx_send_write, RxP!rx_send_write,
      Rx!rx_send_advance, RxP!rx_send_advance, Rx!rx_send, RxP!rx_send,
      Rx!sync_reset_group, RxP!sync_reset_group, Rx!sync_reset_index,
      RxP!sync_reset_index, Rx!clean_all_rx, RxP!clean_all_rx, Rx!Tick,
      RxP!Tick, Rx!Reset, RxP!Reset, Rx!Next, RxP!Next, Rx!InsertAt,
      RxP!InsertAt, Rx!TypeOK, RxP!TypeOK, Rx!RxNumIsLength,
      RxP!RxNumIsLength, Rx!Sorted, RxP!Sorted, Rx!Capacity, RxP!Capacity,
      Rx!RxBounded, RxP!RxBounded, Rx!ExpectedFollowsTun,
      RxP!ExpectedFollowsTun

(* So in the receiver, too, the queue is ordered and bounded, its counter  *)
(* exact and the expected identity the one after the last packet written.  *)
QueueInv ==
  Rx!TypeOK /\ Rx!RxNumIsLength /\ Rx!Sorted /\ Rx!RxBounded /\ Rx!ExpectedFollowsTun

THEOREM QueueKept == Spec => []QueueInv
<1>1. RxP!Spec => [](RxP!TypeOK /\ RxP!RxNumIsLength /\ RxP!Sorted /\ RxP!RxBounded
                     /\ RxP!ExpectedFollowsTun)
  <2>1. RxP!Spec => []RxP!TypeOK
    BY RxP!TypeCorrect, PacketIdAssumption, ReceiverAssumption
  <2>2. RxP!Spec => []RxP!RxNumIsLength
    BY RxP!CounterExact, PacketIdAssumption, ReceiverAssumption
  <2>3. RxP!Spec => []RxP!Sorted
    BY RxP!ListSorted, PacketIdAssumption, ReceiverAssumption
  <2>4. RxP!Spec => []RxP!RxBounded
    BY RxP!ListBounded, PacketIdAssumption, ReceiverAssumption
  <2>5. RxP!Spec => []RxP!ExpectedFollowsTun
    BY RxP!PositionExact, PacketIdAssumption, ReceiverAssumption
  <2> QED
    BY <2>1, <2>2, <2>3, <2>4, <2>5, PTL
<1>2. RxP!TypeOK /\ RxP!RxNumIsLength /\ RxP!Sorted /\ RxP!RxBounded
        /\ RxP!ExpectedFollowsTun => QueueInv
  BY SameQueue DEF QueueInv
<1>3. Rx!Spec => RxP!Spec
  BY SameQueue, PTL DEF Rx!Spec, RxP!Spec
<1> QED
  BY <1>1, <1>2, <1>3, QueueUsed, PTL DEF UsesRxQueue

(* Behind the decoders, too, the TUN device gets the packets of a session  *)
(* in order, a packet ahead of them is not discarded, and the queue keeps  *)
(* the promise of OrderedDelivery.                                         *)
THEOREM QueueDelivers ==
  Spec => RxP!WritesInOrder /\ []RxP!DataPacketKept /\ RxP!Implements
<1>1. RxP!Spec => RxP!WritesInOrder
  BY RxP!InOrder, PacketIdAssumption, ReceiverAssumption
<1>2. RxP!Spec => []RxP!DataPacketKept
  BY RxP!NothingLost, PacketIdAssumption, ReceiverAssumption
<1>3. RxP!Spec => RxP!Implements
  BY RxP!ImplementsPromise, PacketIdAssumption, ReceiverAssumption
<1>4. Rx!Spec => RxP!Spec
  BY SameQueue, PTL DEF Rx!Spec, RxP!Spec
<1> QED
  BY <1>1, <1>2, <1>3, <1>4, QueueUsed, PTL DEF UsesRxQueue

(* monitor_decoder never frees the decoder serve_output holds.             *)
THEOREM DecoderAlwaysKept == Spec => []DecoderInUseKept
<1>1. ASSUME IInv, QueueInv PROVE DecoderInUseKept
  BY <1>1 DEF IInv, LocalType, ServingInv, QueueInv, TypeOK, DecoderInUseKept
<1> QED
  BY <1>1, Invariance, QueueKept, PTL
=============================================================================
