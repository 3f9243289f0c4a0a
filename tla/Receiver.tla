------------------------------ MODULE Receiver ------------------------------
(***************************************************************************)
(* The receiving side of src/src/fec.c: serve_output puts a packet from    *)
(* the UDP socket into the decoder of its group and hands data packets to  *)
(* the receive queue (RxQueue), the received ones at once and the missing  *)
(* ones when data_num packets of the group are there; monitor_decoder      *)
(* frees the decoders nobody touched for config.decode_timeout; a client   *)
(* that synchronises frees everything.                                     *)
(*                                                                         *)
(* Packets arrive in any order, any number of times, or never.  Every      *)
(* section under decoder_list_mutex is one step: monitor_decoder frees     *)
(* under it whatever it found unlocked, and main locks a decoder only      *)
(* under it.  The mutex of a decoder is held from serve_output to its      *)
(* return, which is many steps, because rx_insert waits for rx_mutex.      *)
(***************************************************************************)
EXTENDS PacketId, FiniteSets

CONSTANTS
  ParityNum,      \* config.parity_num
  DecodeTimeout,  \* config.decode_timeout, in ticks of the clock
  RxNum,          \* see RxQueue
  RxTimeout

ASSUME ReceiverAssumption ==
  /\ ParityNum \in Nat
  /\ DecodeTimeout \in Nat
  /\ RxNum \in Nat
  /\ RxTimeout \in Nat

VARIABLES
  mode,      \* "fec" is config.mode 0 or 1, "repeat" is 2, 3 or 4
  decoders,  \* decoder_list: from the groups that have a decoder to them
  main_pc,   \* where main is in serve_output or in the reset
  serving,   \* the packet serve_output works on, or NoPacket
  todo,      \* the missing packets still to hand over after a decode
  rx_list, rx_num, rx_group_id, rx_index, rx_mutex, pc, tun, raced

rx_vars == <<rx_list, rx_num, rx_group_id, rx_index, rx_mutex, pc, tun, raced>>
vars    == <<mode, decoders, main_pc, serving, todo, rx_vars>>

Rx == INSTANCE RxQueue

(* The indices of a group on the wire, data packets first.                 *)
WireIndex  == 0 .. (IF mode = "fec" THEN DataNum + ParityNum ELSE 2 * DataNum) - 1
BlockIndex == 0 .. DataNum + ParityNum - 1

(* struct decoder.  marks is the set of indices marked 1 (not received);   *)
(* a block is absent, genuine or zero-filled; touch is kept as an age that *)
(* stops once the decoder may be freed; handed is history: the packets     *)
(* handed to rx_insert so far.                                             *)
Decoder ==
  [receive_num : 0 .. DataNum + ParityNum,
   marks       : SUBSET BlockIndex,
   data_blocks : [BlockIndex -> {"null", "data", "zero"}],
   age         : 0 .. DecodeTimeout + 1,
   handed      : SUBSET Index]

NewDecoder ==
  [receive_num |-> 0,
   marks       |-> BlockIndex,
   data_blocks |-> [i \in BlockIndex |-> "null"],
   age         |-> 0,
   handed      |-> {}]

dec       == decoders[serving.group_id]
InRxQueue == pc["main"] # "idle"

(* Mutant: monitor_decoder without its trylock.                            *)
NeverLocked(g) == FALSE

Locked(g) == serving.group_id = g

Mode == {"fec", "repeat"}

Init ==
  /\ mode \in Mode
  /\ decoders = [g \in {} |-> NewDecoder]
  /\ main_pc = "poll"
  /\ serving = NoPacket
  /\ todo = {}
  /\ Rx!Init

-----------------------------------------------------------------------------
(* Mutant: ">" for ">=".                                                   *)
DataIndexButFirst(i) == IF mode = "repeat" /\ i > DataNum THEN i - DataNum ELSE i

(* In the repeating modes the second copy of a packet counts as the first. *)
DataIndex(i) == IF mode = "repeat" /\ i >= DataNum THEN i - DataNum ELSE i

(* serve_output up to the lock of the decoder; get_decoder touches it,     *)
(* new_decoder makes it.  A packet whose index is too large is dropped.    *)
serve_output(g, i) ==
  /\ main_pc = "poll"
  /\ i \in WireIndex
  /\ decoders' = IF g \in DOMAIN decoders
                 THEN [decoders EXCEPT ![g].age = 0]
                 ELSE [h \in DOMAIN decoders \cup {g} |->
                         IF h = g THEN NewDecoder ELSE decoders[h]]
  /\ serving' = [group_id |-> g, index |-> DataIndex(i)]
  /\ main_pc' = "store"
  /\ UNCHANGED <<mode, todo, rx_vars>>

Return ==
  /\ serving' = NoPacket
  /\ main_pc' = "poll"

(* Mutant: "<=" for "<" where serve_output tells data from parity.         *)
IsDataOrNext(i) == i <= DataNum

IsData(i) == i < DataNum

(* A packet of the group that was not received before is counted; its      *)
(* block is kept unless the group is complete without it.                  *)
store_block ==
  /\ main_pc = "store"
  /\ \/ serving.index \notin dec.marks /\ Return /\ UNCHANGED decoders
     \/ /\ serving.index \in dec.marks
        /\ dec.receive_num >= DataNum
        /\ decoders' = [decoders EXCEPT
             ![serving.group_id].receive_num = @ + 1,
             ![serving.group_id].marks = @ \ {serving.index}]
        /\ Return
     \/ /\ serving.index \in dec.marks
        /\ dec.receive_num < DataNum
        /\ decoders' = [decoders EXCEPT
             ![serving.group_id].receive_num = @ + 1,
             ![serving.group_id].marks = @ \ {serving.index},
             ![serving.group_id].data_blocks[serving.index] = "data"]
        /\ main_pc' = IF IsData(serving.index) THEN "hand" ELSE "decode"
        /\ UNCHANGED serving
  /\ UNCHANGED <<mode, todo, rx_vars>>

(* rx_insert is called with packet i of the group.                         *)
HandOver(i) ==
  /\ Rx!rx_insert([group_id |-> serving.group_id, index |-> i])
  /\ decoders' = [decoders EXCEPT ![serving.group_id].handed = @ \cup {i}]

hand_data ==
  /\ main_pc = "hand"
  /\ HandOver(serving.index)
  /\ main_pc' = "decode"
  /\ UNCHANGED <<mode, serving, todo>>

(* Mutants: the loops do not look at marks, or miss the last packet.       *)
AllData        == Index
MissingButLast == {i \in dec.marks : i < DataNum - 1}

Missing == dec.marks \cap Index
Parity  == {i \in BlockIndex \ (Index \cup dec.marks) : dec.data_blocks[i] = "data"}

(* decode: the missing blocks are made of the parity blocks, if there are  *)
(* as many (reed_solomon_reconstruct); otherwise they stay zero.           *)
Restored ==
  IF mode = "fec" /\ Cardinality(Parity) >= Cardinality(Missing)
  THEN "data" ELSE "zero"

decode ==
  /\ main_pc = "decode"
  /\ ~InRxQueue
  /\ \/ /\ dec.receive_num = DataNum /\ Missing # {}
        /\ decoders' = [decoders EXCEPT ![serving.group_id].data_blocks =
             [i \in BlockIndex |-> IF i \in Missing THEN Restored ELSE @[i]]]
        /\ todo' = Missing
        /\ main_pc' = "hand_missing"
        /\ UNCHANGED serving
     \/ /\ dec.receive_num # DataNum \/ Missing = {}
        /\ Return
        /\ UNCHANGED <<decoders, todo>>
  /\ UNCHANGED <<mode, rx_vars>>

(* The loop that hands the missing packets over in the order of their      *)
(* indices, and the return.                                                *)
hand_missing ==
  /\ main_pc = "hand_missing"
  /\ \/ /\ \E i \in todo :
             /\ \A j \in todo : i <= j
             /\ HandOver(i)
             /\ todo' = todo \ {i}
        /\ UNCHANGED <<main_pc, serving>>
     \/ /\ todo = {}
        /\ ~InRxQueue
        /\ Return
        /\ UNCHANGED <<decoders, todo, rx_vars>>
  /\ UNCHANGED mode

-----------------------------------------------------------------------------
(* monitor_decoder frees a decoder that was not touched for too long,      *)
(* unless the trylock of its mutex fails.                                  *)
Expired(g) == decoders[g].age > DecodeTimeout

monitor_decoder ==
  /\ \E g \in DOMAIN decoders :
       /\ Expired(g)
       /\ ~Locked(g)
       /\ decoders' = [h \in DOMAIN decoders \ {g} |-> decoders[h]]
  /\ UNCHANGED <<mode, main_pc, serving, todo, rx_vars>>

(* rx_send runs in both threads.                                           *)
rx_send(t) ==
  /\ Rx!rx_send(t)
  /\ UNCHANGED <<mode, decoders, main_pc, serving, todo>>

(* The reset when a client synchronises; clean_all frees the decoders and  *)
(* then the receive queue.                                                 *)
sync_reset_group ==
  /\ main_pc = "poll"
  /\ Rx!sync_reset_group
  /\ main_pc' = "clean_all_decoder"
  /\ UNCHANGED <<mode, decoders, serving, todo>>

sync_reset_index ==
  /\ Rx!sync_reset_index
  /\ UNCHANGED <<mode, decoders, main_pc, serving, todo>>

clean_all_decoder ==
  /\ main_pc = "clean_all_decoder"
  /\ pc["main"] = "clean_all_rx"
  /\ decoders' = [g \in {} |-> NewDecoder]
  /\ main_pc' = "clean_all_rx"
  /\ UNCHANGED <<mode, serving, todo, rx_vars>>

(* With the list empty the reset is over; the client's configuration comes *)
(* next.                                                                   *)
clean_all_rx ==
  /\ main_pc = "clean_all_rx"
  /\ Rx!clean_all_rx
  /\ main_pc' = "poll"
  /\ mode' \in Mode
  /\ UNCHANGED <<decoders, serving, todo>>

Tick ==
  /\ decoders' = [g \in DOMAIN decoders |-> [decoders[g] EXCEPT
       !.age = IF @ <= DecodeTimeout THEN @ + 1 ELSE @]]
  /\ Rx!Tick
  /\ UNCHANGED <<mode, main_pc, serving, todo>>

-----------------------------------------------------------------------------
Serve == store_block \/ hand_data \/ decode \/ hand_missing
Reset == sync_reset_group \/ sync_reset_index \/ clean_all_decoder \/ clean_all_rx

Next ==
  \/ \E g \in GroupId, i \in WireIndex : serve_output(g, i)
  \/ Serve
  \/ monitor_decoder
  \/ \E t \in Rx!Thread : rx_send(t)
  \/ Reset
  \/ Tick

Spec == Init /\ [][Next]_vars

(* Both threads are scheduled.  Strong fairness where main waits for       *)
(* rx_mutex: monitor_rx sleeps between its calls of rx_send, so that main  *)
(* gets the mutex in the end.                                              *)
FairSpec ==
  /\ Spec
  /\ SF_vars(Serve)
  /\ SF_vars(rx_send("main"))
  /\ WF_vars(rx_send("monitor_rx"))
-----------------------------------------------------------------------------
TypeOK ==
  /\ mode \in Mode
  /\ DOMAIN decoders \subseteq GroupId
  /\ \A g \in DOMAIN decoders : decoders[g] \in Decoder
  /\ main_pc \in {"poll", "store", "hand", "decode", "hand_missing",
                  "clean_all_decoder", "clean_all_rx"}
  /\ serving \in [group_id : GroupId, index : BlockIndex] \cup {NoPacket}
  /\ todo \subseteq Index
  /\ Rx!TypeOK

(* monitor_decoder never frees the decoder serve_output works on, however  *)
(* long rx_insert keeps serve_output waiting; that one has the index that  *)
(* serve_output works on.                                                  *)
DecoderInUseKept ==
  /\ TypeOK
  /\ serving # NoPacket => serving.group_id \in DOMAIN decoders

(* The packet that the next rx_insert will be called with. *)
AboutToHand(i) ==
  \/ main_pc = "hand" /\ i = serving.index
  \/ main_pc = "hand_missing" /\ i \in todo

(* While its decoder lives a packet is handed over once: neither a second  *)
(* copy of it nor its late arrival after it was restored hands it again.   *)
HandedOnce == \A i \in Index : AboutToHand(i) => i \notin dec.handed

(* No zero-filled block is handed over: when decode runs there is a parity *)
(* block for every missing one.                                            *)
HandedGenuine == \A i \in Index : AboutToHand(i) => dec.data_blocks[i] = "data"

(* Between calls of serve_output a decoder has handed over every packet of *)
(* its group if data_num of them arrived, and the data packets that        *)
(* arrived otherwise.                                                      *)
HandedComplete ==
  main_pc = "poll" => \A g \in DOMAIN decoders :
    decoders[g].handed = IF decoders[g].receive_num >= DataNum THEN Index
                         ELSE Index \ decoders[g].marks

(* The receiver uses the queue as RxQueue assumes, one packet at a time    *)
(* and with the identities of data packets only.                           *)
UsesRxQueue == Rx!Spec

(* serve_output returns.                                                   *)
ServeReturns == main_pc = "store" ~> main_pc = "poll"
=============================================================================
