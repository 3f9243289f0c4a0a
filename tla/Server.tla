------------------------------- MODULE Server -------------------------------
(***************************************************************************)
(* The server as a whole: the main loop of src/src/server.c, the channel a *)
(* client configures it by, the encoder of a session, and what the three   *)
(* monitors of src/src/fec.c do with it.  What main works with is its own  *)
(* variable enc, here main_enc; free_encoder and monitor_ack use the       *)
(* global enc of fec.c, which only monitor_ack ever sets.                  *)
(*                                                                         *)
(* One iteration of main's loop serves up to three descriptors in turn,    *)
(* which is what as many iterations with one each do.  A section under a   *)
(* mutex is one step where no other thread reads what it writes without.   *)
(* The stores of the session reset to the expected identity, the counters  *)
(* and the packets themselves are in RxQueue, Receiver, Sender, AckQueue.  *)
(***************************************************************************)
EXTENDS Integers, Sequences, SequencesExt

CONSTANTS
  Text,        \* the configurations clients send
  MaxEncoder,  \* bound: encoders made
  MaxAck       \* bound: packets waiting for their acknowledgement

(* Nothing in the code checks the numbers of a text.                       *)
ASSUME ServerAssumption ==
  /\ Text \subseteq [data_num : Int, parity_num : Int, mode : Int]
  /\ MaxEncoder \in Nat \ {0} /\ MaxAck \in Nat

VARIABLES
  main_pc,    \* where main is
  main_enc,   \* enc in main
  enc,        \* enc in fec.c, NULL at first
  made,       \* the encoders made so far are 1 .. made
  freed,      \* what was freed of each encoder
  config,     \* the fields of config that say how long arrays are
  decoders,   \* decoder_list: the numbers of blocks allocated
  acks,       \* the list from ack_head, as the enc of its packets
  ack_pc,     \* where monitor_ack is
  rx_mutex, ack_mutex,  \* the thread that holds it, or "none"
  signalled,  \* the thread that SIGINT interrupted, or "none"
  exited,     \* the process is gone
  resent,     \* history: monitor_ack set enc since new_encoder
  unsynced,   \* history: no new_encoder since the last clean_all
  twice,      \* history: free_encoder freed something a second time
  overrun     \* history: the code ran beyond the blocks of a group

enc_vars    == <<main_enc, enc, made, freed>>
signal_vars == <<signalled, exited>>
history     == <<resent, unsynced, twice, overrun>>
vars == <<main_pc, enc_vars, config, decoders, acks, ack_pc, rx_mutex, ack_mutex,
          signal_vars, history>>

NULL    == 0
Encoder == 1 .. MaxEncoder
Part    == {"packet_sizes", "udp_infos", "encoder"}
Thread  == {"main", "monitor_rx", "monitor_ack", "monitor_decoder"}

(* Memory was freed twice, or used that is not the program's: anything may *)
(* happen, and no further step is taken.                                   *)
Corrupt == twice \/ overrun

(* The interrupted thread is in the handler and does nothing else.         *)
Runs(t) == signalled # t /\ ~exited /\ ~Corrupt

Init ==
  /\ main_pc = "select"
  /\ main_enc = 1 /\ enc = NULL /\ made = 1
  /\ freed = [e \in Encoder |-> {}]
  /\ config = [data_num |-> 8, parity_num |-> 0, mode |-> 0]
  /\ decoders = {} /\ acks = <<>>
  /\ ack_pc = "sleep"
  /\ rx_mutex = "none" /\ ack_mutex = "none"
  /\ signalled = "none" /\ exited = FALSE
  /\ resent = FALSE /\ unsynced = FALSE /\ twice = FALSE /\ overrun = FALSE

-----------------------------------------------------------------------------
MainGoes(from, to) ==
  /\ Runs("main")
  /\ main_pc = from
  /\ main_pc' = to

(* A descriptor is ready: one of the two sockets or the TUN device.        *)
select ==
  /\ \E to \in {"serve_input", "serve_output", "read_type"} : MainGoes("select", to)
  /\ UNCHANGED <<enc_vars, config, decoders, acks, ack_pc, rx_mutex, ack_mutex,
                 signal_vars, history>>

BlockSum == config.data_num + config.parity_num

(* encode and decode with a coder that was not made for these numbers:     *)
(* that of mode 0 has 8 and 4 blocks, and reed_solomon_new gives up on     *)
(* more than 255.                                                          *)
Miscoded ==
  /\ config.parity_num > 0
  /\ \/ config.mode = 0 /\ (config.data_num < 8 \/ config.parity_num > 4)
     \/ config.mode = 1 /\ BlockSum > 255

(* serve_input, which encodes with the last packet of a group; a packet    *)
(* sent in mode 3 or 4 waits for its acknowledgement.                      *)
serve_input ==
  /\ MainGoes("serve_input", "select")
  /\ overrun' \in {FALSE, Miscoded}
  /\ \/ UNCHANGED acks
     \/ /\ config.mode \in {3, 4}
        /\ ack_mutex = "none"
        /\ Len(acks) < MaxAck
        /\ acks' = Append(acks, main_enc)
  /\ UNCHANGED <<enc_vars, config, decoders, ack_pc, rx_mutex, ack_mutex,
                 signal_vars, resent, unsynced, twice>>

(* serve_output of an acknowledgement: remove_ack.                         *)
serve_output_ack ==
  /\ MainGoes("serve_output", "select")
  /\ ack_mutex = "none"
  /\ \/ UNCHANGED acks
     \/ \E k \in 1 .. Len(acks) : acks' = RemoveAt(acks, k)
  /\ UNCHANGED <<enc_vars, config, decoders, ack_pc, rx_mutex, ack_mutex,
                 signal_vars, history>>

(* new_decoder: mode 0 has 8 and 4 blocks whatever the numbers say.        *)
BlockNum == IF config.mode = 0 THEN 12 ELSE BlockSum

(* serve_output refuses no index at all in a mode that is none, and where  *)
(* the sum is negative, because the index it compares is unsigned;         *)
(* otherwise it goes on with an index below Indexed.                       *)
Unchecked == config.mode \notin 0 .. 4 \/ (config.mode \in {0, 1} /\ BlockSum < 0)
Indexed   == IF config.mode \in 2 .. 4 THEN config.data_num ELSE BlockSum

(* serve_output of a data or parity packet, to its return or to rx_insert, *)
(* with the decoder of the group or a new one; the calls of rx_insert, at  *)
(* most data_num, are taken as one.                                        *)
serve_output ==
  /\ \/ MainGoes("serve_output", "select") /\ UNCHANGED <<decoders, overrun>>
     \/ /\ MainGoes("serve_output", "select") \/ MainGoes("serve_output", "rx_insert")
        /\ Unchecked \/ Indexed > 0
        /\ \E d \in decoders \cup {BlockNum} :
             /\ decoders' = decoders \cup {d}
             /\ overrun' \in {FALSE, d < Indexed \/ Unchecked \/ Miscoded}
  /\ UNCHANGED <<enc_vars, config, acks, ack_pc, rx_mutex, ack_mutex, signal_vars,
                 resent, unsynced, twice>>

(* rx_insert with rx_send, and clean_all_rx, as far as their mutex goes.   *)
lock_rx(from, to) ==
  /\ MainGoes(from, to)
  /\ rx_mutex = "none"
  /\ rx_mutex' = "main"
  /\ UNCHANGED <<enc_vars, config, decoders, acks, ack_pc, ack_mutex, signal_vars, history>>

(* Mutant: a thread leaves without unlocking.                              *)
LeftLocked == rx_mutex
Unlocked   == "none"

unlock_rx(from, to) ==
  /\ MainGoes(from, to)
  /\ rx_mutex' = Unlocked
  /\ UNCHANGED <<enc_vars, config, decoders, acks, ack_pc, ack_mutex, signal_vars, history>>

rx_insert == lock_rx("rx_insert", "inserting") \/ unlock_rx("inserting", "select")

-----------------------------------------------------------------------------
(* A client connected.  main waits for the type of its request, and goes   *)
(* back for one that changes nothing or cannot be read.                    *)
read_type ==
  /\ \/ MainGoes("read_type", "select")
     \/ made < MaxEncoder /\ MainGoes("read_type", "free_buffers")
  /\ UNCHANGED <<enc_vars, config, decoders, acks, ack_pc, rx_mutex, ack_mutex,
                 signal_vars, history>>

(* free_encoder in its four parts, each of which reads the global enc; the *)
(* first frees packets and takes them out of the encoder.                  *)
FreePart(from, to, part) ==
  /\ MainGoes(from, to)
  /\ freed' = [freed EXCEPT ![enc] = @ \cup part]
  /\ twice' = (freed[enc] \cap (part \cup {"encoder"}) # {})
  /\ UNCHANGED <<main_enc, enc, made, config, decoders, acks, ack_pc, rx_mutex, ack_mutex,
                 signal_vars, resent, unsynced, overrun>>

free_encoder ==
  \/ /\ enc = NULL
     /\ MainGoes("free_buffers", "clean_all_decoder")
     /\ UNCHANGED <<enc_vars, config, decoders, acks, ack_pc, rx_mutex, ack_mutex,
                    signal_vars, history>>
  \/ /\ enc # NULL
     /\ \/ FreePart("free_buffers", "free_sizes", {})
        \/ FreePart("free_sizes", "free_udp_infos", {"packet_sizes"})
        \/ FreePart("free_udp_infos", "free_self", {"udp_infos"})
        \/ FreePart("free_self", "clean_all_decoder", {"encoder"})

(* free_decoder walks as many blocks as the configuration in force says,   *)
(* and the decoder has d.                                                  *)
WalksBeyond(d) == d < BlockSum

(* Mutant: the decoders stay.                                              *)
KeptDecoders == decoders
NoDecoders   == {}

clean_all_decoder ==
  /\ MainGoes("clean_all_decoder", "clean_all_rx")
  /\ decoders' = NoDecoders
  /\ overrun' = (\E d \in decoders : WalksBeyond(d))
  /\ UNCHANGED <<enc_vars, config, acks, ack_pc, rx_mutex, ack_mutex, signal_vars,
                 resent, unsynced, twice>>

clean_all_rx == lock_rx("clean_all_rx", "cleaning_rx") \/ unlock_rx("cleaning_rx", "clean_all_ack")

(* Mutant: clean_all_ack does not take ack_mutex.                          *)
NoAckMutex   == TRUE
AckMutexFree == ack_mutex = "none"

clean_all_ack ==
  /\ MainGoes("clean_all_ack", "read_config")
  /\ AckMutexFree
  /\ acks' = <<>>
  /\ unsynced' = TRUE
  /\ UNCHANGED <<enc_vars, config, decoders, ack_pc, rx_mutex, ack_mutex, signal_vars,
                 resent, twice, overrun>>

(* parse_config of a text of which n numbers are there: TCP may deliver    *)
(* the text in pieces, of which main reads one.  A text cut inside a       *)
(* number is another text.                                                 *)
Field(n, k, new, old) == IF k <= n THEN new ELSE old

Parsed(text, n) ==
  LET data_num == Field(n, 1, text.data_num, config.data_num)
  IN  [data_num   |-> IF data_num <= 0 THEN 1 ELSE data_num,
       parity_num |-> Field(n, 2, text.parity_num, config.parity_num),
       mode       |-> Field(n, 3, text.mode, config.mode)]

(* main waits for the configuration and makes the encoder for it, or       *)
(* cannot read it and goes on with the encoder it has.                     *)
read_config ==
  /\ MainGoes("read_config", "select")
  /\ \/ /\ \E text \in Text, n \in 0 .. 3 : config' = Parsed(text, n)
        /\ made' = made + 1
        /\ main_enc' = made'
        /\ resent' = FALSE /\ unsynced' = FALSE
     \/ UNCHANGED <<config, made, main_enc, resent, unsynced>>
  /\ UNCHANGED <<enc, freed, decoders, acks, ack_pc, rx_mutex, ack_mutex, signal_vars,
                 twice, overrun>>

InReset == main_pc \in {"free_buffers", "free_sizes", "free_udp_infos", "free_self",
  "clean_all_decoder", "clean_all_rx", "cleaning_rx", "clean_all_ack"}

-----------------------------------------------------------------------------
AckGoes(from, to) ==
  /\ Runs("monitor_ack")
  /\ ack_pc = from
  /\ ack_pc' = to
  /\ UNCHANGED <<main_pc, main_enc, made, freed, config, decoders, rx_mutex, signal_vars,
                 unsynced, twice, overrun>>

monitor_ack_lock ==
  /\ AckGoes("sleep", "look")
  /\ ack_mutex = "none"
  /\ ack_mutex' = "monitor_ack"
  /\ UNCHANGED <<enc, acks, resent>>

(* Mutant: enc is only set once.                                           *)
EncoderOfFirst == IF enc = NULL THEN Head(acks) ELSE enc
EncoderOfHead  == Head(acks)

(* The head is overdue; in mode 3 it is sent again on a way of its         *)
(* encoder.                                                                *)
monitor_ack_send ==
  /\ AckGoes("look", "send")
  /\ acks # <<>>
  /\ config.mode = 3
  /\ enc' = EncoderOfHead
  /\ resent' = (resent \/ ~InReset)
  /\ UNCHANGED <<acks, ack_mutex>>

monitor_ack_pop ==
  /\ \/ AckGoes("send", "look")
     \/ AckGoes("look", "look") /\ config.mode # 3
  /\ acks # <<>>
  /\ acks' = Tail(acks)
  /\ UNCHANGED <<enc, ack_mutex, resent>>

(* Mutant: the break of an encoder without ways does not unlock.           *)
LockedOnBreak == IF ack_pc = "send" THEN ack_mutex ELSE "none"
Released      == "none"

(* The list is empty or its head not overdue, or there is no way to send   *)
(* it, which only freed memory can say: ack_insert comes after a send.     *)
monitor_ack_unlock ==
  /\ \/ AckGoes("look", "sleep")
     \/ AckGoes("send", "sleep") /\ freed[enc] # {}
  /\ ack_mutex' = Released
  /\ UNCHANGED <<enc, acks, resent>>

monitor_ack == monitor_ack_send \/ monitor_ack_pop \/ monitor_ack_unlock

monitor_rx_lock ==
  /\ Runs("monitor_rx")
  /\ rx_mutex = "none"
  /\ rx_mutex' = "monitor_rx"
  /\ UNCHANGED <<main_pc, enc_vars, config, decoders, acks, ack_pc, ack_mutex, signal_vars,
                 history>>

monitor_rx_unlock ==
  /\ Runs("monitor_rx")
  /\ rx_mutex = "monitor_rx"
  /\ rx_mutex' = Unlocked
  /\ UNCHANGED <<main_pc, enc_vars, config, decoders, acks, ack_pc, ack_mutex, signal_vars,
                 history>>

(* A decoder is freed, one of perhaps several with as many blocks.         *)
monitor_decoder ==
  /\ Runs("monitor_decoder")
  /\ \E d \in decoders :
       /\ decoders' \in {decoders, decoders \ {d}}
       /\ overrun' = WalksBeyond(d)
  /\ UNCHANGED <<main_pc, enc_vars, config, acks, ack_pc, rx_mutex, ack_mutex, signal_vars,
                 resent, unsynced, twice>>

-----------------------------------------------------------------------------
(* SIGINT interrupts any thread, main also when select fails.              *)
SIGINT ==
  /\ signalled = "none" /\ ~exited /\ ~Corrupt
  /\ signalled' \in Thread
  /\ UNCHANGED <<main_pc, enc_vars, config, decoders, acks, ack_pc, rx_mutex, ack_mutex,
                 exited, history>>

(* signal_handler: clean_all_rx takes rx_mutex, then the process ends.     *)
signal_handler ==
  /\ signalled # "none" /\ ~exited /\ ~Corrupt
  /\ rx_mutex = "none"
  /\ exited' = TRUE
  /\ UNCHANGED <<main_pc, enc_vars, config, decoders, acks, ack_pc, rx_mutex, ack_mutex,
                 signalled, history>>

Serve == serve_input \/ serve_output_ack \/ serve_output \/ rx_insert
Reset == free_encoder \/ clean_all_decoder \/ clean_all_rx \/ clean_all_ack

Next ==
  \/ select \/ Serve
  \/ read_type \/ Reset \/ read_config
  \/ monitor_ack_lock \/ monitor_ack
  \/ monitor_rx_lock \/ monitor_rx_unlock
  \/ monitor_decoder
  \/ SIGINT \/ signal_handler

(* Every thread is scheduled.  Strong fairness for main and the handler,   *)
(* which wait for a mutex the monitors take again and again: they sleep in *)
(* between.  No fairness for clients: main may wait for one for ever.      *)
Spec ==
  /\ Init /\ [][Next]_vars
  /\ SF_vars(Serve) /\ SF_vars(Reset) /\ SF_vars(signal_handler)
  /\ WF_vars(monitor_ack) /\ WF_vars(monitor_rx_unlock)
-----------------------------------------------------------------------------
TypeOK ==
  /\ main_pc \in {"select", "serve_input", "serve_output", "rx_insert", "inserting",
       "read_type", "read_config"} \/ InReset
  /\ main_enc \in Encoder /\ enc \in Encoder \cup {NULL} /\ made \in Encoder
  /\ freed \in [Encoder -> SUBSET Part]
  /\ config \in [data_num : Nat \ {0}, parity_num : Int, mode : Int]
  /\ decoders \subseteq Int /\ acks \in Seq(Encoder)
  /\ ack_pc \in {"sleep", "look", "send"}
  /\ rx_mutex \in {"none", "main", "monitor_rx"} /\ ack_mutex \in {"none", "monitor_ack"}
  /\ signalled \in Thread \cup {"none"}
  /\ {exited, resent, unsynced, twice, overrun} \subseteq BOOLEAN

(* The encoder that serve_input, serve_output or monitor_ack works with is *)
(* not freed, but for two gaps: main after it could not read a             *)
(* configuration, and monitor_ack between free_encoder and clean_all_ack.  *)
UsedEncoderWhole ==
  /\ TypeOK
  /\ main_pc \in {"serve_input", "serve_output", "rx_insert", "inserting"}
       => freed[main_enc] = {} \/ unsynced
  /\ ack_pc = "send" => freed[enc] = {} \/ InReset \/ unsynced

(* free_encoder frees nothing a second time if monitor_ack sent a packet   *)
(* of the session again: only then does enc, which is never set back to    *)
(* NULL, point to the session's encoder.                                   *)
FreedOnce == twice => ~resent \/ unsynced

(* The numbers of config do not go together: mode 0 with more than 12      *)
(* blocks, or with parity packets of fewer than 8; mode 1 with more than   *)
(* 255; a sum below zero; in the other modes, fewer blocks than packets.   *)
Unfit ==
  \/ config.mode = 0 /\ (BlockSum \notin 0 .. 12 \/ (config.parity_num > 0 /\ config.data_num < 8))
  \/ config.mode = 1 /\ (BlockSum < 0 \/ (config.parity_num > 0 /\ BlockSum > 255))
  \/ config.mode \in 2 .. 4 /\ config.parity_num < 0
  \/ config.mode \notin 0 .. 4

(* Every decoder has the number of blocks the configuration in force asks  *)
(* for, so what walks and indexes it by that configuration stays inside;   *)
(* the code runs beyond the blocks of a group only where the numbers of    *)
(* this configuration do not go together, as those of 20 + 10 in mode 0.   *)
DecoderFits ==
  /\ \A d \in decoders : d = BlockNum
  /\ overrun => Unfit

(* main comes back to select unless a client it has accepted stays silent. *)
MainReturns ==
  main_pc # "select" ~> \/ main_pc \in {"select", "read_type", "read_config"}
                        \/ signalled # "none" \/ Corrupt

(* SIGINT ends the process, unless it interrupted the thread that holds    *)
(* rx_mutex.                                                               *)
Exits == signalled # "none" /\ rx_mutex # signalled ~> exited \/ Corrupt
=============================================================================
