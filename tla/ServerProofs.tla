---------------------------- MODULE ServerProofs -----------------------------
(***************************************************************************)
(* The server for every set of configurations, every number of encoders    *)
(* and of waiting packets: no thread works with an encoder that was freed, *)
(* nothing is freed twice once the global enc is the session's, every      *)
(* decoder has as many blocks as the configuration in force asks for, and  *)
(* nothing runs beyond them while its numbers go together.                 *)
(***************************************************************************)
EXTENDS Server, SequenceTheorems, TLAPS

(* The k-th cell is unlinked.                                              *)
LEMMA RemoveAtProperties ==
  ASSUME NEW S, NEW s \in Seq(S), NEW k \in 1 .. Len(s)
  PROVE  /\ RemoveAt(s, k) \in Seq(S)
         /\ Len(RemoveAt(s, k)) = Len(s) - 1
         /\ \A j \in 1 .. Len(s) - 1 :
              RemoveAt(s, k)[j] = IF j < k THEN s[j] ELSE s[j + 1]
<1> DEFINE front == SubSeq(s, 1, k - 1)
           back  == SubSeq(s, k + 1, Len(s))
<1>0. Len(s) \in Nat /\ \A j \in 1 .. Len(s) : s[j] \in S
  BY LenProperties, ElementOfSeq
<1>1. /\ front \in Seq(S)
      /\ Len(front) = k - 1
      /\ \A j \in 1 .. k - 1 : front[j] = s[j]
  <2>1. \A j \in 1 .. k - 1 : s[j] \in S
    BY <1>0
  <2> QED
    BY <1>0, <2>1, SubSeqProperties
<1>2. /\ back \in Seq(S)
      /\ Len(back) = Len(s) - k
      /\ \A j \in 1 .. Len(s) - k : back[j] = s[k + j]
  <2>1. \A j \in k + 1 .. Len(s) : s[j] \in S
    BY <1>0
  <2> QED
    BY <1>0, <2>1, SubSeqProperties
<1>3. RemoveAt(s, k) = front \o back
  BY DEF RemoveAt, front, back
<1> HIDE DEF front, back
<1>4. Len(front) + Len(back) = Len(s) - 1
  BY <1>0, <1>1, <1>2
<1>5. /\ front \o back \in Seq(S)
      /\ Len(front \o back) = Len(s) - 1
      /\ \A j \in 1 .. Len(s) - 1 : (front \o back)[j] =
           IF j <= Len(front) THEN front[j] ELSE back[j - Len(front)]
  <2>1. front \in Seq(S) /\ back \in Seq(S)
    BY <1>1, <1>2
  <2> QED
    BY <1>4, <2>1, ConcatProperties
<1>6. ASSUME NEW j \in 1 .. Len(s) - 1
      PROVE  (front \o back)[j] = IF j < k THEN s[j] ELSE s[j + 1]
  <2>1. CASE j < k
    BY <1>0, <1>1, <1>5, <2>1
  <2>2. CASE j >= k
    <3>1. /\ Len(front) = k - 1
          /\ j - (k - 1) \in 1 .. Len(s) - k
          /\ k + (j - (k - 1)) = j + 1
      BY <1>0, <1>1, <2>2
    <3>2. back[j - (k - 1)] = s[j + 1]
      BY <1>2, <3>1
    <3>3. (front \o back)[j] = back[j - (k - 1)]
      BY <1>0, <1>5, <2>2, <3>1
    <3> QED
      BY <1>0, <2>2, <3>2, <3>3
  <2>3. j < k \/ j >= k
    BY <1>0
  <2> QED
    BY <2>1, <2>2, <2>3
<1> QED
  BY <1>3, <1>5, <1>6

(* What is left of a list was in it.                                       *)
LEMMA RemoveAtElements ==
  ASSUME NEW S, NEW s \in Seq(S), NEW k \in 1 .. Len(s)
  PROVE  \A j \in 1 .. Len(RemoveAt(s, k)) :
           \E i \in 1 .. Len(s) : RemoveAt(s, k)[j] = s[i]
<1>1. /\ Len(s) \in Nat
      /\ Len(RemoveAt(s, k)) = Len(s) - 1
      /\ \A j \in 1 .. Len(s) - 1 :
           RemoveAt(s, k)[j] = IF j < k THEN s[j] ELSE s[j + 1]
  BY LenProperties, RemoveAtProperties
<1>2. \A j \in 1 .. Len(s) - 1 : j \in 1 .. Len(s) /\ j + 1 \in 1 .. Len(s)
  BY <1>1
<1> QED
  BY <1>1, <1>2

-----------------------------------------------------------------------------
(* What main has emptied on its way through a reset, and that it goes into *)
(* one only with an encoder left to make.                                  *)
ResetInv ==
  /\ main_pc \in {"clean_all_rx", "cleaning_rx", "clean_all_ack", "read_config"}
       => decoders = {}
  /\ main_pc = "read_config" => acks = <<>> /\ unsynced
  /\ InReset \/ main_pc = "read_config" => made < MaxEncoder

(* main works with the last encoder made, and enc with that or an earlier  *)
(* one; all waiting packets are of the last, and monitor_ack holds         *)
(* ack_mutex while it works on one of them.                                *)
AckInv ==
  /\ main_enc = made /\ enc <= made
  /\ \A k \in 1 .. Len(acks) : acks[k] = main_enc
  /\ ack_pc # "sleep" <=> ack_mutex = "monitor_ack"
  /\ ack_pc = "send" => acks # <<>> /\ enc = main_enc

(* The parts of the encoder that a reset has freed where it stands.        *)
FreedSoFar ==
  CASE main_pc = "free_udp_infos" -> {"packet_sizes"}
    [] main_pc = "free_self"      -> {"packet_sizes", "udp_infos"}
    [] main_pc \in {"clean_all_decoder", "clean_all_rx", "cleaning_rx", "clean_all_ack"}
         -> Part
    [] OTHER -> {}

FreedInv ==
  /\ \A e \in Encoder : e > made => freed[e] = {}
  /\ ~unsynced => freed[main_enc] \subseteq FreedSoFar
  /\ resent /\ ~unsynced => enc = main_enc

IInv ==
  /\ TypeOK
  /\ ResetInv
  /\ DecoderFits
  /\ AckInv
  /\ FreedInv
  /\ FreedOnce
-----------------------------------------------------------------------------
LEMMA InitIInv == Init => IInv
<1> SUFFICES ASSUME Init PROVE IInv
  OBVIOUS
<1>1. acks = <<>> /\ Len(acks) = 0
  BY DEF Init
<1>2. TypeOK
  <2>1. 1 \in Encoder
    BY ServerAssumption DEF Encoder
  <2>2. freed \in [Encoder -> SUBSET Part]
    BY DEF Init
  <2>3. config \in [data_num : Nat \ {0}, parity_num : Int, mode : Int]
    BY DEF Init
  <2>4. acks \in Seq(Encoder)
    BY <1>1, EmptySeq
  <2>5. /\ main_enc \in Encoder /\ enc \in Encoder \cup {NULL} /\ made \in Encoder
        /\ {exited, resent, unsynced, twice, overrun} \subseteq BOOLEAN
    BY <2>1 DEF Init
  <2> QED
    BY <2>2, <2>3, <2>4, <2>5 DEF Init, TypeOK
<1>3. ResetInv /\ DecoderFits
  BY DEF Init, ResetInv, InReset, DecoderFits
<1>4. AckInv
  BY <1>1 DEF Init, AckInv, NULL
<1>5. FreedInv /\ FreedOnce
  BY ServerAssumption DEF Init, FreedInv, FreedOnce, Encoder
<1> QED
  BY <1>2, <1>3, <1>4, <1>5 DEF IInv

(* Where the numbers go together, a decoder has all the blocks that are    *)
(* walked and indexed, and the coders take them.                           *)
LEMMA FitIsEnough ==
  ASSUME TypeOK, ~Unfit
  PROVE  BlockSum <= BlockNum /\ Indexed <= BlockNum /\ ~Unchecked /\ ~Miscoded
<1>1. config.data_num \in Nat \ {0} /\ config.parity_num \in Int /\ config.mode \in 0 .. 4
  BY DEF TypeOK, Unfit
<1> QED
  BY <1>1 DEF Unfit, BlockSum, BlockNum, Indexed, Unchecked, Miscoded

(* free_decoder leaves the blocks of a decoder only where they do not.     *)
LEMMA WalkStays ==
  ASSUME TypeOK, DecoderFits, NEW d \in decoders, WalksBeyond(d)
  PROVE  Unfit
<1>1. d = BlockNum /\ BlockNum \in Int /\ BlockSum \in Int
  BY DEF DecoderFits, BlockNum, BlockSum, TypeOK
<1> QED
  BY <1>1, FitIsEnough DEF WalksBeyond

(* No decoder but one of BlockNum blocks comes, the configuration stays,   *)
(* and the code runs beyond the blocks only where it does not fit.         *)
LEMMA FitStep ==
  ASSUME DecoderFits, UNCHANGED config, decoders' \subseteq decoders \cup {BlockNum},
         overrun' => overrun \/ Unfit
  PROVE  DecoderFits'
BY DEF DecoderFits, Unfit, BlockNum, BlockSum

(* The parts of a step of main that does nothing to encoders, waiting      *)
(* packets, configuration and decoders, where it goes on.                  *)
LEMMA MainMoves ==
  ASSUME IInv, UNCHANGED <<enc_vars, config, decoders, acks, ack_pc, ack_mutex, signal_vars, history>>,
         rx_mutex' \in {"none", "main", "monitor_rx"},
         \/ UNCHANGED main_pc
         \/ /\ ~InReset /\ main_pc # "read_config"
            /\ \/ main_pc' \in {"select", "serve_input", "serve_output", "rx_insert",
                                "inserting", "read_type"}
               \/ main_pc' = "free_buffers" /\ made < MaxEncoder
         \/ main_pc = "clean_all_rx" /\ main_pc' = "cleaning_rx"
         \/ main_pc = "cleaning_rx" /\ main_pc' = "clean_all_ack"
  PROVE  IInv'
<1>0. TypeOK /\ ResetInv /\ DecoderFits /\ AckInv /\ FreedInv /\ FreedOnce
  BY DEF IInv
<1>1. InReset' => InReset \/ (main_pc' = "free_buffers" /\ made < MaxEncoder)
  BY DEF InReset
<1>2. FreedSoFar \subseteq FreedSoFar'
  <2>1. ~InReset => FreedSoFar = {}
    BY DEF InReset, FreedSoFar
  <2> QED
    BY <2>1 DEF FreedSoFar
<1>3. TypeOK'
  BY <1>0 DEF TypeOK, InReset, enc_vars, signal_vars, history
<1>4. ResetInv'
  BY <1>0, <1>1 DEF ResetInv, InReset, enc_vars, history
<1>5. AckInv' /\ FreedOnce'
  BY <1>0 DEF AckInv, FreedOnce, enc_vars, history
<1>6. FreedInv'
  BY <1>0, <1>2 DEF FreedInv, enc_vars, history
<1>7. DecoderFits'
  BY <1>0, FitStep DEF history
<1> QED
  BY <1>3, <1>4, <1>5, <1>6, <1>7 DEF IInv

LEMMA MainStep ==
  ASSUME IInv, select \/ serve_input \/ serve_output_ack \/ serve_output \/ rx_insert
  PROVE  IInv'
<1>0. TypeOK /\ ResetInv /\ DecoderFits /\ AckInv /\ FreedInv /\ FreedOnce
  BY DEF IInv
<1>1. CASE select
  <2>1. /\ UNCHANGED <<enc_vars, config, decoders, acks, ack_pc, ack_mutex, signal_vars, history>>
        /\ rx_mutex' \in {"none", "main", "monitor_rx"}
        /\ ~InReset /\ main_pc # "read_config"
        /\ main_pc' \in {"serve_input", "serve_output", "read_type"}
    BY <1>0, <1>1 DEF select, MainGoes, InReset, TypeOK
  <2> QED
    BY <2>1, MainMoves
<1>2. CASE rx_insert
  <2>1. /\ UNCHANGED <<enc_vars, config, decoders, acks, ack_pc, ack_mutex, signal_vars, history>>
        /\ rx_mutex' \in {"none", "main", "monitor_rx"}
        /\ ~InReset /\ main_pc # "read_config"
        /\ main_pc' \in {"inserting", "select"}
    BY <1>0, <1>2
       DEF rx_insert, lock_rx, unlock_rx, Unlocked, MainGoes, InReset, TypeOK
  <2> QED
    BY <2>1, MainMoves
<1>3. CASE serve_input \/ serve_output_ack
  <2>1. /\ UNCHANGED <<enc_vars, config, decoders, ack_pc, rx_mutex, ack_mutex, signal_vars,
                       resent, unsynced, twice>>
        /\ ~InReset /\ main_pc # "read_config" /\ main_pc' = "select"
        /\ acks' = acks \/ ack_mutex = "none"
        /\ overrun' \in {overrun, FALSE, Miscoded}
    BY <1>3 DEF serve_input, serve_output_ack, MainGoes, InReset, history
  <2>2. /\ acks' \in Seq(Encoder)
        /\ \A k \in 1 .. Len(acks') : acks'[k] = main_enc
    <3>1. acks \in Seq(Encoder) /\ Len(acks) \in Nat /\ main_enc \in Encoder
      BY <1>0, LenProperties DEF TypeOK
    <3>2. CASE acks' = Append(acks, main_enc)
      <4>1. /\ acks' \in Seq(Encoder)
            /\ Len(acks') = Len(acks) + 1
            /\ \A k \in 1 .. Len(acks) + 1 :
                 acks'[k] = IF k <= Len(acks) THEN acks[k] ELSE main_enc
        BY <3>1, <3>2, AppendProperties
      <4> QED
        BY <1>0, <3>1, <4>1 DEF AckInv
    <3>3. CASE \E k \in 1 .. Len(acks) : acks' = RemoveAt(acks, k)
      <4>1. PICK k \in 1 .. Len(acks) : acks' = RemoveAt(acks, k)
        BY <3>3
      <4>2. RemoveAt(acks, k) \in Seq(Encoder)
        BY ONLY <3>1, RemoveAtProperties
      <4>3. \A j \in 1 .. Len(RemoveAt(acks, k)) :
              \E i \in 1 .. Len(acks) : RemoveAt(acks, k)[j] = acks[i]
        BY ONLY <3>1, RemoveAtElements
      <4> QED
        BY <1>0, <4>1, <4>2, <4>3 DEF AckInv
    <3>4. CASE UNCHANGED acks
      BY <1>0, <3>1, <3>4 DEF AckInv
    <3> QED
      BY <1>3, <3>2, <3>3, <3>4 DEF serve_input, serve_output_ack
  <2>3. ack_pc = "sleep" \/ UNCHANGED acks
    BY <1>0, <2>1 DEF AckInv, TypeOK
  <2>4. TypeOK'
    <3>1. overrun' \in BOOLEAN
      BY <1>0, <2>1 DEF TypeOK, Miscoded
    <3> QED
      BY <1>0, <2>1, <2>2, <3>1 DEF TypeOK, InReset, enc_vars, signal_vars
  <2>5. ResetInv'
    BY <1>0, <2>1 DEF ResetInv, InReset, enc_vars
  <2>6. DecoderFits'
    <3>1. overrun' => overrun \/ Unfit
      <4>1. Miscoded => Unfit
        BY <1>0, FitIsEnough
      <4>2. overrun' = overrun \/ overrun' = FALSE \/ overrun' = Miscoded
        BY <2>1
      <4> QED
        BY <4>1, <4>2
    <3>2. UNCHANGED config /\ decoders' \subseteq decoders \cup {BlockNum}
      BY <2>1
    <3> QED
      BY <1>0, <3>1, <3>2, FitStep
  <2>7. AckInv' /\ FreedOnce'
    BY <1>0, <2>1, <2>2, <2>3 DEF AckInv, FreedOnce, enc_vars
  <2>8. FreedInv'
    <3>1. FreedSoFar = {}
      BY <2>1 DEF FreedSoFar, InReset
    <3> QED
      BY <1>0, <2>1, <3>1 DEF FreedInv, enc_vars
  <2> QED
    BY <2>4, <2>5, <2>6, <2>7, <2>8 DEF IInv
<1>4. CASE serve_output
  <2>1. /\ UNCHANGED <<enc_vars, config, acks, ack_pc, rx_mutex, ack_mutex, signal_vars,
                       resent, unsynced, twice>>
        /\ ~InReset /\ main_pc # "read_config"
        /\ main_pc' \in {"select", "rx_insert"}
        /\ \/ UNCHANGED <<decoders, overrun>>
           \/ \E d \in decoders \cup {BlockNum} :
                /\ decoders' = decoders \cup {d}
                /\ overrun' \in {FALSE, d < Indexed \/ Unchecked \/ Miscoded}
    BY <1>4 DEF serve_output, MainGoes, InReset
  <2>2. decoders' \subseteq decoders \cup {BlockNum} /\ BlockNum \in Int
    <3>1. decoders' \subseteq decoders \cup {BlockNum}
      BY <2>1
    <3>2. BlockNum \in Int
      BY <1>0 DEF BlockNum, BlockSum, TypeOK
    <3> QED
      BY <3>1, <3>2
  <2>3. overrun' \in BOOLEAN
    BY <1>0, <2>1 DEF TypeOK
  <2>4. overrun' => overrun \/ Unfit
    <3>1. \A d \in decoders \cup {BlockNum} : d = BlockNum
      BY <1>0 DEF DecoderFits
    <3>2. ~Unfit => ~(BlockNum < Indexed) /\ ~Unchecked /\ ~Miscoded
      <4>1. BlockNum \in Int /\ Indexed \in Int
        BY <1>0 DEF BlockNum, Indexed, BlockSum, TypeOK
      <4> QED
        BY <1>0, <4>1, FitIsEnough
    <3> QED
      BY <2>1, <3>1, <3>2
  <2>5. TypeOK'
    BY <1>0, <2>1, <2>2, <2>3 DEF TypeOK, InReset, enc_vars, signal_vars
  <2>6. ResetInv' /\ AckInv' /\ FreedOnce'
    BY <1>0, <2>1 DEF ResetInv, AckInv, FreedOnce, InReset, enc_vars
  <2>7. DecoderFits'
    BY <1>0, <2>1, <2>2, <2>4, FitStep
  <2>8. FreedInv'
    <3>1. FreedSoFar = {}
      BY <2>1 DEF FreedSoFar, InReset
    <3> QED
      BY <1>0, <2>1, <3>1 DEF FreedInv, enc_vars
  <2> QED
    BY <2>5, <2>6, <2>7, <2>8 DEF IInv
<1> QED
  BY <1>1, <1>2, <1>3, <1>4

(* A part is freed of the encoder in fec.c: of the session's encoder, if   *)
(* monitor_ack sent again in the session, for the first time.              *)
LEMMA FreeStep ==
  ASSUME IInv, free_encoder
  PROVE  IInv'
<1>0. TypeOK /\ ResetInv /\ DecoderFits /\ AckInv /\ FreedInv /\ FreedOnce
  BY DEF IInv
<1>1. CASE enc = NULL
  <2>1. /\ UNCHANGED <<enc_vars, config, decoders, acks, ack_pc, rx_mutex, ack_mutex, signal_vars, history>>
        /\ main_pc = "free_buffers" /\ main_pc' = "clean_all_decoder"
    BY <1>0, <1>1
       DEF free_encoder, MainGoes
  <2>2. TypeOK'
    BY <1>0, <2>1 DEF TypeOK, InReset, enc_vars, signal_vars, history
  <2>3. ResetInv' /\ AckInv' /\ FreedOnce'
    BY <1>0, <2>1 DEF ResetInv, AckInv, FreedOnce, InReset, enc_vars, history
  <2>4. DecoderFits'
    BY <1>0, <2>1, FitStep DEF history
  <2>5. FreedInv'
    BY <1>0, <2>1 DEF FreedInv, FreedSoFar, enc_vars, history
  <2> QED
    BY <2>2, <2>3, <2>4, <2>5 DEF IInv
<1>2. CASE enc # NULL
  <2>1. PICK part \in SUBSET Part :
          /\ \/ main_pc = "free_buffers" /\ main_pc' = "free_sizes" /\ part = {}
             \/ main_pc = "free_sizes" /\ main_pc' = "free_udp_infos" /\ part = {"packet_sizes"}
             \/ main_pc = "free_udp_infos" /\ main_pc' = "free_self" /\ part = {"udp_infos"}
             \/ main_pc = "free_self" /\ main_pc' = "clean_all_decoder" /\ part = {"encoder"}
          /\ freed' = [freed EXCEPT ![enc] = @ \cup part]
          /\ twice' = (freed[enc] \cap (part \cup {"encoder"}) # {})
          /\ UNCHANGED <<main_enc, enc, made, config, decoders, acks, ack_pc, rx_mutex, ack_mutex,
                         signal_vars, resent, unsynced, overrun>>
    BY <1>2 DEF free_encoder, FreePart, MainGoes, Part
  <2>2. /\ enc \in Encoder /\ main_enc \in Encoder
        /\ \A e \in Encoder : e > made => e # enc
    BY <1>0, <1>2 DEF TypeOK, AckInv, Encoder
  <2>3. TypeOK'
    BY <1>0, <2>1, <2>2 DEF TypeOK, InReset, signal_vars
  <2>4. ResetInv' /\ AckInv'
    BY <1>0, <2>1 DEF ResetInv, AckInv, InReset
  <2>5. ~unsynced => freed[main_enc] \subseteq FreedSoFar
                     /\ FreedSoFar \cap (part \cup {"encoder"}) = {}
                     /\ FreedSoFar \cup part \subseteq FreedSoFar'
    BY <1>0, <2>1 DEF FreedInv, FreedSoFar, Part
  <2>6. FreedOnce'
    BY <1>0, <2>1, <2>5 DEF FreedOnce, FreedInv
  <2>7. FreedInv'
    <3>1. \A e \in Encoder : e > made => freed'[e] = {}
      BY <1>0, <2>1, <2>2 DEF FreedInv, TypeOK, Encoder
    <3>2. ~unsynced => freed'[main_enc] \subseteq FreedSoFar'
      BY <1>0, <2>1, <2>2, <2>5 DEF TypeOK
    <3> QED
      BY <1>0, <2>1, <3>1, <3>2 DEF FreedInv
  <2>8. DecoderFits'
    BY <1>0, <2>1, FitStep
  <2> QED
    BY <2>3, <2>4, <2>6, <2>7, <2>8 DEF IInv
<1> QED
  BY <1>1, <1>2

LEMMA ResetStep ==
  ASSUME IInv, read_type \/ Reset
  PROVE  IInv'
<1>0. TypeOK /\ ResetInv /\ DecoderFits /\ AckInv /\ FreedInv /\ FreedOnce
  BY DEF IInv
<1>1. CASE read_type
  <2>1. /\ UNCHANGED <<enc_vars, config, decoders, acks, ack_pc, ack_mutex, signal_vars, history>>
        /\ rx_mutex' \in {"none", "main", "monitor_rx"}
        /\ ~InReset /\ main_pc # "read_config"
        /\ \/ main_pc' = "select"
           \/ main_pc' = "free_buffers" /\ made < MaxEncoder
    BY <1>0, <1>1 DEF read_type, MainGoes, InReset, TypeOK
  <2> QED
    BY <2>1, MainMoves
<1>2. CASE free_encoder
  BY <1>2, FreeStep
<1>3. CASE clean_all_decoder
  <2>1. /\ UNCHANGED <<enc_vars, config, acks, ack_pc, rx_mutex, ack_mutex, signal_vars,
                       resent, unsynced, twice>>
        /\ main_pc = "clean_all_decoder" /\ main_pc' = "clean_all_rx"
        /\ decoders' = {}
        /\ overrun' = (\E d \in decoders : WalksBeyond(d))
    BY <1>3 DEF clean_all_decoder, MainGoes, NoDecoders
  <2>2. TypeOK'
    BY <1>0, <2>1 DEF TypeOK, InReset, enc_vars, signal_vars
  <2>3. ResetInv' /\ AckInv' /\ FreedOnce'
    BY <1>0, <2>1 DEF ResetInv, AckInv, FreedOnce, InReset, enc_vars
  <2>4. DecoderFits'
    BY <1>0, <2>1, WalkStays, FitStep
  <2>5. FreedInv'
    BY <1>0, <2>1 DEF FreedInv, FreedSoFar, enc_vars
  <2> QED
    BY <2>2, <2>3, <2>4, <2>5 DEF IInv
<1>4. CASE clean_all_rx
  <2>1. /\ UNCHANGED <<enc_vars, config, decoders, acks, ack_pc, ack_mutex, signal_vars, history>>
        /\ rx_mutex' \in {"none", "main", "monitor_rx"}
        /\ \/ main_pc = "clean_all_rx" /\ main_pc' = "cleaning_rx"
           \/ main_pc = "cleaning_rx" /\ main_pc' = "clean_all_ack"
    BY <1>4 DEF clean_all_rx, lock_rx, unlock_rx, Unlocked, MainGoes
  <2> QED
    BY <2>1, MainMoves
<1>5. CASE clean_all_ack
  <2>1. /\ UNCHANGED <<enc_vars, config, decoders, ack_pc, rx_mutex, ack_mutex, signal_vars,
                       resent, twice, overrun>>
        /\ main_pc = "clean_all_ack" /\ main_pc' = "read_config"
        /\ ack_mutex = "none"
        /\ acks' = <<>> /\ unsynced' = TRUE
    BY <1>5 DEF clean_all_ack, MainGoes, AckMutexFree
  <2>2. acks' \in Seq(Encoder) /\ Len(acks') = 0
    BY <2>1, EmptySeq
  <2>3. TypeOK'
    BY <1>0, <2>1, <2>2 DEF TypeOK, InReset, enc_vars, signal_vars
  <2>4. ResetInv' /\ DecoderFits' /\ FreedOnce'
    BY <1>0, <2>1, FitStep DEF ResetInv, FreedOnce, InReset, enc_vars
  <2>5. AckInv'
    BY <1>0, <2>1, <2>2 DEF AckInv, TypeOK, enc_vars
  <2>6. FreedInv'
    BY <1>0, <2>1 DEF FreedInv, enc_vars
  <2> QED
    BY <2>3, <2>4, <2>5, <2>6 DEF IInv
<1> QED
  BY <1>1, <1>2, <1>3, <1>4, <1>5 DEF Reset

(* What parse_config makes of a text, whole or cut short.                  *)
LEMMA ParsedFacts ==
  ASSUME TypeOK, NEW text \in Text, NEW n \in 0 .. 3
  PROVE  Parsed(text, n) \in [data_num : Nat \ {0}, parity_num : Int, mode : Int]
<1>1. /\ text.data_num \in Int /\ text.parity_num \in Int /\ text.mode \in Int
      /\ config.data_num \in Int /\ config.parity_num \in Int /\ config.mode \in Int
  BY ServerAssumption DEF TypeOK
<1>2. /\ Field(n, 1, text.data_num, config.data_num) \in Int
      /\ Field(n, 2, text.parity_num, config.parity_num) \in Int
      /\ Field(n, 3, text.mode, config.mode) \in Int
  BY <1>1 DEF Field
<1> QED
  BY <1>2 DEF Parsed

LEMMA ConfigStep ==
  ASSUME IInv, read_config
  PROVE  IInv'
<1>0. TypeOK /\ ResetInv /\ DecoderFits /\ AckInv /\ FreedInv /\ FreedOnce
  BY DEF IInv
<1>1. /\ UNCHANGED <<enc, freed, decoders, acks, ack_pc, rx_mutex, ack_mutex, signal_vars,
                     twice, overrun>>
      /\ ~overrun
      /\ main_pc = "read_config" /\ main_pc' = "select"
  BY DEF read_config, MainGoes, Runs, Corrupt
<1>2. decoders = {} /\ acks = <<>> /\ unsynced /\ made < MaxEncoder
  BY <1>0, <1>1 DEF ResetInv
<1>3. CASE UNCHANGED <<config, made, main_enc, resent, unsynced>>
  <2>1. TypeOK'
    BY <1>0, <1>1, <1>3 DEF TypeOK, InReset, signal_vars
  <2>2. ResetInv' /\ DecoderFits' /\ AckInv' /\ FreedOnce' /\ FreedInv'
    BY <1>0, <1>1, <1>2, <1>3
       DEF ResetInv, DecoderFits, AckInv, FreedOnce, FreedInv, InReset
  <2> QED
    BY <2>1, <2>2 DEF IInv
<1>4. CASE ~UNCHANGED <<config, made, main_enc, resent, unsynced>>
  <2>1. /\ \E text \in Text, n \in 0 .. 3 : config' = Parsed(text, n)
        /\ made' = made + 1 /\ main_enc' = made'
        /\ resent' = FALSE /\ unsynced' = FALSE
    BY <1>4 DEF read_config
  <2>2. config' \in [data_num : Nat \ {0}, parity_num : Int, mode : Int]
    BY <1>0, <2>1, ParsedFacts
  <2>3. made \in Encoder /\ made + 1 \in Encoder /\ made + 1 > made
    BY <1>0, <1>2, ServerAssumption DEF TypeOK, Encoder
  <2>4. TypeOK'
    BY <1>0, <1>1, <2>1, <2>2, <2>3 DEF TypeOK, InReset, signal_vars
  <2>5. ResetInv' /\ DecoderFits' /\ FreedOnce'
    BY <1>0, <1>1, <1>2, <2>1 DEF ResetInv, DecoderFits, FreedOnce, InReset
  <2>6. AckInv'
    <3>1. Len(acks') = 0 /\ ack_pc # "send"
      BY <1>0, <1>1, <1>2 DEF AckInv
    <3>2. enc <= made + 1
      BY <1>0 DEF AckInv, TypeOK, Encoder, NULL
    <3> QED
      BY <1>0, <1>1, <2>1, <3>1, <3>2 DEF AckInv
  <2>7. FreedInv'
    <3>1. freed[made + 1] = {} /\ \A e \in Encoder : e > made + 1 => freed[e] = {}
      BY <1>0, <2>3 DEF FreedInv, Encoder
    <3> QED
      BY <1>1, <2>1, <3>1 DEF FreedInv
  <2> QED
    BY <2>4, <2>5, <2>6, <2>7 DEF IInv
<1> QED
  BY <1>3, <1>4

(* monitor_ack works under ack_mutex, on packets of the last encoder.      *)
LEMMA MonitorAckStep ==
  ASSUME IInv, monitor_ack_lock \/ monitor_ack
  PROVE  IInv'
<1>0. TypeOK /\ ResetInv /\ DecoderFits /\ AckInv /\ FreedInv /\ FreedOnce
  BY DEF IInv
<1>1. /\ UNCHANGED <<main_pc, main_enc, made, freed, config, decoders, rx_mutex, signal_vars,
                     unsynced, twice, overrun>>
      /\ ~twice
  BY DEF monitor_ack_lock, monitor_ack, monitor_ack_send, monitor_ack_pop,
         monitor_ack_unlock, AckGoes, Runs, Corrupt
<1>2. CASE monitor_ack_lock \/ monitor_ack_unlock
  <2>1. /\ UNCHANGED <<enc, acks, resent>>
        /\ \/ ack_pc' = "look" /\ ack_mutex' = "monitor_ack"
           \/ ack_pc' = "sleep" /\ ack_mutex' = "none"
    BY <1>2 DEF monitor_ack_lock, monitor_ack_unlock, AckGoes, Released
  <2>2. TypeOK'
    BY <1>0, <1>1, <2>1 DEF TypeOK, InReset, signal_vars
  <2>3. ResetInv' /\ DecoderFits' /\ FreedOnce' /\ FreedInv'
    BY <1>0, <1>1, <2>1, FitStep DEF ResetInv, FreedOnce, FreedInv, FreedSoFar, InReset
  <2>4. AckInv'
    BY <1>0, <1>1, <2>1 DEF AckInv
  <2> QED
    BY <2>2, <2>3, <2>4 DEF IInv
<1>3. CASE monitor_ack_send
  <2>1. /\ UNCHANGED <<acks, ack_mutex>>
        /\ ack_pc = "look" /\ ack_pc' = "send"
        /\ acks # <<>> /\ enc' = Head(acks)
        /\ resent' = (resent \/ ~InReset)
    BY <1>3 DEF monitor_ack_send, AckGoes, EncoderOfHead
  <2>2. enc' = main_enc
    <3>1. 1 \in 1 .. Len(acks) /\ Head(acks) = acks[1]
      BY <1>0, <2>1, LenProperties, EmptySeq DEF TypeOK
    <3> QED
      BY <1>0, <2>1, <3>1 DEF AckInv
  <2>3. TypeOK'
    BY <1>0, <1>1, <2>1, <2>2 DEF TypeOK, InReset, signal_vars
  <2>4. ResetInv' /\ DecoderFits' /\ FreedOnce'
    BY <1>0, <1>1, <2>1, FitStep DEF ResetInv, FreedOnce, InReset
  <2>5. AckInv'
    <3>1. main_enc <= made
      BY <1>0 DEF AckInv, TypeOK, Encoder
    <3> QED
      BY <1>0, <1>1, <2>1, <2>2, <3>1 DEF AckInv
  <2>6. FreedInv'
    BY <1>0, <1>1, <2>2 DEF FreedInv, FreedSoFar
  <2> QED
    BY <2>3, <2>4, <2>5, <2>6 DEF IInv
<1>4. CASE monitor_ack_pop
  <2>1. /\ UNCHANGED <<enc, ack_mutex, resent>>
        /\ ack_pc # "sleep" /\ ack_pc' = "look"
        /\ acks # <<>> /\ acks' = Tail(acks)
    BY <1>4 DEF monitor_ack_pop, AckGoes
  <2>2. /\ acks' \in Seq(Encoder)
        /\ \A k \in 1 .. Len(acks') : acks'[k] = main_enc
    <3>1. /\ Tail(acks) \in Seq(Encoder)
          /\ Len(acks) \in Nat
          /\ Len(Tail(acks)) = Len(acks) - 1
          /\ \A k \in 1 .. Len(Tail(acks)) : Tail(acks)[k] = acks[k + 1]
      BY <1>0, <2>1, HeadTailProperties, LenProperties DEF TypeOK
    <3> QED
      BY <1>0, <2>1, <3>1 DEF AckInv
  <2>3. TypeOK'
    BY <1>0, <1>1, <2>1, <2>2 DEF TypeOK, InReset, signal_vars
  <2>4. DecoderFits' /\ FreedOnce' /\ FreedInv'
    BY <1>0, <1>1, <2>1, FitStep DEF FreedOnce, FreedInv, FreedSoFar
  <2>5. ResetInv'
    BY <1>0, <1>1, <2>1 DEF ResetInv, InReset
  <2>6. AckInv'
    BY <1>0, <1>1, <2>1, <2>2 DEF AckInv
  <2> QED
    BY <2>3, <2>4, <2>5, <2>6 DEF IInv
<1> QED
  BY <1>2, <1>3, <1>4 DEF monitor_ack

LEMMA OtherStep ==
  ASSUME IInv,
         \/ monitor_rx_lock \/ monitor_rx_unlock \/ monitor_decoder
         \/ SIGINT \/ signal_handler \/ UNCHANGED vars
  PROVE  IInv'
<1>0. TypeOK /\ ResetInv /\ DecoderFits /\ AckInv /\ FreedInv /\ FreedOnce
  BY DEF IInv
<1>1. /\ UNCHANGED <<main_pc, enc_vars, config, acks, ack_pc, ack_mutex,
                     resent, unsynced, twice>>
      /\ decoders' \subseteq decoders
      /\ overrun' \in BOOLEAN
      /\ overrun' => overrun \/ \E d \in decoders : WalksBeyond(d)
      /\ rx_mutex' \in {"none", "main", "monitor_rx"}
      /\ signalled' \in Thread \cup {"none"} /\ exited' \in BOOLEAN
  <2>1. CASE monitor_decoder
    BY <1>0, <2>1 DEF monitor_decoder, signal_vars, TypeOK, WalksBeyond
  <2>2. CASE ~monitor_decoder
    <3>1. UNCHANGED <<main_pc, enc_vars, config, decoders, acks, ack_pc, ack_mutex, history>>
      BY <2>2 DEF monitor_rx_lock, monitor_rx_unlock, SIGINT, signal_handler, vars
    <3>2. /\ rx_mutex' \in {"none", "main", "monitor_rx"}
          /\ signalled' \in Thread \cup {"none"} /\ exited' \in BOOLEAN
      BY <1>0, <2>2 DEF monitor_rx_lock, monitor_rx_unlock, Unlocked, SIGINT,
                        signal_handler, vars, signal_vars, TypeOK
    <3>3. overrun \in BOOLEAN
      BY <1>0 DEF TypeOK
    <3> QED
      BY <3>1, <3>2, <3>3 DEF history
  <2> QED
    BY <2>1, <2>2
<1>2. TypeOK'
  BY <1>0, <1>1 DEF TypeOK, InReset, enc_vars
<1>3. ResetInv' /\ AckInv' /\ FreedInv' /\ FreedOnce'
  BY <1>0, <1>1 DEF ResetInv, AckInv, FreedInv, FreedSoFar, FreedOnce, InReset, enc_vars
<1>4. DecoderFits'
  BY <1>0, <1>1, WalkStays, FitStep
<1> QED
  BY <1>2, <1>3, <1>4 DEF IInv

LEMMA StepIInv == IInv /\ [Next]_vars => IInv'
BY MainStep, ResetStep, ConfigStep, MonitorAckStep, OtherStep DEF Next, Serve
-----------------------------------------------------------------------------
(* The inductive invariant holds in every reachable state.                 *)
THEOREM Invariance == Spec => []IInv
BY InitIInv, StepIInv, PTL DEF Spec

(* serve_input and serve_output (server.c:370, 396) find their encoder     *)
(* whole, and so does monitor_ack (fec.c:972-998), but for the two gaps    *)
(* the invariant names.                                                    *)
THEOREM EncoderWhole == Spec => []UsedEncoderWhole
<1>1. IInv => UsedEncoderWhole
  <2> SUFFICES ASSUME IInv PROVE UsedEncoderWhole
    OBVIOUS
  <2>1. ~InReset /\ ~unsynced => freed[main_enc] = {}
    BY DEF IInv, FreedInv, FreedSoFar, InReset
  <2>2. main_pc \in {"serve_input", "serve_output", "rx_insert", "inserting"} => ~InReset
    BY DEF InReset
  <2>3. ack_pc = "send" => enc = main_enc
    BY DEF IInv, AckInv
  <2> QED
    BY <2>1, <2>2, <2>3 DEF IInv, UsedEncoderWhole
<1> QED
  BY <1>1, Invariance, PTL

(* free_encoder (fec.c:1211-1273) frees nothing twice once monitor_ack has *)
(* set enc in the session.                                                 *)
THEOREM FreedOnlyOnce == Spec => []FreedOnce
BY Invariance, PTL DEF IInv

(* Whatever numbers arrive and however they are cut, every decoder that    *)
(* serve_output finds has the blocks of the configuration in force         *)
(* (new_decoder, clean_all_decoder, TYPE_SYNC_CONFIG in server.c); and     *)
(* nothing runs beyond the blocks of a group (fec.c:221, 609, 1279) unless *)
(* the numbers of this configuration itself do not go together.            *)
THEOREM DecoderAlwaysFits == Spec => []DecoderFits
BY Invariance, PTL DEF IInv
=============================================================================
