------------------------------- MODULE Paths --------------------------------
(***************************************************************************)
(* The ways to the client in src/src/fec.c: for every address it was heard *)
(* from, the list of the times its packets carried.  main appends to it    *)
(* (update_udp_info_list); whoever sends to the address (input_send, on    *)
(* main and on monitor_ack) puts the first time in the packet and takes it *)
(* off the list, but never the last one.  main holds the encoder's mutex   *)
(* for some of this and monitor_ack never does, so no step waits: every    *)
(* access to a list is a step.  The cells of the lists are numbered as     *)
(* they are made, and a cell stands for the time in it.                    *)
(***************************************************************************)
EXTENDS Integers, Sequences, SequencesExt

CONSTANTS
  Addr,    \* the addresses the client sends from
  MaxTime  \* bound: packets received, each with its time

ASSUME PathsAssumption == MaxTime \in Nat

VARIABLES
  mode,       \* config.mode
  udp_infos,  \* the addresses with their type, the latest first
  time_head, time_tail,  \* of every address
  next,       \* of every cell; the cells made so far are DOMAIN next
  freed,      \* the cells freed
  pc,         \* where each thread is
  udp,        \* the address a thread works on
  following,  \* next in input_send
  stamped,    \* history: the last time sent to the address
  alone,      \* history: monitor_ack took the only address there was
  broken      \* history: a freed cell was used, or a time sent after a later one

vars == <<mode, udp_infos, time_head, time_tail, next, freed, pc, udp, following,
          stamped, alone, broken>>

NULL   == 0
Thread == {"main", "monitor_ack"}
Cell   == 1 .. MaxTime
Known  == {udp_infos[k].addr : k \in DOMAIN udp_infos}
NewCell == Len(next) + 1

Init ==
  /\ mode \in {2, 3}
  /\ udp_infos = <<>>
  /\ time_head = [a \in Addr |-> NULL] /\ time_tail = time_head
  /\ next = <<>> /\ freed = {}
  /\ pc = [t \in Thread |-> "idle"]
  /\ udp = [t \in Thread |-> NULL]
  /\ following = [t \in Thread |-> NULL]
  /\ stamped = [a \in Addr |-> NULL]
  /\ alone = FALSE /\ broken = FALSE

-----------------------------------------------------------------------------
(* After memory was misused anything may happen: no step is taken.         *)
Goes(t, from, to) ==
  /\ ~broken
  /\ pc[t] = from
  /\ pc' = [pc EXCEPT ![t] = to]

(* serve_output heard from a new address, by a data or a parity packet.    *)
update_udp_info_list_new(a, type) ==
  /\ Goes("main", "idle", "idle")
  /\ a \notin Known
  /\ Len(next) < MaxTime
  /\ next' = Append(next, NULL)
  /\ time_head' = [time_head EXCEPT ![a] = NewCell]
  /\ time_tail' = [time_tail EXCEPT ![a] = NewCell]
  /\ udp_infos' = <<[addr |-> a, type |-> type]>> \o udp_infos
  /\ UNCHANGED <<mode, freed, udp, following, stamped, alone, broken>>

(* A known address: the cell is linked behind the last one, and then       *)
(* becomes the last.                                                       *)
update_udp_info_list_link(a) ==
  /\ Goes("main", "idle", "link")
  /\ a \in Known
  /\ Len(next) < MaxTime
  /\ udp' = [udp EXCEPT !["main"] = a]
  /\ next' = [Append(next, NULL) EXCEPT ![time_tail[a]] = NewCell]
  /\ broken' = (time_tail[a] \in freed)
  /\ UNCHANGED <<mode, udp_infos, time_head, time_tail, freed, following, stamped, alone>>

update_udp_info_list_tail ==
  /\ Goes("main", "link", "idle")
  /\ time_tail' = [time_tail EXCEPT ![udp["main"]] = Len(next)]
  /\ UNCHANGED <<mode, udp_infos, time_head, next, freed, udp, following, stamped,
                 alone, broken>>

-----------------------------------------------------------------------------
(* data_udp and parity_udp: the last address of the type, or the first of  *)
(* all.  Mutant: monitor_ack sends on data_udp.                            *)
Path(type) ==
  LET ofType == {k \in DOMAIN udp_infos : udp_infos[k].type = type}
  IN  udp_infos[IF ofType = {} THEN 1 ELSE Max(ofType)].addr

ResendData == Path(1)
Resend     == Path(0)

(* serve_input and send_ack send on data_udp, serve_input or encode also on*)
(* parity_udp, but for mode 3, in which only monitor_ack does.  Mode 2     *)
(* stands for all others.                                                  *)
Choice(t) ==
  IF t = "monitor_ack"
  THEN IF mode = 3 THEN {Resend} ELSE {}
  ELSE {Path(1)} \cup IF mode = 3 THEN {} ELSE {Path(0)}

input_send(t) ==
  /\ Goes(t, "idle", "stamp")
  /\ udp_infos # <<>>
  /\ \E a \in Choice(t) : udp' = [udp EXCEPT ![t] = a]
  /\ alone' = (alone \/ (t = "monitor_ack" /\ Len(udp_infos) = 1))
  /\ UNCHANGED <<mode, udp_infos, time_head, time_tail, next, freed, following, stamped,
                 broken>>

stamp(t) ==
  LET head == time_head[udp[t]]
  IN  /\ Goes(t, "stamp", "test")
      /\ stamped' = [stamped EXCEPT ![udp[t]] = head]
      /\ broken' = (head \in freed \/ head < stamped[udp[t]])
      /\ UNCHANGED <<mode, udp_infos, time_head, time_tail, next, freed, udp, following, alone>>

(* The last time stays.                                                    *)
test(t) ==
  LET head == time_head[udp[t]]
  IN  /\ \/ Goes(t, "test", "free") /\ next[head] # NULL
         \/ Goes(t, "test", "idle") /\ next[head] = NULL
      /\ following' = [following EXCEPT ![t] = next[head]]
      /\ broken' = (head \in freed)
      /\ UNCHANGED <<mode, udp_infos, time_head, time_tail, next, freed, udp, stamped, alone>>

free(t) ==
  LET head == time_head[udp[t]]
  IN  /\ Goes(t, "free", "store")
      /\ freed' = freed \cup {head}
      /\ broken' = (head \in freed)
      /\ UNCHANGED <<mode, udp_infos, time_head, time_tail, next, udp, following, stamped, alone>>

store(t) ==
  /\ Goes(t, "store", "idle")
  /\ time_head' = [time_head EXCEPT ![udp[t]] = following[t]]
  /\ following' = [following EXCEPT ![t] = NULL]
  /\ UNCHANGED <<mode, udp_infos, time_tail, next, freed, udp, stamped, alone, broken>>

Next ==
  \/ \E a \in Addr : \/ \E type \in {0, 1} : update_udp_info_list_new(a, type)
                     \/ update_udp_info_list_link(a)
  \/ update_udp_info_list_tail
  \/ \E t \in Thread : input_send(t) \/ stamp(t) \/ test(t) \/ free(t) \/ store(t)

Spec == Init /\ [][Next]_vars
-----------------------------------------------------------------------------
TypeOK ==
  /\ mode \in {2, 3}
  /\ udp_infos \in Seq([addr : Addr, type : {0, 1}])
  /\ {time_head, time_tail, stamped} \subseteq [Addr -> Cell \cup {NULL}]
  /\ next \in Seq(Cell \cup {NULL}) /\ freed \subseteq Cell
  /\ pc \in [Thread -> {"idle", "link", "stamp", "test", "free", "store"}]
  /\ udp \in [Thread -> Addr \cup {NULL}] /\ following \in [Thread -> Cell \cup {NULL}]
  /\ alone \in BOOLEAN /\ broken \in BOOLEAN

(* No thread uses or frees a cell that was freed, and the times sent to an *)
(* address do not go back, although input_send and update_udp_info_list    *)
(* exclude each other in no way: main and monitor_ack never send to the    *)
(* same address, and appending touches nothing that is popped.  The        *)
(* exception is a client with one address in mode 3.                       *)
TimesIntact == TypeOK /\ (broken => alone)
=============================================================================
