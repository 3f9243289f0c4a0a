# HONServer: TLA+ models and proofs

HONServer is the server end of a UDP tunnel. It reads packets from a TUN
device, numbers them, sends them to one client over one or two UDP paths
together with redundancy, and does the reverse for what the client sends:
duplicates are dropped, losses repaired, and the packets are written to the TUN
device in order. This directory holds TLA+ modules that model the program, the
TLC configurations that check them, and proofs that TLAPS checks.

Run everything from this directory:

    tlc -config RxQueue.cfg MCRxQueue      # and so on, see "The runs"
    tlapm RxQueueProofs.tla                # and the other modules named *Proofs

In what follows `fec.c`, `server.c` and `config.c` are in `src/src/`, and `rs.c`,
`fec84.c` and `threadpool.c` in `src/lib/`.

## 1. The system

### Threads

`main` (server.c:189) waits in `select` on three descriptors and does all the
work of the tunnel itself: `serve_input` for a packet from the TUN device,
`serve_output` for a packet from the client, and the configuration channel (TCP).
Lines that would hand `serve_input` and `serve_output` to the thread pool are
commented out. The pool only runs three endless loops: `monitor_decoder`,
`monitor_rx` and `monitor_ack`. The hard interleavings are therefore those of `main`
with one monitor at a time, and they are many: each pair shares a list, a mutex
that does not cover everything, and a reset that runs on `main`.

### Components

| component | state | operations | interacts with |
|---|---|---|---|
| receive queue (fec.c:688-826, 1316-1331) | `rx_list`, `rx_num`, `rx_group_id`, `rx_index`, `rx_mutex` | `rx_insert`, `rx_send`, `monitor_rx`, `clean_all_rx`, the reset in server.c:297 | called by `serve_output` with a decoder's mutex held; writes to the TUN device |
| group decoders (fec.c:190-381, 487-686, 1275-1314) | `decoder_list`, `struct decoder`, two levels of mutexes | `serve_output`, `get_decoder`, `new_decoder`, `decode`, `monitor_decoder`, `clean_all_decoder` | hands packets to the receive queue; calls the two codes |
| sender (fec.c:57-182, 412-479, 517-576) | `struct encoder`: `group_id`, `index`, buffers, addresses | `serve_input`, `encode`, `input_send`, `update_udp_info_list` | reads `parity_status`, fills the list of acknowledgements |
| acknowledgements (fec.c:828-1017, 1333-1348) | `ack_head`, `ack_tail`, `ack_mutex`, `parity_status` and its two counters | `ack_insert`, `remove_ack`, `monitor_ack`, `parity_status_fun`, `clean_all_ack` | keeps a pointer to the encoder in every cell |
| client paths (fec.c:517-576, 1163-1193) | `udp_infos` of the encoder; per path a list of times | `update_udp_info_list`, `input_send` | main and `monitor_ack` both send |
| session (server.c:284-330, fec.c:1195-1273, 1350) | the global `enc`, the local `enc` of `main` that shadows it, `config` | `new_encoder`, `free_encoder`, `clean_all`, `parse_config` | resets every other component |
| thread pool (threadpool.c) | ring of tasks, `count`, `started`, `shutdown`, `lock`, `notify` | `threadpool_create`, `_add`, `_destroy`, `_free`, `_thread` | runs the monitors |
| Reed-Solomon code (rs.c) | tables of GF(256), `struct reed_solomon` | `fec_init`, `reed_solomon_new`, `_encode2`, `_reconstruct` | used by `encode` and `decode` in mode 1 |
| 8+4 code (fec84.c) | tables of GF(16), the generator matrix | `fec_encode`, `fec_decode` | used in mode 0 |
| main loop (server.c) | descriptors, buffers | `main`, `signal_handler`, set-up | calls everything |
| configuration text (config.c) | - | `parse_config`, `serialize_config` | the session |
| headers and diagnostics (fec.c) | - | `get_packet_addr`, `get_packet_len`, `print_rx`, `print_udp_infos` | - |

`config.mode` chooses the redundancy: 0 is the 8+4 code, 1 Reed-Solomon, 2 sends
everything twice, 3 sends again what is not acknowledged, 4 sends twice while
acknowledgements are slow.

### What makes each component hard, and what makes it right

* **Receive queue.** Two threads flush it; `rx_insert` lets the mutex go before
  `rx_send` takes it again; the reset stores the expected identity without the
  mutex, group first and index second, and empties the list a good deal later;
  timeouts and overflow push packets out of turn; `group_id` wraps. It is right if
  the counter is the length of the list (the loop of `rx_send` would follow a
  null pointer otherwise), the list is sorted and bounded, packets reach the
  device in order and once, one that is in turn waits for nothing but a second copy
  in front of it, none waits for ever,
  and the first packets of a session are not taken for late ones.
* **Group decoders.** Packets are lost, duplicated and reordered; a decoder is
  freed by a timeout while `serve_output`, holding it, waits for `rx_mutex`. They are
  right if a decoder in use is not freed, a packet is handed over once per
  life of its decoder, a complete group is handed over entirely, and no block
  that was not restored is handed over.
* **Sender.** Packets taken before a client is known take a place in the group
  but are not sent; the buffers are reused. It is right if parity blocks cover
  exactly the data packets of their group, numbering agrees with what the other
  side expects, and redundancy takes the other path than the data.
* **Acknowledgements.** Cells leave the list at its head, in the middle and at its
  end, from two threads; `monitor_ack` stops at the first cell that is not
  overdue. They are right if `ack_tail` is always where the list ends, the list is
  in order of age, and every packet is settled once.
* **Thread pool.** Wake-ups may get lost, threads may fail to start, tasks may
  never return. It is right if tasks start once and in order, and the pool is
  freed only after its workers are gone.
* **Codes.** They are right if every choice of as many blocks as the group has
  data packets restores the group. `fec84.c` has no loop over coefficients: the
  exclusive ors of every packet and every coefficient are written out, and one
  wrong block shows only for the losses that meet it.
* **Client paths.** Two threads take times off the lists of two paths while one of
  them appends, with no mutex in common. They are right if no cell is used after
  it was freed and the times sent on a path do not go back.
* **Session.** `free_encoder` frees the global `enc`, which only `monitor_ack` sets;
  the read of a new configuration may fail after the old encoder is gone. It is
  right if nobody works with a freed encoder, nothing is freed twice, and the
  decoders in the list always have the blocks that the configuration asks for.
* **Main loop.** It waits for clients without a timeout and for mutexes the monitors
  take; the signal handler takes one in whatever thread it interrupts. It is right
  if `main` comes back to `select` and SIGINT ends the process.

PROJECT.json lists under "hazards" each place where such a thing bites, and which
property covers it.

## 2. The plan

Modules in the order of the importance of what they model. All of them exist.

1. `PacketId`, `OrderedDelivery`, `RxQueue`, `RxQueueProofs`: the receive
   queue, its abstract specification, its proofs.
2. `Receiver`: the group decoders, composed with `RxQueue` (`INSTANCE`).
3. `AckQueue`, `Retransmission`: acknowledgements and their promise.
4. `Sender`: numbering, parity, choice of the path.
5. `ThreadPool`, `TaskQueue`: the pool and its promise.
6. `ReedSolomon` and `Fec84`: the two codes over their own fields.
7. `Server`: the main loop, the configuration channel, the two `enc` variables, the
   reset and the signal handler, with the three monitors.
8. `Paths`: the lists of times, shared by `main` and `monitor_ack`.

The proofs follow, in the order receive queue, acknowledgements, session, pool,
receiver, sender, paths, 8+4 code; each has a module named after the one it is
about. All safety properties of these eight modules are proved, and all three
refinements of an abstract specification; section 5 says how. What stays with
TLC is liveness and the Reed-Solomon code, for the reasons given there.

## 3. The modules

| module | models | state | actions |
|---|---|---|---|
| `PacketId` | struct rx_packet's identity and its successor | - | - |
| `OrderedDelivery` | what the receive queue promises | copies waiting, last packet written | `Accept`, `Write`, `Reset` |
| `RxQueue` | fec.c:688-826, 1316-1331, server.c:284-307 | the queue's globals, where each thread is, two history variables | one per section between two points where another thread can interfere |
| `Receiver` | fec.c:190-381, 487-515, 578-686, 1275-1314 | the decoders, where `serve_output` is, and all of `RxQueue` | steps of `serve_output`, `monitor_decoder`, the reset, `RxQueue`'s |
| `Retransmission` | what the ack list promises | the outcome of each packet | `Send`, `Ack`, `Elapse`, `Expire`, `NewSession` |
| `AckQueue` | fec.c:828-1017, 1333-1348 | list, tail, ages, `parity_status` and its counters | `ack_insert`, `remove_ack`, `clean_all_ack`, the steps of `monitor_ack` |
| `Sender` | fec.c:57-182, 412-479, 517-576, 1163-1209 | the encoder, what was sent | `serve_input`, `update_udp_info_list`, `sync` |
| `TaskQueue` | what the pool promises | pending, running, closed, stopped | `Add`, `Start`, `Finish`, `Close`, `Stop` |
| `ThreadPool` | threadpool.c:96-305 | ring, counters, where each worker and main is | creation, addition, destruction, the sections of a worker |
| `Server` | server.c:189-403, fec.c:952-1017, 1195-1357, config.c:7-16 | where `main` and `monitor_ack` are, both `enc`, what is freed of each encoder, `config`, sizes of the decoders, the mutexes | `main`'s loop, the parts of `free_encoder` and `clean_all`, the two reads of a connection, the steps of the monitors, `SIGINT` and its handler |
| `Paths` | fec.c:249-263, 383-410, 517-576, 1163-1193 | the addresses, the cells of their lists, where each thread is | each access of `update_udp_info_list` and of `input_send` in either thread |
| `Fec84` | fec84.c:7-1747, fec.c:427-437 | the packets of one group, what arrived, the two matrices | encoding, loss, one column of the inversion, recovery of one packet |
| `RxQueueProofs`, `ReceiverProofs`, `AckQueueProofs`, `SenderProofs`, `ThreadPoolProofs`, `ServerProofs`, `PathsProofs`, `Fec84Proofs` | the theorems about the module in the name | - | - |
| `ReedSolomon` | rs.c:103-988 | tables, matrices, the blocks of one group | construction of the tables, columns of the inversion, encoding, loss, reconstruction |

Conventions and abstractions that a reader of the code should know:

* **Atomicity.** What a thread does under a mutex is one step if everything it
  touches is only touched under that mutex. `rx_send` is several steps, because the
  reset stores `rx_group_id` and `rx_index` without `rx_mutex`: reads and writes of the two
  are steps of their own, and the two halves of the break condition
  (fec.c:768-769) are read one after the other. A race on one `unsigned int` is
  modelled as an atomic access in some order. `monitor_ack` works on cell after cell with
  `ack_mutex` held, and `serve_output` holds its decoder's mutex through `rx_insert`.
* **Time.** A `touch` is kept as an age, which a `Tick` raises and which stops growing
  where it makes no more difference. The code reads `CLOCK_REALTIME`; the models
  assume that it does not go back. Sleeps of the monitors last for any time.
* **Packets** are identities, their contents model values, sets of bits
  (`ReedSolomon`), or the tuple of what they are computed from (`Sender`). What
  `get_packet_addr` rejects (fec.c:77) changes nothing and is left out.
* **The network.** In `Receiver` any packet of the wire may arrive at any time and any
  number of times, which includes loss, duplication and reordering.
  Acknowledgements in `AckQueue` likewise, and they may be of the session before,
  because their identity does not tell.
* **History variables** (`tun`, `raced`, `handed`, `acked`, `expired`, `slow`, `wire`, `parity`, `data`,
  `added`) are read by properties and by no guard, but for `added`, by which main
  adds a task once.
* In `RxQueue`, `raced` says that `monitor_rx` stored to the expected identity between the
  first store of a reset and the emptying of the list. It singles out the states
  in which the program does not do what one expects (the run `rx_queue_sync`), so
  that the other properties can be stated exactly instead of weakly.
* `Receiver` models `decode` by what it restores: the missing blocks if there are as
  many parity blocks. That the code of mode 1 does so is what `ReedSolomon` checks;
  that of mode 0 does so for packets with nothing but zeros behind them is what `Fec84`
  checks.
* In `Sender` the choice between one and two copies in mode 4 (`parity_status`) is open,
  since it is the subject of `AckQueue`. The parity blocks of mode 0 have the numbers
  of mode 1 and are computed from the same packets. Mode 0 supposes 8 data packets
  and at most 4 parity packets; nothing in the code checks it.
* In `Retransmission` a packet may be late as soon as it is sent if all that wait are:
  that is what `monitor_ack` does with an `ack_timeout` of 0, which `parse_config`
  accepts.
* In `AckQueue` the branch for an encoder without addresses (fec.c:978-981) is left
  out: a packet enters the list only when the encoder has an address, and the list
  of addresses never becomes empty again. The two delay counters stop at 2, the
  only value the code compares them with. The two thresholds are in one unit; the
  code takes `parity_delay_thres` for milliseconds (fec.c:863) and `ack_timeout` for
  microseconds (fec.c:966).
* In `Server` a freed encoder is one whose `packet_sizes`, list of addresses or own
  memory went to `free`. After a second `free` of the same memory anything may
  happen, and the model stops there (`twice`); so does `Paths` after the use of a
  freed cell (`broken`). `serve_input` and `serve_output` are the steps that touch what
  others share here; their calls of `rx_insert` are taken as one, which ends, as
  `Receiver` shows. `monitor_ack` may find `udp_infos` to be NULL only in freed memory.
  A failing `select` or `read` makes `main` run the handler itself, which is the case of
  the signal that interrupts `main`.
* `parse_config` is modelled by the three numbers that size arrays, in the order of the
  text, of which any prefix may arrive: `main` reads once, and TCP may cut. The
  numbers are any integers. The code checks none but the first, so numbers that do
  not go together stay in force, for example 20 + 10 packets in mode 0, whose decoders
  have 12 blocks. Where a group is then coded, indexed (fec.c:221-228) or freed
  (fec.c:1279) by those numbers, `Server` may set `overrun`, and anything may happen;
  the model stops there, as it does after a double release. `Unfit` says which numbers
  do not go together. The decoder's number of blocks is the unsigned sum of two numbers;
  sums are taken as integers, and a negative one as more than any index.
* In `Paths` a cell stands for the time in it and is never allocated again. The
  branches for an empty list (fec.c:553, 1172) never run, because the last cell
  stays; the lists are emptied only with the encoder (`Server`).
* In `Fec84` a packet is the set of those of its four blocks that have a 1 at one
  offset, which is all that exclusive ors of blocks can tell. An element of the
  field is the set of its bits for the same reason, so a packet is one, too, and what
  the code does to packets can be compared with a product. The tables are those
  the code writes out, for a pair of packets and for a single one alike (both
  branches do the same); the four-block part that all parity packets share is `C`.
  Decoding always runs with exactly four packets lost, because it starts with the
  `data_num`-th packet (fec.c:305), so `inverse_sub_matrix` is never reached; and for
  these losses no row is ever exchanged. `region_xor_initial_check` compares a
  pointer with 0 and therefore always adds, to memory that is zero at first.
* In `ThreadPool`, `main_pc` follows a caller that creates the pool, adds tasks and
  destroys it once. In this program the destruction at server.c:403 is never
  reached, because `signal_handler` exits first; the pool is modelled as the library
  it is.
* In `ReedSolomon` a byte is the set of its bits. The sort of the erased blocks
  (rs.c:826-843) stops too soon on some inputs, for example 1, 3, 2; its only caller
  passes sorted lists (rs.c:952-957), so it is left out. `mul` by 0 leaves its target as
  it is, as in the code, where the length given to `memset` is the coefficient.

Operators called "mutant" in their comments are the bodies of the code with one
plausible mistake, kept next to the definition they would replace. PROJECT.json
says which property each of them violates.

## 4. The runs

| run | instance | checks |
|---|---|---|
| `rx_queue` | 3 groups of 2, room for 3, timeout 2; 54 209 states | counter, order, room, what a packet in turn may wait for, position, nothing lost, order of writes, `OrderedDelivery`, every packet leaves |
| `rx_queue_sync` | the same | violated: see "Findings" |
| `receiver` | 2 groups of 2 + 1, timeouts 0 and 1, both kinds of modes; 397 580 states | no decoder freed in use, handed over once, genuine, complete; the queue is used as `RxQueue` assumes; `serve_output` returns |
| `ack_queue` | 3 packets a session, modes 3 and 4; 25 848 states | tail, order of age, none overdue, `parity_status`, `Retransmission`, every packet leaves |
| `thread_pool` | 2 workers, ring of 2, 4 tasks one of which is endless; 3 160 states | ring, release, `TaskQueue`, tasks start, destruction returns |
| `sender` | groups of 2 + 1, 5 packets a session, 2 addresses, all modes; 5 718 states | parity blocks, numbering, separate paths |
| `sender_index` | the same | violated: see "Findings" |
| `reed_solomon` | GF(256), five shapes up to 4 + 2, four contents; 25 168 states | reconstruction from every choice of blocks, every matrix inverted, the tables multiply all 65 536 pairs of bytes |
| `fec84` | 32 basis packets and 3 more groups, all losses of 4 in 12; 132 720 states | the written-out exclusive ors multiply by the matrix, every matrix is inverted, every packet comes back |
| `fec84_tail` | the same | violated: see "Findings" |
| `server` | 4 sessions, 2 configurations and their mixtures, 2 packets to acknowledge; 241 444 states | use of a freed encoder, double release, decoders have the blocks of the configuration and nothing runs beyond them unless its numbers do not go together, `main` returns, SIGINT ends the process |
| `paths` | 3 addresses, 6 times; 1 167 584 states | no freed cell is used, times do not go back |

Why the bounds are enough for the interesting cases:

* `rx_queue`: three groups make `group_id` wrap and leave a group between the first and
  the last; two packets per group make both halves of the identity matter; room
  for three is the least in which two packets wait without being flushed, so that one
  in turn can stand behind the copy of another (with room for two it never does); a
  timeout of two ticks tells a packet that is young, old and overdue. Resets come at any time and
  any number of times. `group_id` has 2^32 values in the program; the proofs hold for
  any number.
* `receiver`: one parity block per group of two gives every way of completing a group
  (two data packets, either of them with the parity packet) and packets that
  arrive too late. The second group is there to have two decoders in the list.
  A `DecodeTimeout` of 0 ticks lets a decoder expire at the first tick that finds
  `serve_output` waiting.
* `ack_queue`: three cells are a head, a middle and an end. A packet is slow after one
  tick and overdue after two, so both counters move.
* `thread_pool`: four tasks in a ring of two make it go round; with one endless task
  one of two workers is left, and both sides of `TasksStart` and `DestroyReturns` occur.
  Deadlock is not checked there, nor in `reed_solomon`, because both systems end.
* `sender`: five packets are two groups and the start of a third. `GroupMod` is 8, so that
  `group_id` does not wrap within a session; the wrap is a subject of `rx_queue`.
* `reed_solomon`: the shape 4 + 2 has 15 choices of lost blocks. The field is that of the
  program. Bytes of a block are coded independently, so a block is one byte; the
  contents are 0, 1, a power of the generator and 255.

* `fec84`: everything is linear, so one block of one packet at a time, over all 32,
  determines the code; a group with all packets set is there as well. `Fec84Proofs`
  does not need that argument: it is about every content. `TablesAssumption` in
  `MCFec84` says that the two tables of the field are total; it holds by `MulOne` and
  `InverseMultiplies` there, and has TLC compute them once.
* `server`: the program starts in mode 0, so the second session is the first in which
  `monitor_ack` can set `enc`; what that leaves behind meets the end of the third, and
  a fourth is made after it. The texts are 0, -2, mode 4 and 20, 10, mode 3; the program
  starts with 8, 0, mode 0. Cut after one or two numbers they leave 20 + 0 or 20 + 10
  packets in mode 0, a negative sum and, in modes 3 and 4, fewer blocks than packets,
  besides those that go together. Deadlock is not checked: the process ends. One signal
  is enough, since the handler does not return.
* `paths`: with three addresses a type has none, one or several; six times let a list
  lose a cell while one is appended and the other thread sends. Deadlock is not
  checked because the times run out. Addresses are symmetric.

### Fairness

* `RxQueue`: weak fairness of each thread's `rx_send`, of a reset that has begun, and of the
  clock. Threads are scheduled, `main` always returns to `select`, and `monitor_rx` is an
  endless loop with a sleep. Nothing is assumed of the client. `Drains` needs no more,
  because every flush of either thread looks at the head's age.
* `Receiver`: strong fairness of `main`'s steps that wait for `rx_mutex`, because
  `monitor_rx` takes it again and again; it sleeps a tenth of `rx_timeout` between
  (fec.c:823), so `main` gets it in the end. Weak fairness of `monitor_rx`.
* `AckQueue`: weak fairness of `monitor_ack` and the clock; none of `main` or the client.
* `Server`: strong fairness of `main`'s own work and of the handler, which wait for
  mutexes that the monitors take between their sleeps; weak fairness of a monitor
  that holds one. None of `select` or of the two reads: clients may be silent for
  ever, and `MainReturns` says that nothing else keeps `main`.
* `ThreadPool`: weak fairness of each worker outside its wait and of main's joins. A wait
  ends only with a wake-up; spurious ones are possible and never assumed.

### Findings

* `rx_queue_sync`. The reset stores 0 to `rx_group_id` and `rx_index` without the mutex
  (server.c:297-298) before it empties the list (fec.c:1316). If `monitor_rx` writes a packet
  of the old session in between, it stores that packet's successor over the reset
  (fec.c:798-807). The new session starts from the old position, and its first
  packets are discarded as late (fec.c:701-705).
* `sender_index`. While no client is known, `serve_input` advances `enc->index` and then
  returns (fec.c:96-100) before the code that starts the next group (fec.c:164-178). The
  packet after a full group finds the index out of range, which the code reports
  as an error (fec.c:87), and the buffer of the first packet is overwritten. The run
  `sender` shows that the groups sent later are consistent all the same.

* `fec84_tail`. `encode` copies the data packets of a group into memory as long as the
  longest of them, zeroed (fec.c:432-433), and makes the length a multiple of 4
  afterwards (fec.c:436). `fec_encode` reads the longer length, up to three bytes
  behind each copy. The decoding side fills with zeros (fec.c:319-333), so those bytes
  are mixed into the packet it reconstructs. `gf_fun` adds the last block of a copy
  to several blocks of a parity packet, so bytes in the earlier blocks of the
  reconstructed packet are wrong, too, and not only its tail. The client is not part of this
  repository; the run takes both ends to be this code.

More things the properties of `server` and `paths` say exactly, by their
exceptions. `free_encoder` frees the encoder of an earlier session a second time if
`monitor_ack` sent nothing again in the session that ends (`FreedOnce`), and otherwise
leaves a session's encoder allocated if `enc` never pointed to it. `monitor_ack` may
use the encoder between `free_encoder` and `clean_all_ack`, and `main` after it failed
to read a configuration (`UsedEncoderWhole`). A client that is heard from one address
in mode 3 makes both threads take from one list of times, and a cell may be freed
twice (`TimesIntact`). SIGINT in the thread that holds `rx_mutex` blocks it for ever
(`Exits`). No comment or document says otherwise, so they are not listed as findings.

## 5. What is proved

TLAPS proves, for every value of the constants, every safety property that the runs
check of eight components, and that three of them implement their abstract
specification. Each component has one theorem `Invariance == Spec => []IInv` for its
inductive invariant; the others follow from it, by a case per action where they are
about steps. The only assumptions are those on the constants, which TLC evaluates:

| assumption | says | why the code justifies it |
|---|---|---|
| `PacketIdAssumption` | at least one group value and one packet per group | `group_id` is an `unsigned int`; `parse_config` raises `data_num` to 1 |
| `RxQueueAssumption`, `ReceiverAssumption`, `AckQueueAssumption`, `SenderAssumption`, `PathsAssumption` | sizes, counts and timeouts are naturals, a session has a packet | any configuration that is not negative |
| `ThreadPoolAssumption` | at least one thread and one slot | `threadpool_create` refuses anything else |
| `Fec84Assumption` | eight packets of four blocks each; at an offset of block 3 that is behind the end of the copies, no packet has a 1 | the copies are as long as the longest packet, and zeroed (fec.c:432); only the bytes that make the length a multiple of 4 (fec.c:436) are behind them |
| `ServerAssumption` | the three numbers of a text are integers; an encoder is made | `sscanf` gives any number, and `parse_config` raises only the first to 1 |

| module | theorems | of the properties |
|---|---|---|
| `RxQueueProofs` | `TypeCorrect`, `CounterExact`, `ListSorted`, `ListBounded`, `OnlyCopiesDelay`, `PositionExact`, `NothingLost`, `InOrder`, `ImplementsPromise` | `TypeOK`, `RxNumIsLength`, `Sorted`, `RxBounded`, `OnlyCopyDelays`, `ExpectedFollowsTun`, `DataPacketKept`, `WritesInOrder`, `Implements` |
| `ReceiverProofs` | `DecoderAlwaysKept`, `AlwaysHandedOnce`, `AlwaysHandedGenuine`, `AlwaysHandedComplete`, `QueueUsed`; `QueueKept`, `QueueDelivers` | `DecoderInUseKept`, `HandedOnce`, `HandedGenuine`, `HandedComplete`, `UsesRxQueue`; the properties of the queue, behind the decoders |
| `AckQueueProofs` | `ListAlwaysConsistent`, `NoneLeftOverdue`, `ParityAlwaysFollows`, `ImplementsPromise` | `ListConsistent`, `NoneOverdue`, `ParityFollows`, `Implements` |
| `ServerProofs` | `EncoderWhole`, `FreedOnlyOnce`, `DecoderAlwaysFits` | `UsedEncoderWhole`, `FreedOnce`, `DecoderFits` |
| `ThreadPoolProofs` | `RingAlwaysConsistent`, `AlwaysFreedAfterWorkers`, `ImplementsPromise` | `RingConsistent`, `FreedAfterWorkers`, `Implements` |
| `SenderProofs` | `AlwaysInSequence`, `PathsSeparate`, `GroupsDecode` | `InSequence`, `SeparatePaths`, `GroupDecodes` |
| `PathsProofs` | `ListsStayIntact` | `TimesIntact` |
| `Fec84Proofs` | `AlwaysRestores`, `AlwaysSingularIsLost`; `FunTimes`, `RecoverTimes`, `Distance`, `LostNonsingular` | `Restores`, `SingularIsLost`; the tables the code writes down, the generator matrix |

Lists are sequences. What `InsertAt` and `RemoveAt` do to the length and to each
element, and that the last place of a kind is of that kind, are lemmas at the
beginning of the modules that need them.

### The receive queue

The properties are not inductive one by one. `IInv` is their conjunction with

* `MutexInv`: a thread is inside `rx_send` exactly while it holds `rx_mutex`. Without it a
  flush of one thread could pull the head from under the other;
* `HeadInv`: past the loop condition the list is not empty, which `Tail` and `Head` need and
  which only `MutexInv` and the exact counter keep true across the other thread's steps;
* `RoomInv`: `RxBounded` strengthened by what `main` knows between the two halves of the
  break condition, since `main` returns from there and must leave room;
* `PositionInv`: what holds half-way through a write or a reset. Between the stores of
  `rx_send` only the group is the successor's; between the stores of a reset only the
  group is 0; the exception for `raced` is exactly where `monitor_rx` has interfered;
* `NoReadyHead` and `FreshInv`: when the mutex is free and `main` between two packets, the head
  is not in turn; and in a session that has written nothing, nothing waits that precedes
  the identity expected. `OnlyCopyDelays` follows with the order of the list: the head
  in front of a packet in turn precedes it and does not precede what was written,
  so it is a copy of the packet written last;
* `OrderInv`: nothing in the list precedes what was written, except after the last
  identity before `group_id` wraps. With the sortedness of the list it gives
  `WritesInOrder` when the head is written.

`ImplementsPromise` maps the list to the number of copies of each identity in it, the
head not counted between its write and its removal. The proof counts places instead
of copies: an insertion maps the places before it to places after it one to
one and adds one, the removal of a head that is written takes none away. A
successful `rx_insert` is then `Accept`, the write `Write`, the emptying `Reset`, and
everything else stutters. `Accept` asks that the packet follows everything written;
that is `PositionInv`, which a race does not spoil: nothing was written in the session then.
`Write` asks that nothing waiting precedes it; that is sortedness.

### The receiver

* `DecodersInv`: `receive_num` counts the blocks marked received, the repeating modes
  receive only data blocks, up to `data_num` packets the blocks hold what was
  received, and every decoder but the one being worked on has handed over
  what it can.
* `ServingInv`: what the decoder being worked on has handed over at each stage of
  `serve_output`, and that it is in the list. When `decode` runs, as many parity packets as
  missing data packets are there, for every `data_num` and `parity_num`
  (`EnoughParity`), so no zero-filled block is handed over.

`QueueUsed` shows that each step of the receiver is a step of `RxQueue` or leaves the queue
alone. The theorems of `RxQueueProofs` are then instantiated, and what they say of the
queue holds for the composed system: type, counter, order, bound, position
(`QueueKept`), order of writes, acceptance and the refinement (`QueueDelivers`).

### Acknowledgements

`ListConsistent` is inductive with `OutcomeInv` (what left the list was acknowledged or
expired, and what expired is not in it) and `ParityInv` (what the two counters of
`parity_status_fun` say of the last two delays). The refinement of `Retransmission` maps a
packet to its outcome; that timeouts come in the order of sending is the order of
ages in the list, and that a packet is settled at most once is `OutcomeInv`. The proof
corrected the abstract specification: with an `ack_timeout` of 0 a packet is late as
soon as it is sent.

### The session

* `ResetInv`: which lists are empty at which stage of the reset. `DecoderFits` depends on
  the decoders being gone before the configuration changes.
* `DecoderFits` itself. It supposes nothing of the numbers. Where they go together,
  `BlockNum` is at least what is walked and what is indexed and the coders accept them
  (`FitIsEnough`), so a step of `serve_input`, `serve_output`, `monitor_decoder` or
  `clean_all_decoder` stays inside; all four work by the configuration in force, and
  so do the decoders they meet.
* `AckInv`: `main` works with the last encoder made, every waiting packet points to it,
  and `monitor_ack` holds `ack_mutex` while it works on one. `clean_all_ack` takes that
  mutex, so `monitor_ack` never carries an encoder from one session to the next.
* `FreedInv`: which parts of the encoder are freed where the reset stands, and that `enc`
  is the session's encoder once `monitor_ack` has sent something again.

### The thread pool

* `WorkerInv`: `started` counts the workers that run, and the pool is freed when there is
  none.
* `ShutdownInv`: a worker leaves only after a shutdown, and after a graceful one only from
  an empty ring. `TaskQueue`'s `Stop` is allowed for this reason.
* `TaskInv`: `tail` is `count` places behind `head`, and a task is in one slot or with one
  worker. The ring is addressed by `Position`, the distance from `head` modulo the size; the
  lemmas about it say that `Advance` is a rotation.

The refinement of `TaskQueue` reads the ring from `head` as a sequence: `threadpool_add` appends
to it, `grab` takes its first element.

### The sender

* `BufferInv`: the buffers up to `index` hold the last packets taken.
* `WireInv`: the last packet sent has the identity in front of the next place, and
  consecutive packets consecutive identities, also when `group_id` wraps.
* `ParityInv`: parity blocks are computed from consecutive packets.
* `UdpInv`: an address is listed once, and nothing is sent before one is.

`GroupsDecode` needs one thing more: `NumberInv`, that a packet's place among those taken is
its number, `group_id * DataNum + index`, plus the same offset all session: the packets
taken before a client was known. It is proved for sessions in
which `group_id` does not wrap (`SessionFits`, at most `GroupMod * DataNum` packets): in a
longer one, packets of two groups have the same number, and the property, which looks at
the whole session, would be false. `group_id` has 2^32 values. The other theorems do not
need it.

### The paths

`main` appends to lists of times while `monitor_ack` takes from them, without a lock
in common. `TimesIntact` says that this goes well unless `monitor_ack` took the only
address there was (`alone`). The invariant says, as long as it did not:

* `ListsIntact(own)` for some `own`: every cell belongs to one address; a list grows at its
  end, by the latest cell of all; the cells in front of its head are freed and no
  others; a thread that is about to free a head has read its successor, which
  is still that;
* `NeverData`: the address `monitor_ack` works on is not the one `main` sends data by in
  mode 3, nor can later clients make it that, because new addresses come in front and the
  last of a type is chosen. So the two threads never take from one list;
* `ThreadInv` and `BoundsInv`: what each thread's program counter says of its address, and that
  cells are among those allocated. They hold whatever happens to the lists.

### The 8+4 code

The run `fec84` needs linearity to go from 35 groups to all of them. The proof
covers every content of the eight packets, every loss of four packets, in
five parts:

* **The field.** `_gf_mul` is given bit by bit (`MulBits`); the laws of a field follow by
  propositional reasoning about the bits (`MulCommutes`, `MulDistributes`, `MulAssociates`,
  `MulOne`), and that everything but zero has an inverse (`InverseMultiplies`).
* **The code multiplies.** `gf_fun` and `recover_packet` contain no multiplication: the
  exclusive ors are written out for 32 pairs of packets and for 15 coefficients.
  `FunTimes` and `RecoverTimes` say that each of these tables is the product with its
  coefficient, for every content. `TablesAgree` compares the two tables; a wrong block
  in either would make it false.
* **The distance of the code.** A word with at most four packets that are not zero is
  zero (`Distance`). Then no four lost packets have a singular matrix
  (`LostNonsingular`). The code relies on this for all 494 losses with a data
  packet, and never looks whether `inverse_matrix` returned NULL.
* **The inversion.** The step of a column is followed as a step on equations. If
  two matrices map two vectors to the same, they do so afterwards (`StepSame`); the
  columns done are those of the identity (`StepUnit`); the matrix stays regular
  (`StepNonsingular`), so a regular one has a pivot in the next column (`PivotExists`).
* **The invariant** `Inv` of the decoder: the matrix applied to the lost packets is the
  other matrix applied to what `gf_fun` left of the packets that arrived. That is
  `SingularIsLost` before the first column; after the last the first matrix is the
  identity (`UnitDone`), and the rows of the other give the lost packets. The last lost
  data packet is taken from the first parity packet if that is there (`OthersAre`),
  which needs the packets recovered before it: `PacketsInv` says in which order they
  become what was sent.

All of it is under the exception that `fec84_tail` is about: nothing but zeros behind
the end of the packets (`stale = {}`). That a pivot is found holds without it.

### Only model-checked

* Liveness (`Drains`, `ServeReturns`, `Settled`, `TasksStart`, `DestroyReturns`, `MainReturns`, `Exits`): the prover does not
  reason about fairness and `ENABLED`.
* `Reconstructs`, `NeverSingular` and `TablesMultiply` of `ReedSolomon`. The code builds its tables,
  its matrices and their inverses in loops whose number of rounds is data, the model
  with folds, and what these compute for every input needs an
  induction over data that the prover cannot do. The 8+4 code has a fixed size, which
  is why its proof can do without. That a Vandermonde matrix of any size is regular is
  besides a theorem about polynomials of any degree.

## 6. What is not modelled, and why

* `parity_status_wait` and `get_groupId`: nothing calls them.
* The content of a new encoder's buffers where `free_encoder_buffers` frees it in the
  first group (fec.c:1202, 1211): it is what `malloc` returned, and the code does not
  exclude any of it. `Sender` has a value for such a buffer and shows that no parity
  block is computed from one.
* The descriptors of accepted connections, which are never closed (server.c:267).
* Acknowledgements of the session before that take a packet of the new one off the
  list (fec.c:233): `AckQueue` lets them come, but their identity does not tell them
  apart, so no property does.
* Statistics, printing, the text of the other fields of the configuration, sockets, the TUN device and
  iptables: input and output, on which no property depends.
* The bytes of headers and packets, and the vector instructions of `fec84.c`.
* What happens after an overrun or a double release: memory is no longer the
  program's. Bytes inside a block are not counted either, so `Unfit` is about
  the number of blocks only. The parity coder of mode 1 gives up on more than 255
  (rs.c:709), which `Server` counts as an overrun. A sum of two numbers that
  exceeds an `int` wraps in the code and not in the model.
* The walk of `free_encoder_buffers` over `data_num` buffers of an encoder that was made
  for fewer: it needs an encoder of an earlier session in `enc` (`FreedOnce`).
* Failures of `malloc`, and of pthread calls other than `pthread_create`.
* A configuration with more than 255 blocks per group: `reed_solomon_new` returns NULL
  for it (rs.c:709) and `reed_solomon_encode2` reads through it (rs.c:910).
  `ReedSolomonAssumption` excludes it. A Reed-Solomon object is made per group and never
  released (fec.c:467, 505), which no model counts.
