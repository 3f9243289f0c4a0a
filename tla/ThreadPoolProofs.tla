-------------------------- MODULE ThreadPoolProofs ---------------------------
(***************************************************************************)
(* The thread pool for every number of threads, every size of the ring and *)
(* every set of tasks: its indices agree, its memory goes when no worker   *)
(* uses it any more, and it keeps the promise of TaskQueue.                *)
(***************************************************************************)
EXTENDS ThreadPool, SequenceTheorems, FiniteSetTheorems, TLAPS

(* The threads that run, which started counts: those created that did not  *)
(* leave yet.                                                              *)
Alive == {w \in Worker : thread[w] \notin {"none", "exit"}}

WorkerInv ==
  /\ \A w \in Worker : thread[w] = "none" <=> w > thread_count
  /\ started = Cardinality(Alive)
  /\ main_pc = "create" <=> thread_count < ThreadCount /\ shutdown = "no"
  /\ main_pc = "freed" => Alive = {}
  /\ main_pc # "kept"

(* The pool is shut down when main left it, a worker leaves only then, and *)
(* after a graceful shutdown only from an empty ring.                      *)
ShutdownInv ==
  /\ shutdown = "no" <=> main_pc \in {"create", "ready"}
  /\ shutdown = "graceful" => thread_count = ThreadCount
  /\ \A w \in Worker : thread[w] = "exit" =>
       shutdown # "no" /\ (shutdown = "graceful" => count = 0)

(* The i-th slot of the ring from h on, where h itself is number 0.        *)
Position(h, i) == (h + i) % QueueSize

(* A task is in one slot or with one worker.                               *)
TaskInv ==
  /\ tail = Position(head, count)
  /\ \A i \in 0 .. count - 1 : queue[Position(head, i)] \in added
  /\ \A i, j \in 0 .. count - 1 : queue[Position(head, i)] = queue[Position(head, j)] => i = j
  /\ \A w \in Worker : thread[w] = "work" => task[w] \in added
  /\ \A w \in Worker, i \in 0 .. count - 1 :
       thread[w] = "work" => queue[Position(head, i)] # task[w]
  /\ \A v, w \in Worker :
       thread[v] = "work" /\ thread[w] = "work" /\ task[v] = task[w] => v = w

IInv == TypeOK /\ WorkerInv /\ ShutdownInv /\ TaskInv
-----------------------------------------------------------------------------
(* The arithmetic of the ring. *)
LEMMA PositionFacts ==
  ASSUME NEW h \in Slot, NEW i \in 0 .. QueueSize
  PROVE  /\ Position(h, i) = IF h + i < QueueSize THEN h + i ELSE h + i - QueueSize
         /\ Position(h, i) \in Slot
<1>1. QueueSize \in Nat \ {0}
  BY ThreadPoolAssumption
<1>2. ASSUME NEW n \in Nat \ {0}, NEW a \in 0 .. n - 1
      PROVE  a % n = a
  OBVIOUS
<1>3. ASSUME NEW n \in Nat \ {0}, NEW a \in n .. 2 * n - 1
      PROVE  a % n = a - n
  OBVIOUS
<1>4. CASE h + i < QueueSize
  <2>1. h + i \in 0 .. QueueSize - 1
    BY <1>1, <1>4 DEF Slot
  <2> QED
    BY <1>1, <1>2, <1>4, <2>1 DEF Position, Slot
<1>5. CASE ~(h + i < QueueSize)
  <2>1. h + i \in QueueSize .. 2 * QueueSize - 1
    BY <1>1, <1>5 DEF Slot
  <2>2. (h + i) % QueueSize = (h + i) - QueueSize
    BY <1>1, <1>3, <2>1
  <2>3. Position(h, i) = (h + i) - QueueSize
    BY <2>2 DEF Position
  <2> QED
    BY <1>1, <1>5, <2>1, <2>3 DEF Slot
<1> QED
  BY <1>4, <1>5

LEMMA AdvanceFacts ==
  ASSUME NEW h \in Slot
  PROVE  /\ Position(h, 0) = h
         /\ Advance(h) \in Slot
         /\ \A i \in 0 .. QueueSize - 1 :
              /\ Advance(Position(h, i)) = Position(h, i + 1)
              /\ Position(Advance(h), i) = Position(h, i + 1)
<1>1. QueueSize \in Nat \ {0}
  BY ThreadPoolAssumption
<1>2. \A g \in Slot : Advance(g) = Position(g, 1)
  BY DEF Advance, Position
<1>3. \A g \in Slot : Advance(g) = IF g + 1 < QueueSize THEN g + 1 ELSE 0
  <2> SUFFICES ASSUME NEW g \in Slot
               PROVE  Advance(g) = IF g + 1 < QueueSize THEN g + 1 ELSE 0
    OBVIOUS
  <2>1. 1 \in 0 .. QueueSize
    BY <1>1
  <2> QED
    BY <1>1, <1>2, <2>1, PositionFacts DEF Slot
<1>4. Position(h, 0) = h
  <2>1. 0 \in 0 .. QueueSize
    BY <1>1
  <2> QED
    BY <1>1, <2>1, PositionFacts DEF Slot
<1>5. Advance(h) \in Slot
  BY <1>1, <1>3 DEF Slot
<1>6. ASSUME NEW i \in 0 .. QueueSize - 1
      PROVE  /\ Advance(Position(h, i)) = Position(h, i + 1)
             /\ Position(Advance(h), i) = Position(h, i + 1)
  <2>1. i \in 0 .. QueueSize /\ i + 1 \in 0 .. QueueSize
    BY <1>1
  <2>2. /\ Position(h, i) = IF h + i < QueueSize THEN h + i ELSE h + i - QueueSize
        /\ Position(h, i) \in Slot
        /\ Position(h, i + 1) = IF h + (i + 1) < QueueSize THEN h + (i + 1)
                                ELSE h + (i + 1) - QueueSize
    BY <2>1, PositionFacts
  <2>3. Position(Advance(h), i) = IF Advance(h) + i < QueueSize THEN Advance(h) + i
                                  ELSE Advance(h) + i - QueueSize
    BY <1>5, <2>1, PositionFacts
  <2>4. Advance(Position(h, i)) = Position(h, i + 1)
    BY <1>1, <1>3, <2>2 DEF Slot
  <2>5. Position(Advance(h), i) = Position(h, i + 1)
    BY <1>1, <1>3, <2>2, <2>3 DEF Slot
  <2> QED
    BY <2>4, <2>5
<1> QED
  BY <1>4, <1>5, <1>6

LEMMA PositionsDiffer ==
  ASSUME NEW h \in Slot, NEW i \in 0 .. QueueSize - 1, NEW j \in 0 .. QueueSize - 1,
         i # j
  PROVE  Position(h, i) # Position(h, j)
<1>1. QueueSize \in Nat \ {0}
  BY ThreadPoolAssumption
<1>2. i \in 0 .. QueueSize /\ j \in 0 .. QueueSize
  BY <1>1
<1>3. /\ Position(h, i) = IF h + i < QueueSize THEN h + i ELSE h + i - QueueSize
      /\ Position(h, j) = IF h + j < QueueSize THEN h + j ELSE h + j - QueueSize
  BY <1>2, PositionFacts
<1> QED
  BY <1>1, <1>3 DEF Slot
-----------------------------------------------------------------------------
(* Of the threads finitely many run. *)
LEMMA WorkersFinite ==
  ASSUME NEW S \in SUBSET Worker
  PROVE  /\ IsFiniteSet(S)
         /\ Cardinality(S) \in 0 .. ThreadCount
<1>1. ThreadCount \in Nat
  BY ThreadPoolAssumption
<1>2. IsFiniteSet(Worker) /\ Cardinality(Worker) = ThreadCount
  BY <1>1, FS_Interval DEF Worker
<1> QED
  BY <1>1, <1>2, FS_Subset, FS_CardinalityType

(* Waking threads up changes nothing else about them.                      *)
Woken == \A w \in Worker :
  thread'[w] = thread[w] \/ (thread[w] = "wait" /\ thread'[w] = "lock")

LEMMA WakeFacts ==
  ASSUME TypeOK, Signal \/ Broadcast
  PROVE  /\ thread' \in [Worker -> {"none", "lock", "wait", "work", "exit"}]
         /\ Woken
BY DEF TypeOK, Signal, Broadcast, Woken

LEMMA WokenAlive ==
  ASSUME Woken
  PROVE  Alive' = Alive
BY DEF Woken, Alive

(* Where no task is added, taken or given back, none is in two places.     *)
LEMMA TasksKept ==
  ASSUME TaskInv, UNCHANGED <<ring_vars, task, added>>,
         \A w \in Worker : thread'[w] = "work" => thread[w] = "work"
  PROVE  TaskInv'
BY DEF TaskInv, ring_vars, Position
-----------------------------------------------------------------------------
THEOREM InitIInv == Init => IInv
<1> SUFFICES ASSUME Init PROVE IInv
  OBVIOUS
<1>1. QueueSize \in Nat \ {0} /\ ThreadCount \in Nat \ {0}
  BY ThreadPoolAssumption
<1>2. TypeOK
  BY <1>1 DEF Init, TypeOK, Slot
<1>3. WorkerInv
  <2>1. Alive = {}
    BY DEF Init, Alive
  <2>2. Cardinality(Alive) = 0
    BY <2>1, FS_EmptySet
  <2> QED
    BY <1>1, <2>1, <2>2 DEF Init, WorkerInv, Worker
<1>4. ShutdownInv
  BY DEF Init, ShutdownInv
<1>5. TaskInv
  <2>1. 0 \in Slot
    BY <1>1 DEF Slot
  <2>2. tail = Position(head, count)
    BY <2>1, AdvanceFacts DEF Init
  <2>3. 0 .. count - 1 = {}
    BY DEF Init
  <2> QED
    BY <2>2, <2>3 DEF Init, TaskInv
<1> QED
  BY <1>2, <1>3, <1>4, <1>5 DEF IInv

LEMMA CreateStep ==
  ASSUME IInv, threadpool_create
  PROVE  IInv'
<1>1. ThreadCount \in Nat \ {0}
  BY ThreadPoolAssumption
<1> DEFINE w == thread_count + 1
<1>2. w \in Worker /\ thread[w] = "none" /\ thread_count < ThreadCount
  BY <1>1 DEF IInv, TypeOK, WorkerInv, Worker, threadpool_create
<1>3. /\ thread' = [thread EXCEPT ![w] = "lock"]
      /\ thread' \in [Worker -> {"none", "lock", "wait", "work", "exit"}]
  BY <1>2 DEF IInv, TypeOK, threadpool_create
<1>4. started' = Cardinality(Alive')
  <2>1. Alive' = Alive \cup {w} /\ w \notin Alive
    BY <1>2, <1>3 DEF Alive, IInv, TypeOK
  <2>2. Alive \in SUBSET Worker
    BY DEF Alive
  <2>3. Cardinality(Alive \cup {w}) = Cardinality(Alive) + 1
    BY <2>1, <2>2, WorkersFinite, FS_AddElement
  <2> QED
    BY <2>1, <2>3 DEF IInv, WorkerInv, threadpool_create
<1>5. TypeOK'
  <2>1. Alive' \in SUBSET Worker
    BY DEF Alive, Worker
  <2>2. started' \in 0 .. ThreadCount
    BY <1>4, <2>1, WorkersFinite
  <2> QED
    BY <1>1, <1>2, <1>3, <2>2 DEF IInv, TypeOK, threadpool_create, ring_vars
<1>6. WorkerInv'
  <2>1. ASSUME NEW v \in Worker
        PROVE  thread'[v] = "none" <=> v > thread_count'
    BY <1>1, <1>2, <1>3 DEF IInv, TypeOK, WorkerInv, Worker, threadpool_create
  <2>2. main_pc' = "create" <=> thread_count' < ThreadCount /\ shutdown' = "no"
    BY <1>1, <1>2 DEF IInv, TypeOK, WorkerInv, threadpool_create
  <2> QED
    BY <1>4, <2>1, <2>2 DEF WorkerInv, threadpool_create
<1>7. ShutdownInv'
  BY <1>2, <1>3 DEF IInv, TypeOK, ShutdownInv, threadpool_create
<1>8. TaskInv'
  <2>1. \A v \in Worker : thread'[v] = "work" => thread[v] = "work"
    BY <1>3 DEF IInv, TypeOK
  <2> QED
    BY <2>1, TasksKept DEF IInv, threadpool_create
<1> QED
  BY <1>5, <1>6, <1>7, <1>8 DEF IInv

LEMMA DestroyStep ==
  ASSUME IInv, create_failed \/ threadpool_destroy
  PROVE  IInv'
<1>1. PICK kind \in {"graceful", "immediate"} : Destroy(kind)
  BY DEF create_failed, threadpool_destroy
<1>2. /\ thread' \in [Worker -> {"none", "lock", "wait", "work", "exit"}]
      /\ Woken
      /\ Alive' = Alive
  BY <1>1, WakeFacts, WokenAlive DEF Destroy, IInv
<1>3. TypeOK'
  BY <1>1, <1>2 DEF IInv, TypeOK, Destroy, ring_vars
<1>4. WorkerInv'
  BY <1>1, <1>2 DEF IInv, WorkerInv, Destroy, Woken
<1>5. ShutdownInv'
  <2>1. main_pc \in {"create", "ready"} /\ shutdown = "no"
    BY DEF create_failed, threadpool_destroy, IInv, ShutdownInv
  <2>2. \A w \in Worker : thread'[w] # "exit"
    BY <1>2, <2>1 DEF IInv, ShutdownInv, Woken
  <2>3. shutdown' = "graceful" => thread_count = ThreadCount
    <3>1. ThreadCount \in Nat
      BY ThreadPoolAssumption
    <3> QED
      BY <2>1, <3>1 DEF IInv, TypeOK, WorkerInv, create_failed, threadpool_destroy, Destroy
  <2> QED
    BY <1>1, <2>1, <2>2, <2>3 DEF ShutdownInv, Destroy
<1>6. TaskInv'
  BY <1>1, <1>2, TasksKept DEF IInv, Destroy, Woken
<1> QED
  BY <1>3, <1>4, <1>5, <1>6 DEF IInv

LEMMA AddStep ==
  ASSUME IInv, NEW t \in Task, threadpool_add(t)
  PROVE  IInv'
<1>1. QueueSize \in Nat \ {0}
  BY ThreadPoolAssumption
<1>2. /\ thread' \in [Worker -> {"none", "lock", "wait", "work", "exit"}]
      /\ Woken
      /\ Alive' = Alive
  BY WakeFacts, WokenAlive DEF threadpool_add, IInv
<1>3. count \in 0 .. QueueSize - 1 /\ count' = count + 1
  BY <1>1 DEF IInv, TypeOK, threadpool_add, Full
<1>4. /\ tail = Position(head, count)
      /\ tail' = Position(head, count')
      /\ tail' \in Slot
  BY <1>1, <1>3, AdvanceFacts DEF IInv, TypeOK, TaskInv, threadpool_add
<1>5. /\ queue'[Position(head, count)] = t
      /\ \A i \in 0 .. count - 1 : queue'[Position(head, i)] = queue[Position(head, i)]
  <2>1. \A i \in 0 .. count - 1 : i \in 0 .. QueueSize - 1 /\ i \in 0 .. QueueSize /\ i # count
    BY <1>1, <1>3
  <2>2. \A i \in 0 .. count - 1 : Position(head, i) \in Slot /\ Position(head, i) # tail
    BY <1>3, <1>4, <2>1, PositionFacts, PositionsDiffer DEF IInv, TypeOK
  <2> QED
    BY <1>4, <2>2 DEF IInv, TypeOK, threadpool_add
<1>6. TypeOK'
  BY <1>1, <1>2, <1>3, <1>4 DEF IInv, TypeOK, threadpool_add
<1>7. WorkerInv'
  BY <1>2 DEF IInv, WorkerInv, threadpool_add, Woken
<1>8. ShutdownInv'
  BY <1>2 DEF IInv, ShutdownInv, threadpool_add, Woken
<1>9. TaskInv'
  <2>1. 0 .. count' - 1 = (0 .. count - 1) \cup {count}
    BY <1>3
  <2>2. \A i \in 0 .. count - 1 : queue[Position(head, i)] # t
    BY DEF IInv, TaskInv, threadpool_add
  <2>3. \A w \in Worker : thread'[w] = "work" => thread[w] = "work" /\ task[w] # t
    BY <1>2 DEF Woken, IInv, TaskInv, threadpool_add
  <2>4. head' = head /\ task' = task /\ added' = added \cup {t}
    BY DEF threadpool_add
  <2>5. /\ \A i \in 0 .. count' - 1 : queue'[Position(head', i)] \in added'
        /\ \A i, j \in 0 .. count' - 1 :
             queue'[Position(head', i)] = queue'[Position(head', j)] => i = j
    BY <1>5, <2>1, <2>2, <2>4 DEF IInv, TaskInv
  <2>6. \A w \in Worker, i \in 0 .. count' - 1 :
          thread'[w] = "work" => queue'[Position(head', i)] # task'[w]
    BY <1>5, <2>1, <2>3, <2>4 DEF IInv, TaskInv
  <2>7. /\ \A w \in Worker : thread'[w] = "work" => task'[w] \in added'
        /\ \A v, w \in Worker :
             thread'[v] = "work" /\ thread'[w] = "work" /\ task'[v] = task'[w] => v = w
    BY <2>3, <2>4 DEF IInv, TaskInv
  <2>8. tail' = Position(head', count')
    BY <1>4, <2>4
  <2> QED
    BY <2>5, <2>6, <2>7, <2>8 DEF TaskInv, Position
<1> QED
  BY <1>6, <1>7, <1>8, <1>9 DEF IInv

LEMMA FreeStep ==
  ASSUME IInv, threadpool_free
  PROVE  IInv' /\ main_pc' = "freed"
<1>1. Alive = {}
  <2>1. ASSUME NEW w \in Worker PROVE thread[w] \in {"none", "exit"}
    BY DEF IInv, TypeOK, WorkerInv, Worker, threadpool_free, Joined
  <2> QED
    BY <2>1 DEF Alive
<1>2. started = 0
  BY <1>1, FS_EmptySet DEF IInv, WorkerInv
<1>3. main_pc' = "freed"
  BY <1>2 DEF threadpool_free
<1>4. TypeOK'
  BY <1>3 DEF IInv, TypeOK, threadpool_free, ring_vars
<1>5. Alive' = Alive
  BY DEF Alive, threadpool_free
<1>6. WorkerInv'
  BY <1>1, <1>3, <1>5 DEF IInv, WorkerInv, ShutdownInv, threadpool_free
<1>7. ShutdownInv'
  BY <1>3 DEF IInv, ShutdownInv, threadpool_free, ring_vars
<1>8. TaskInv'
  BY TasksKept DEF IInv, threadpool_free
<1> QED
  BY <1>3, <1>4, <1>6, <1>7, <1>8 DEF IInv

LEMMA WaitStep ==
  ASSUME IInv, NEW w \in Worker,
         (threadpool_thread(w) /\ wait(w)) \/ spurious_wakeup(w)
  PROVE  IInv'
<1>1. /\ thread[w] \in {"lock", "wait"}
      /\ \E at \in {"lock", "wait"} : thread' = [thread EXCEPT ![w] = at]
      /\ UNCHANGED <<ring_vars, shutdown, thread_count, started, task, main_pc, added>>
  BY DEF threadpool_thread, wait, spurious_wakeup
<1>2. Alive' = Alive
  BY <1>1 DEF Alive, IInv, TypeOK
<1>3. TypeOK'
  BY <1>1 DEF IInv, TypeOK, ring_vars
<1>4. WorkerInv'
  BY <1>1, <1>2 DEF IInv, TypeOK, WorkerInv
<1>5. ShutdownInv'
  BY <1>1 DEF IInv, TypeOK, ShutdownInv, ring_vars
<1>6. TaskInv'
  <2>1. \A v \in Worker : thread'[v] = "work" => thread[v] = "work"
    BY <1>1 DEF IInv, TypeOK
  <2> QED
    BY <1>1, <2>1, TasksKept DEF IInv
<1> QED
  BY <1>3, <1>4, <1>5, <1>6 DEF IInv

LEMMA LeaveStep ==
  ASSUME IInv, NEW w \in Worker, threadpool_thread(w), leave(w)
  PROVE  IInv'
<1>1. /\ thread[w] = "lock"
      /\ thread' = [thread EXCEPT ![w] = "exit"]
      /\ thread' \in [Worker -> {"none", "lock", "wait", "work", "exit"}]
  BY DEF threadpool_thread, leave, IInv, TypeOK
<1>2. started' = Cardinality(Alive')
  <2>1. Alive' = Alive \ {w} /\ w \in Alive
    BY <1>1 DEF Alive, IInv, TypeOK
  <2>2. Alive \in SUBSET Worker
    BY DEF Alive
  <2>3. Cardinality(Alive \ {w}) = Cardinality(Alive) - 1
    BY <2>1, <2>2, WorkersFinite, FS_RemoveElement
  <2> QED
    BY <2>1, <2>3 DEF IInv, WorkerInv, leave
<1>3. TypeOK'
  <2>1. Alive' \in SUBSET Worker
    BY DEF Alive, Worker
  <2>2. started' \in 0 .. ThreadCount
    BY <1>2, <2>1, WorkersFinite
  <2> QED
    BY <1>1, <2>2 DEF IInv, TypeOK, threadpool_thread, leave, ring_vars
<1>4. WorkerInv'
  <2>1. main_pc # "freed"
    BY <1>1 DEF IInv, WorkerInv, Alive
  <2> QED
    BY <1>1, <1>2, <2>1 DEF IInv, TypeOK, WorkerInv, threadpool_thread
<1>5. ShutdownInv'
  <2>1. shutdown # "no" /\ (shutdown = "graceful" => count = 0)
    BY DEF leave, Leaving, IInv, TypeOK
  <2> QED
    BY <1>1, <2>1 DEF IInv, ShutdownInv, threadpool_thread, leave, ring_vars
<1>6. TaskInv'
  <2>1. \A v \in Worker : thread'[v] = "work" => thread[v] = "work"
    BY <1>1 DEF IInv, TypeOK
  <2> QED
    BY <2>1, TasksKept DEF IInv, threadpool_thread, leave
<1> QED
  BY <1>3, <1>4, <1>5, <1>6 DEF IInv

(* The ring of the tasks after a worker took the first.                    *)
LEMMA GrabFacts ==
  ASSUME IInv, NEW w \in Worker, threadpool_thread(w), grab(w)
  PROVE  /\ count \in 1 .. QueueSize
         /\ count' = count - 1
         /\ head' \in Slot
         /\ task'[w] = queue[Position(head, 0)]
         /\ \A v \in Worker \ {w} : task'[v] = task[v]
         /\ Position(head', count') = Position(head, count)
         /\ \A i \in 0 .. count' - 1 :
              /\ i + 1 \in 0 .. count - 1
              /\ queue'[Position(head', i)] = queue[Position(head, i + 1)]
<1>1. QueueSize \in Nat \ {0}
  BY ThreadPoolAssumption
<1>2. /\ count \in 1 .. QueueSize
      /\ count' = count - 1
      /\ head \in Slot
      /\ head' = Advance(head)
      /\ queue' = queue
  BY <1>1 DEF IInv, TypeOK, grab
<1>3. \A i \in 0 .. QueueSize - 1 : Position(Advance(head), i) = Position(head, i + 1)
  BY <1>2, AdvanceFacts
<1>4. head' \in Slot
  BY <1>2, AdvanceFacts
<1>5. task'[w] = queue[Position(head, 0)] /\ \A v \in Worker \ {w} : task'[v] = task[v]
  BY <1>2, AdvanceFacts DEF IInv, TypeOK, grab
<1>6. Position(head', count') = Position(head, count)
  <2>1. count - 1 \in 0 .. QueueSize - 1 /\ (count - 1) + 1 = count
    BY <1>1, <1>2
  <2>2. Position(Advance(head), count - 1) = Position(head, (count - 1) + 1)
    BY <1>3, <2>1
  <2> QED
    BY <1>2, <2>1, <2>2
<1>7. ASSUME NEW i \in 0 .. count' - 1
      PROVE  /\ i + 1 \in 0 .. count - 1
             /\ queue'[Position(head', i)] = queue[Position(head, i + 1)]
  <2>1. i \in 0 .. QueueSize - 1 /\ i + 1 \in 0 .. count - 1
    BY <1>1, <1>2
  <2> QED
    BY <1>2, <1>3, <2>1
<1> QED
  BY <1>2, <1>4, <1>5, <1>6, <1>7

LEMMA GrabStep ==
  ASSUME IInv, NEW w \in Worker, threadpool_thread(w), grab(w)
  PROVE  IInv'
<1>1. QueueSize \in Nat \ {0}
  BY ThreadPoolAssumption
<1>2. /\ thread[w] = "lock"
      /\ thread' = [thread EXCEPT ![w] = "work"]
      /\ thread' \in [Worker -> {"none", "lock", "wait", "work", "exit"}]
  BY DEF threadpool_thread, grab, IInv, TypeOK
<1>3. TypeOK'
  <2>1. head \in Slot /\ queue[head] \in Task \cup {NoTask}
    BY DEF IInv, TypeOK
  <2>2. task' \in [Worker -> Task \cup {NoTask}]
    BY <2>1 DEF IInv, TypeOK, grab
  <2>3. head' \in Slot /\ count' \in 0 .. QueueSize
    BY <1>1, GrabFacts
  <2> QED
    BY <1>2, <2>2, <2>3 DEF IInv, TypeOK, threadpool_thread, grab
<1>4. WorkerInv'
  <2>1. Alive' = Alive
    BY <1>2 DEF Alive, IInv, TypeOK
  <2> QED
    BY <1>2, <2>1 DEF IInv, TypeOK, WorkerInv, threadpool_thread, grab
<1>5. ShutdownInv'
  <2>1. \A v \in Worker : thread'[v] = "exit" => thread[v] = "exit"
    BY <1>2 DEF IInv, TypeOK
  <2>2. \A v \in Worker : thread[v] = "exit" => shutdown # "graceful"
    BY <1>1, GrabFacts DEF IInv, ShutdownInv
  <2> QED
    BY <2>1, <2>2 DEF IInv, ShutdownInv, threadpool_thread, grab
<1>6. TaskInv'
  <2>1. 0 \in 0 .. count - 1
    BY <1>1, GrabFacts
  <2>2. /\ queue[Position(head, 0)] \in added
        /\ \A v \in Worker : thread[v] = "work" => queue[Position(head, 0)] # task[v]
    BY <2>1 DEF IInv, TaskInv
  <2>3. tail' = Position(head', count')
    BY GrabFacts DEF IInv, TaskInv, grab
  <2>4. added' = added
    BY DEF threadpool_thread
  <2>5. ASSUME NEW i \in 0 .. count' - 1
        PROVE  /\ queue'[Position(head', i)] \in added'
               /\ \A v \in Worker : thread'[v] = "work" =>
                    queue'[Position(head', i)] # task'[v]
    <3>1. /\ i + 1 \in 0 .. count - 1
          /\ queue'[Position(head', i)] = queue[Position(head, i + 1)]
      BY GrabFacts
    <3>2. i \in Nat /\ i + 1 # 0
      BY <1>1, GrabFacts
    <3>3. queue[Position(head, i + 1)] # queue[Position(head, 0)]
      BY <2>1, <3>1, <3>2 DEF IInv, TaskInv
    <3>4. ASSUME NEW v \in Worker, thread'[v] = "work"
          PROVE  queue'[Position(head', i)] # task'[v]
      BY <1>2, <3>1, <3>3, <3>4, GrabFacts DEF IInv, TaskInv, TypeOK
    <3> QED
      BY <2>4, <3>1, <3>4 DEF IInv, TaskInv
  <2>6. ASSUME NEW i \in 0 .. count' - 1, NEW j \in 0 .. count' - 1,
               queue'[Position(head', i)] = queue'[Position(head', j)]
        PROVE  i = j
    <3>1. /\ i + 1 \in 0 .. count - 1 /\ j + 1 \in 0 .. count - 1
          /\ queue[Position(head, i + 1)] = queue[Position(head, j + 1)]
      BY <2>6, GrabFacts
    <3>2. i + 1 = j + 1
      BY <3>1 DEF IInv, TaskInv
    <3> QED
      BY <1>1, <3>2, GrabFacts
  <2>7. ASSUME NEW v \in Worker, thread'[v] = "work"
        PROVE  task'[v] \in added'
    BY <1>2, <2>2, <2>4, <2>7, GrabFacts DEF IInv, TaskInv, TypeOK
  <2>8. ASSUME NEW u \in Worker, NEW v \in Worker,
               thread'[u] = "work", thread'[v] = "work", task'[u] = task'[v]
        PROVE  u = v
    BY <1>2, <2>2, <2>8, GrabFacts DEF IInv, TaskInv, TypeOK
  <2> QED
    BY <2>3, <2>5, <2>6, <2>7, <2>8 DEF TaskInv, Position
<1> QED
  BY <1>3, <1>4, <1>5, <1>6 DEF IInv

LEMMA WorkStep ==
  ASSUME IInv, NEW w \in Worker, work(w)
  PROVE  IInv'
<1>1. /\ thread[w] = "work"
      /\ thread' = [thread EXCEPT ![w] = "lock"]
      /\ task' = [task EXCEPT ![w] = NoTask]
      /\ UNCHANGED <<ring_vars, shutdown, thread_count, started, main_pc, added>>
  BY DEF work
<1>2. Alive' = Alive
  BY <1>1 DEF Alive, IInv, TypeOK
<1>3. TypeOK'
  BY <1>1 DEF IInv, TypeOK, ring_vars
<1>4. WorkerInv'
  BY <1>1, <1>2 DEF IInv, TypeOK, WorkerInv
<1>5. ShutdownInv'
  BY <1>1 DEF IInv, TypeOK, ShutdownInv, ring_vars
<1>6. TaskInv'
  <2>1. \A v \in Worker : thread'[v] = "work" => thread[v] = "work" /\ task'[v] = task[v]
    BY <1>1 DEF IInv, TypeOK
  <2> QED
    BY <1>1, <2>1 DEF IInv, TaskInv, ring_vars, Position
<1> QED
  BY <1>3, <1>4, <1>5, <1>6 DEF IInv
-----------------------------------------------------------------------------
(* The inductive invariant: the indices of the ring, the counters of the   *)
(* threads and the place of every task, after every step.                  *)
THEOREM Invariance == Spec => []IInv
<1>1. Init => IInv
  BY InitIInv
<1>2. IInv /\ [Next]_vars => IInv'
  <2> SUFFICES ASSUME IInv, [Next]_vars PROVE IInv'
    OBVIOUS
  <2>1. CASE threadpool_create
    BY <2>1, CreateStep
  <2>2. CASE create_failed \/ threadpool_destroy
    BY <2>2, DestroyStep
  <2>3. CASE \E t \in Task : threadpool_add(t)
    BY <2>3, AddStep
  <2>4. CASE threadpool_free
    BY <2>4, FreeStep
  <2>5. ASSUME NEW w \in Worker, threadpool_thread(w)
        PROVE  IInv'
    <3>1. CASE wait(w)
      BY <2>5, <3>1, WaitStep
    <3>2. CASE leave(w)
      BY <2>5, <3>2, LeaveStep
    <3>3. CASE grab(w)
      BY <2>5, <3>3, GrabStep
    <3> QED
      BY <2>5, <3>1, <3>2, <3>3 DEF threadpool_thread
  <2>6. CASE \E w \in Worker : spurious_wakeup(w)
    BY <2>6, WaitStep
  <2>7. CASE \E w \in Worker : work(w)
    BY <2>7, WorkStep
  <2>8. CASE UNCHANGED vars
    <3>1. TypeOK'
      BY <2>8 DEF IInv, TypeOK, vars, ring_vars
    <3>2. WorkerInv'
      BY <2>8 DEF IInv, WorkerInv, Alive, vars, ring_vars
    <3>3. ShutdownInv'
      BY <2>8 DEF IInv, ShutdownInv, vars, ring_vars
    <3>4. TaskInv'
      BY <2>8, TasksKept DEF IInv, vars
    <3> QED
      BY <3>1, <3>2, <3>3, <3>4 DEF IInv
  <2> QED
    BY <2>1, <2>2, <2>3, <2>4, <2>5, <2>6, <2>7, <2>8 DEF Next
<1> QED
  BY <1>1, <1>2, PTL DEF Spec
-----------------------------------------------------------------------------
(* The tasks of the ring as a sequence. *)
Ring(q, h, n) == [i \in 1 .. n |-> q[(h + i - 1) % QueueSize]]

LEMMA RingFacts ==
  ASSUME NEW q, NEW h \in Slot, NEW n \in 0 .. QueueSize,
         NEW S, \A i \in 0 .. n - 1 : q[Position(h, i)] \in S
  PROVE  /\ Ring(q, h, n) \in Seq(S)
         /\ Len(Ring(q, h, n)) = n
         /\ \A i \in 1 .. n : /\ i - 1 \in 0 .. n - 1
                              /\ Ring(q, h, n)[i] = q[Position(h, i - 1)]
<1>1. QueueSize \in Nat \ {0} /\ h \in Nat /\ n \in Nat
  BY ThreadPoolAssumption DEF Slot
<1>2. ASSUME NEW i \in 1 .. n
      PROVE  /\ i - 1 \in 0 .. n - 1
             /\ Ring(q, h, n)[i] = q[Position(h, i - 1)]
  <2>1. i - 1 \in 0 .. n - 1 /\ h + i - 1 = h + (i - 1)
    BY <1>1
  <2> QED
    BY <2>1 DEF Ring, Position
<1>3. \A i \in 1 .. n : Ring(q, h, n)[i] \in S
  BY <1>2
<1> QED
  BY <1>1, <1>2, <1>3 DEF Ring

LEMMA PendingFacts ==
  ASSUME IInv
  PROVE  /\ Pending \in Seq(Task)
         /\ Len(Pending) = count
         /\ \A i \in 1 .. count : /\ i - 1 \in 0 .. count - 1
                                  /\ Pending[i] = queue[Position(head, i - 1)]
<1>1. \A i \in 0 .. count - 1 : queue[Position(head, i)] \in Task
  BY DEF IInv, TypeOK, TaskInv
<1>2. head \in Slot /\ count \in 0 .. QueueSize
  BY DEF IInv, TypeOK
<1> QED
  BY <1>1, <1>2, RingFacts DEF Pending, Ring

(* RingConsistent of threadpool.c's ring, for every size of it.            *)
THEOREM RingAlwaysConsistent == Spec => []RingConsistent
<1>1. ASSUME IInv PROVE RingConsistent
  <2>1. tail = (head + count) % QueueSize
    BY <1>1 DEF IInv, TaskInv, Position
  <2>2. \A i \in 1 .. count : Pending[i] \in added
    BY <1>1, PendingFacts DEF IInv, TaskInv
  <2>3. ASSUME NEW i \in 1 .. count, NEW j \in 1 .. count, Pending[i] = Pending[j]
        PROVE  i = j
    <3>1. i - 1 = j - 1
      BY <1>1, <2>3, PendingFacts DEF IInv, TaskInv
    <3> QED
      BY <1>1, <3>1 DEF IInv, TypeOK
  <2> QED
    BY <1>1, <2>1, <2>2, <2>3 DEF RingConsistent, IInv
<1> QED
  BY <1>1, Invariance, PTL

(* The pool is freed, and only when every worker has left it, for every    *)
(* number of workers.                                                      *)
THEOREM AlwaysFreedAfterWorkers == Spec => []FreedAfterWorkers
<1>1. ASSUME IInv PROVE FreedAfterWorkers
  BY <1>1 DEF IInv, WorkerInv, Alive, FreedAfterWorkers
<1> QED
  BY <1>1, Invariance, PTL
-----------------------------------------------------------------------------
(* threadpool_add appends, grab takes the head.                            *)
LEMMA AddAppends ==
  ASSUME IInv, IInv', NEW t \in Task, threadpool_add(t)
  PROVE  Pending' = Append(Pending, t)
<1>1. /\ count \in 0 .. QueueSize - 1 /\ count' = count + 1 /\ count' \in 0 .. QueueSize
      /\ head \in Slot /\ head' = head
      /\ QueueSize \in Nat \ {0}
  BY ThreadPoolAssumption DEF IInv, TypeOK, threadpool_add, Full
<1>2. /\ Pending' = Ring(queue', head, count')
      /\ \A i \in 0 .. count' - 1 : queue'[Position(head, i)] \in Task
  BY <1>1 DEF Pending, Ring, IInv, TypeOK, TaskInv, Position
<1>3. /\ Pending' \in Seq(Task)
      /\ Len(Pending') = count'
      /\ \A i \in 1 .. count' : /\ i - 1 \in 0 .. count' - 1
                                /\ Pending'[i] = queue'[Position(head, i - 1)]
  <2>1. head \in Slot /\ count' \in 0 .. QueueSize
    BY <1>1
  <2> QED
    BY ONLY <1>2, <2>1, RingFacts
<1>4. /\ queue'[Position(head, count)] = t
      /\ \A i \in 0 .. count - 1 : queue'[Position(head, i)] = queue[Position(head, i)]
  <2>1. \A i \in 0 .. count - 1 : i \in 0 .. QueueSize - 1 /\ i \in 0 .. QueueSize /\ i # count
    BY <1>1
  <2>2. tail = Position(head, count)
    BY DEF IInv, TaskInv
  <2>3. \A i \in 0 .. count - 1 : Position(head, i) \in Slot /\ Position(head, i) # tail
    BY <1>1, <2>1, <2>2, PositionFacts, PositionsDiffer
  <2> QED
    BY <2>2, <2>3 DEF IInv, TypeOK, threadpool_add
<1>5. /\ Append(Pending, t) \in Seq(Task)
      /\ Len(Append(Pending, t)) = count'
      /\ \A i \in 1 .. count : Append(Pending, t)[i] = Pending[i]
      /\ Append(Pending, t)[count + 1] = t
  BY <1>1, PendingFacts, AppendProperties
<1>6. ASSUME NEW i \in 1 .. count'
      PROVE  Pending'[i] = Append(Pending, t)[i]
  <2>1. CASE i = count + 1
    BY <1>1, <1>3, <1>4, <1>5, <2>1
  <2>2. CASE i # count + 1
    <3>1. i \in 1 .. count
      BY <1>1, <2>2
    <3>2. /\ Pending[i] = queue[Position(head, i - 1)]
          /\ i - 1 \in 0 .. count - 1
      BY <3>1, PendingFacts
    <3>3. Pending'[i] = queue'[Position(head, i - 1)]
      BY <1>1, <1>3
    <3> QED
      BY <1>4, <1>5, <3>1, <3>2, <3>3
  <2> QED
    BY <2>1, <2>2
<1> QED
  BY <1>3, <1>5, <1>6, SeqEqual

LEMMA GrabTakesHead ==
  ASSUME IInv, IInv', NEW w \in Worker, threadpool_thread(w), grab(w)
  PROVE  /\ Pending # <<>>
         /\ Head(Pending) = task'[w]
         /\ Pending' = Tail(Pending)
<1>1. /\ count \in 1 .. QueueSize /\ count' = count - 1 /\ count' \in 0 .. QueueSize
      /\ head' \in Slot
      /\ QueueSize \in Nat \ {0}
  BY ThreadPoolAssumption, GrabFacts DEF IInv, TypeOK
<1>2. Pending # <<>> /\ Head(Pending) = task'[w]
  <2>1. 1 \in 1 .. count /\ 1 - 1 = 0
    BY <1>1
  <2>2. Pending[1] = queue[Position(head, 0)]
    BY <2>1, PendingFacts
  <2> QED
    BY <1>1, <2>2, PendingFacts, GrabFacts
<1>3. /\ Pending' = Ring(queue', head', count')
      /\ \A i \in 0 .. count' - 1 : queue'[Position(head', i)] \in Task
  BY DEF Pending, Ring, IInv, TypeOK, TaskInv, Position
<1>4. /\ Pending' \in Seq(Task)
      /\ Len(Pending') = count'
      /\ \A i \in 1 .. count' : /\ i - 1 \in 0 .. count' - 1
                                /\ Pending'[i] = queue'[Position(head', i - 1)]
  <2>1. head' \in Slot /\ count' \in 0 .. QueueSize
    BY <1>1
  <2> QED
    BY ONLY <1>3, <2>1, RingFacts
<1>5. /\ Tail(Pending) \in Seq(Task)
      /\ Len(Tail(Pending)) = count'
      /\ \A i \in 1 .. count' : Tail(Pending)[i] = Pending[i + 1]
  BY <1>1, <1>2, PendingFacts, HeadTailProperties
<1>6. ASSUME NEW i \in 1 .. count'
      PROVE  Pending'[i] = Tail(Pending)[i]
  <2>1. i - 1 \in 0 .. count' - 1 /\ (i - 1) + 1 = i /\ i + 1 \in 1 .. count /\ (i + 1) - 1 = i
    BY <1>1
  <2>2. queue'[Position(head', i - 1)] = queue[Position(head, (i - 1) + 1)]
    BY <2>1, GrabFacts
  <2>3. Pending[i + 1] = queue[Position(head, (i + 1) - 1)]
    BY <2>1, PendingFacts
  <2> QED
    BY <1>4, <1>5, <2>1, <2>2, <2>3
<1> QED
  BY <1>2, <1>4, <1>5, <1>6, SeqEqual

Running == {task[w] : w \in {v \in Worker : thread[v] = "work"}}

(* Every step of the pool is a step of TaskQueue, or none that shows.      *)
LEMMA StepRefines ==
  ASSUME IInv, IInv', [Next]_vars
  PROVE  [Pool!Next]_Pool!vars
<1> DEFINE Still == /\ UNCHANGED <<Pending, Running, shutdown>>
                    /\ (main_pc' = "freed") = (main_pc = "freed")
<1>1. Still => UNCHANGED Pool!vars
  BY DEF Pool!vars, Running
<1>2. ASSUME UNCHANGED ring_vars PROVE Pending' = Pending
  BY <1>2 DEF ring_vars, Pending
<1>3. ASSUME NEW w \in Worker, \A v \in Worker \ {w} : thread'[v] = thread[v],
             thread[w] # "work", thread'[w] # "work", task' = task
      PROVE  Running' = Running
  BY <1>3 DEF Running
<1>4. ASSUME Woken, task' = task PROVE Running' = Running
  BY <1>4 DEF Running, Woken
<1>5. CASE threadpool_create
  <2>1. ThreadCount \in Nat
    BY ThreadPoolAssumption
  <2> DEFINE w == thread_count + 1
  <2>2. w \in Worker /\ thread[w] = "none"
    BY <1>5, <2>1 DEF IInv, TypeOK, WorkerInv, Worker, threadpool_create
  <2>3. Running' = Running
    BY <1>3, <1>5, <2>2 DEF threadpool_create, IInv, TypeOK
  <2>4. (main_pc' = "freed") = (main_pc = "freed")
    BY <1>5 DEF threadpool_create
  <2> QED
    BY <1>1, <1>2, <1>5, <2>3, <2>4 DEF threadpool_create
<1>6. CASE create_failed \/ threadpool_destroy
  <2>1. PICK kind \in {"graceful", "immediate"} : Destroy(kind)
    BY <1>6 DEF create_failed, threadpool_destroy
  <2>2. Running' = Running
    BY <1>4, <2>1, WakeFacts DEF IInv, Destroy
  <2>3. shutdown = "no" /\ main_pc # "freed"
    BY <1>6 DEF IInv, ShutdownInv, create_failed, threadpool_destroy
  <2>4. Pool!Close
    BY <1>2, <2>1, <2>2, <2>3 DEF Pool!Close, Destroy, Running
  <2> QED
    BY <2>4 DEF Pool!Next
<1>7. ASSUME NEW t \in Task, threadpool_add(t)
      PROVE  Pool!Next
  <2>1. Pending' = Append(Pending, t)
    BY <1>7, AddAppends
  <2>2. Running' = Running
    BY <1>4, <1>7, WakeFacts DEF IInv, threadpool_add
  <2>3. Pool!Add(t)
    BY <1>7, <2>1, <2>2 DEF Pool!Add, threadpool_add, Running
  <2> QED
    BY <2>3 DEF Pool!Next
<1>8. CASE threadpool_free
  <2>1. \A w \in Worker : thread[w] \in {"none", "exit"}
    BY <1>8 DEF IInv, TypeOK, WorkerInv, Worker, threadpool_free, Joined
  <2>2. Running = {} /\ Running' = Running
    BY <1>8, <2>1 DEF Running, threadpool_free
  <2>3. shutdown = "graceful" => Pending = <<>>
    <3>1. 1 \in Worker
      BY ThreadPoolAssumption DEF Worker
    <3>2. shutdown = "graceful" => thread[1] = "exit"
      BY <2>1, <3>1, ThreadPoolAssumption DEF IInv, TypeOK, WorkerInv, ShutdownInv, Worker
    <3>3. shutdown = "graceful" => count = 0
      BY <3>1, <3>2 DEF IInv, ShutdownInv
    <3> QED
      BY <3>3, PendingFacts
  <2>4. main_pc' = "freed" /\ shutdown # "no"
    BY <1>8, FreeStep DEF IInv, ShutdownInv, threadpool_free
  <2>5. Pool!Stop
    BY <1>2, <1>8, <2>2, <2>3, <2>4 DEF Pool!Stop, threadpool_free, Running
  <2> QED
    BY <2>5 DEF Pool!Next
<1>9. ASSUME NEW w \in Worker,
             \/ threadpool_thread(w) /\ (wait(w) \/ leave(w))
             \/ spurious_wakeup(w)
      PROVE  UNCHANGED Pool!vars
  <2>1. UNCHANGED <<ring_vars, task, shutdown, main_pc>>
    BY <1>9 DEF threadpool_thread, wait, leave, spurious_wakeup
  <2>2. /\ thread[w] # "work" /\ thread'[w] # "work"
        /\ \A v \in Worker \ {w} : thread'[v] = thread[v]
    BY <1>9 DEF threadpool_thread, wait, leave, spurious_wakeup, IInv, TypeOK
  <2>3. Running' = Running
    BY <1>3, <2>1, <2>2
  <2> QED
    BY <1>1, <1>2, <2>1, <2>3
<1>10. ASSUME NEW w \in Worker, threadpool_thread(w), grab(w)
       PROVE  Pool!Next
  <2>1. Pending # <<>> /\ Head(Pending) = task'[w] /\ Pending' = Tail(Pending)
    BY <1>10, GrabTakesHead
  <2>2. Running' = Running \cup {task'[w]}
    <3>1. /\ thread[w] = "lock" /\ thread'[w] = "work"
          /\ \A v \in Worker \ {w} : thread'[v] = thread[v] /\ task'[v] = task[v]
      BY <1>10, GrabFacts DEF threadpool_thread, grab, IInv, TypeOK
    <3> QED
      BY <3>1 DEF Running
  <2>3. /\ shutdown # "immediate" /\ shutdown' = shutdown
        /\ main_pc' = main_pc
    BY <1>10 DEF threadpool_thread, grab, Leaving
  <2>4. Pool!Start
    BY <2>1, <2>2, <2>3 DEF Pool!Start, Running
  <2> QED
    BY <2>4 DEF Pool!Next
<1>11. ASSUME NEW w \in Worker, work(w)
       PROVE  Pool!Next
  <2>1. /\ thread[w] = "work" /\ thread'[w] = "lock" /\ task[w] \in Task
        /\ \A v \in Worker \ {w} : thread'[v] = thread[v] /\ task'[v] = task[v]
        /\ UNCHANGED <<ring_vars, shutdown, main_pc>>
    BY <1>11 DEF work, IInv, TypeOK, TaskInv
  <2>2. \A v \in Worker \ {w} : thread[v] = "work" => task[v] # task[w]
    BY <2>1 DEF IInv, TaskInv
  <2>3. task[w] \in Running /\ Running' = Running \ {task[w]}
    BY <2>1, <2>2 DEF Running
  <2>4. PICK t \in Task : t = task[w]
    BY <2>1
  <2>5. Pool!Finish(t)
    BY <1>2, <2>1, <2>3, <2>4 DEF Pool!Finish, Running
  <2> QED
    BY <2>5 DEF Pool!Next
<1>12. CASE UNCHANGED vars
  <2>1. Still
    BY <1>12 DEF vars, ring_vars, Pending, Running
  <2> QED
    BY <1>1, <2>1
<1> QED
  BY <1>5, <1>6, <1>7, <1>8, <1>9, <1>10, <1>11, <1>12 DEF Next, threadpool_thread

(* The pool of threadpool.c keeps the promise of TaskQueue: for every size *)
(* of the ring and every number of threads, tasks start in the order they  *)
(* were added, each once, and the pool stops as its kind of shutdown says. *)
THEOREM ImplementsPromise == Spec => Implements
<1>1. Init => Pool!Init
  <2> SUFFICES ASSUME Init PROVE Pool!Init
    OBVIOUS
  <2>1. IInv
    BY InitIInv
  <2>2. Pending = <<>>
    BY <2>1, PendingFacts DEF Init
  <2> QED
    BY <2>2 DEF Init, Pool!Init
<1>2. IInv /\ IInv' /\ [Next]_vars => [Pool!Next]_Pool!vars
  BY StepRefines
<1> QED
  BY <1>1, <1>2, Invariance, PTL DEF Spec, Implements, Pool!Spec
=============================================================================
