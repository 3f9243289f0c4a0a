----------------------------- MODULE ThreadPool -----------------------------
(***************************************************************************)
(* The thread pool of src/lib/threadpool.c.  main creates it, adds tasks   *)
(* and destroys it; the workers take tasks from a ring and run them.  Some *)
(* tasks never return: the three monitors of server.c are such tasks.      *)
(*                                                                         *)
(* Everything the workers share is read and written under pool->lock, and  *)
(* no section under it is left half-way, so each is one step; a wait on    *)
(* pool->notify ends the step.                                             *)
(***************************************************************************)
EXTENDS Integers, Sequences, FiniteSets

CONSTANTS
  Task,         \* the tasks main adds, each once
  Endless,      \* those that never return
  NoTask,       \* what an unused slot of the ring holds
  ThreadCount,  \* thread_count of threadpool_create
  QueueSize     \* queue_size of threadpool_create

ASSUME ThreadPoolAssumption ==
  /\ Endless \subseteq Task
  /\ NoTask \notin Task
  /\ ThreadCount \in Nat \ {0}
  /\ QueueSize \in Nat \ {0}

VARIABLES
  queue, head, tail, count,  \* the ring and its indices
  shutdown,                  \* "no", "graceful" or "immediate"
  thread_count, started,     \* threads created, threads not yet gone
  thread,                    \* where each worker is
  task,                      \* the task each worker runs
  main_pc,                   \* where main is in its use of the pool
  added                      \* the tasks main has added

ring_vars == <<queue, head, tail, count>>
vars == <<ring_vars, shutdown, thread_count, started, thread, task, main_pc, added>>

Worker == 1 .. ThreadCount
Slot   == 0 .. QueueSize - 1

Init ==
  /\ queue = [s \in Slot |-> NoTask]
  /\ head = 0 /\ tail = 0 /\ count = 0
  /\ shutdown = "no"
  /\ thread_count = 0 /\ started = 0
  /\ thread = [w \in Worker |-> "none"]
  /\ task = [w \in Worker |-> NoTask]
  /\ main_pc = "create"
  /\ added = {}

(* The next slot of the ring.                                              *)
Advance(i) == (i + 1) % QueueSize

(* pthread_cond_signal and pthread_cond_broadcast; mutants: nobody is told *)
(* of a new task, only one worker of the shutdown.                         *)
NotTold == UNCHANGED thread
Signal ==
  \/ \E w \in Worker : thread[w] = "wait" /\ thread' = [thread EXCEPT ![w] = "lock"]
  \/ (\A w \in Worker : thread[w] # "wait") /\ UNCHANGED thread

ToldOne == Signal
Broadcast == thread' = [w \in Worker |-> IF thread[w] = "wait" THEN "lock" ELSE thread[w]]

-----------------------------------------------------------------------------
(* threadpool_create: the next thread starts, or pthread_create fails and  *)
(* the pool made so far is destroyed again.                                *)
threadpool_create ==
  /\ main_pc = "create"
  /\ thread' = [thread EXCEPT ![thread_count + 1] = "lock"]
  /\ thread_count' = thread_count + 1
  /\ started' = started + 1
  /\ main_pc' = IF thread_count + 1 = ThreadCount THEN "ready" ELSE "create"
  /\ UNCHANGED <<ring_vars, shutdown, task, added>>

(* threadpool_destroy up to its joins. *)
Destroy(kind) ==
  /\ shutdown' = kind
  /\ Broadcast
  /\ main_pc' = "join"
  /\ UNCHANGED <<ring_vars, thread_count, started, task, added>>

create_failed == main_pc = "create" /\ Destroy("immediate")

(* A mutant lets one task too many in.                                     *)
FullLate == count > QueueSize
Full == count = QueueSize

(* threadpool_add; when the ring is full or the pool shuts down it only    *)
(* returns an error.                                                       *)
threadpool_add(t) ==
  /\ main_pc = "ready"
  /\ t \notin added
  /\ ~Full
  /\ shutdown = "no"
  /\ queue' = [queue EXCEPT ![tail] = t]
  /\ tail' = Advance(tail)
  /\ count' = count + 1
  /\ added' = added \cup {t}
  /\ Signal
  /\ UNCHANGED <<head, shutdown, thread_count, started, task, main_pc>>

threadpool_destroy ==
  /\ main_pc = "ready"
  /\ \E kind \in {"graceful", "immediate"} : Destroy(kind)

(* pthread_join of every thread created, and threadpool_free, which frees  *)
(* nothing while a thread counts as started.                               *)
(* A mutant leaves out the last thread.                                    *)
JoinedButLast == \A w \in 1 .. thread_count - 1 : thread[w] = "exit"
Joined == \A w \in 1 .. thread_count : thread[w] = "exit"

threadpool_free ==
  /\ main_pc = "join"
  /\ Joined
  /\ main_pc' = IF started > 0 THEN "kept" ELSE "freed"
  /\ UNCHANGED <<ring_vars, shutdown, thread_count, started, thread, task, added>>

-----------------------------------------------------------------------------
(* threadpool_thread, from the lock to the next unlock: wait, leave or     *)
(* take a task.                                                            *)
wait(w) ==
  /\ count = 0 /\ shutdown = "no"
  /\ thread' = [thread EXCEPT ![w] = "wait"]
  /\ UNCHANGED <<ring_vars, started, task>>

(* A mutant leaves with tasks pending.                                     *)
LeavingAtOnce == shutdown # "no"
Leaving == shutdown = "immediate" \/ (shutdown = "graceful" /\ count = 0)

leave(w) ==
  /\ Leaving
  /\ started' = started - 1
  /\ thread' = [thread EXCEPT ![w] = "exit"]
  /\ UNCHANGED <<ring_vars, task>>

grab(w) ==
  /\ count > 0 /\ ~Leaving
  /\ task' = [task EXCEPT ![w] = queue[head]]
  /\ head' = Advance(head)
  /\ count' = count - 1
  /\ thread' = [thread EXCEPT ![w] = "work"]
  /\ UNCHANGED <<queue, tail, started>>

threadpool_thread(w) ==
  /\ thread[w] = "lock"
  /\ wait(w) \/ leave(w) \/ grab(w)
  /\ UNCHANGED <<shutdown, thread_count, main_pc, added>>

(* A wait on a condition variable may end for no reason.                   *)
spurious_wakeup(w) ==
  /\ thread[w] = "wait"
  /\ thread' = [thread EXCEPT ![w] = "lock"]
  /\ UNCHANGED <<ring_vars, shutdown, thread_count, started, task, main_pc, added>>

(* The task returns.                                                       *)
work(w) ==
  /\ thread[w] = "work"
  /\ task[w] \notin Endless
  /\ task' = [task EXCEPT ![w] = NoTask]
  /\ thread' = [thread EXCEPT ![w] = "lock"]
  /\ UNCHANGED <<ring_vars, shutdown, thread_count, started, main_pc, added>>

-----------------------------------------------------------------------------
(* main is done, or waits for threads that wait or work for ever.          *)
Next ==
  \/ threadpool_create
  \/ create_failed
  \/ \E t \in Task : threadpool_add(t)
  \/ threadpool_destroy
  \/ threadpool_free
  \/ \E w \in Worker : threadpool_thread(w) \/ spurious_wakeup(w) \/ work(w)

Spec == Init /\ [][Next]_vars

(* The threads are scheduled, and a wait needs a wake-up to end.           *)
FairSpec ==
  /\ Spec
  /\ WF_vars(threadpool_free)
  /\ \A w \in Worker : WF_vars(threadpool_thread(w)) /\ WF_vars(work(w))
-----------------------------------------------------------------------------
TypeOK ==
  /\ queue \in [Slot -> Task \cup {NoTask}]
  /\ head \in Slot /\ tail \in Slot /\ count \in 0 .. QueueSize
  /\ shutdown \in {"no", "graceful", "immediate"}
  /\ thread_count \in 0 .. ThreadCount /\ started \in 0 .. ThreadCount
  /\ thread \in [Worker -> {"none", "lock", "wait", "work", "exit"}]
  /\ task \in [Worker -> Task \cup {NoTask}]
  /\ main_pc \in {"create", "ready", "join", "kept", "freed"}
  /\ added \subseteq Task

(* What the ring holds, oldest first.                                      *)
Pending == [i \in 1 .. count |-> queue[(head + i - 1) % QueueSize]]

(* The three indices agree however often they went round, and every task   *)
(* in the ring was added and is in it once.                                *)
RingConsistent ==
  /\ TypeOK
  /\ tail = (head + count) % QueueSize
  /\ \A i \in 1 .. count : Pending[i] \in added
  /\ \A i, j \in 1 .. count : Pending[i] = Pending[j] => i = j

(* "Only if everything went well do we deallocate the pool"                *)
(* (threadpool.c:236): its memory goes when no worker uses it any more,    *)
(* and the counter never keeps it from going.                              *)
FreedAfterWorkers ==
  /\ main_pc = "freed" => \A w \in Worker : thread[w] \in {"none", "exit"}
  /\ main_pc # "kept"

(* Every task that was added is started, unless the pool is shut down      *)
(* immediately or every worker is taken for ever: no wake-up is lost.      *)
AllTaken == \A w \in 1 .. thread_count : task[w] \in Endless
InRing(t) == \E i \in 1 .. count : Pending[i] = t
TasksStart ==
  \A t \in Task : InRing(t) ~> (~InRing(t) \/ shutdown = "immediate" \/ AllTaken)

(* threadpool_destroy returns, unless a task does not.                     *)
DestroyReturns ==
  main_pc = "join" ~> (main_pc # "join" \/ \E w \in Worker : task[w] \in Endless)

(* The pool keeps the promise of TaskQueue.                                *)
Pool == INSTANCE TaskQueue WITH
  pending <- Pending,
  running <- {task[w] : w \in {v \in Worker : thread[v] = "work"}},
  closed  <- shutdown,
  stopped <- main_pc = "freed"

Implements == Pool!Spec
=============================================================================
