----------------------------- MODULE TaskQueue ------------------------------
(***************************************************************************)
(* What a thread pool promises its caller: tasks are started in the order  *)
(* they were added, each once; after a graceful shutdown none is added and *)
(* the pool stops when all are done; after an immediate one the pending    *)
(* tasks are dropped, those that run are waited for.                       *)
(***************************************************************************)
EXTENDS Sequences

CONSTANTS Task

VARIABLES
  pending,  \* the tasks added and not started, in order
  running,  \* the tasks started and not finished
  closed,   \* "no", "graceful" or "immediate"
  stopped   \* the pool is gone

vars == <<pending, running, closed, stopped>>

Init == pending = <<>> /\ running = {} /\ closed = "no" /\ stopped = FALSE

Add(t) ==
  /\ closed = "no"
  /\ pending' = Append(pending, t)
  /\ UNCHANGED <<running, closed, stopped>>

Start ==
  /\ pending # <<>>
  /\ closed # "immediate"
  /\ pending' = Tail(pending)
  /\ running' = running \cup {Head(pending)}
  /\ UNCHANGED <<closed, stopped>>

Finish(t) ==
  /\ t \in running
  /\ running' = running \ {t}
  /\ UNCHANGED <<pending, closed, stopped>>

Close ==
  /\ closed = "no"
  /\ closed' \in {"graceful", "immediate"}
  /\ UNCHANGED <<pending, running, stopped>>

Stop ==
  /\ closed # "no"
  /\ running = {}
  /\ closed = "graceful" => pending = <<>>
  /\ stopped' = TRUE
  /\ UNCHANGED <<pending, running, closed>>

Next == (\E t \in Task : Add(t) \/ Finish(t)) \/ Start \/ Close \/ Stop

Spec == Init /\ [][Next]_vars
=============================================================================
