------------------------------ MODULE TaskPool ------------------------------
(***************************************************************************)
(* What the thread pool of thread/thread_pool.c promises to its caller,    *)
(* without slots, locks or workers: a task that is added is picked up      *)
(* once, runs to its end once, and a wait for it returns only after that.  *)
(***************************************************************************)
CONSTANT Task        \* the tasks the caller hands to the pool

VARIABLES
  status,            \* how far each task has come
  awaited            \* the tasks whose tp_wait_task has got through

poolVars == <<status, awaited>>

Status == {"new", "pending", "running", "done"}

PoolTypeOK ==
  /\ status \in [Task -> Status]
  /\ awaited \in SUBSET Task

PoolInit ==
  /\ status = [t \in Task |-> "new"]
  /\ awaited = {}

Advance(t, from, to) ==
  /\ status[t] = from
  /\ status' = [status EXCEPT ![t] = to]
  /\ UNCHANGED awaited

\* tp_add_task stores the task in the pool.
Submit(t) == Advance(t, "new", "pending")

\* A worker takes the task out of the pool.
Start(t) == Advance(t, "pending", "running")

\* The task function returns.
Finish(t) == Advance(t, "running", "done")

\* tp_wait_task gets through for a task that is done.
Await(t) ==
  /\ status[t] = "done"
  /\ awaited' = awaited \cup {t}
  /\ UNCHANGED status

PoolNext == \E t \in Task : Submit(t) \/ Start(t) \/ Finish(t) \/ Await(t)

PoolSpec == PoolInit /\ [][PoolNext]_poolVars
=============================================================================
