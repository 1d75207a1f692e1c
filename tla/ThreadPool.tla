----------------------------- MODULE ThreadPool -----------------------------
(***************************************************************************)
(* thread/thread_pool.c: a fixed set of worker threads that take tasks     *)
(* from a table of MAX_TASKS slots, and the main program that fills the    *)
(* table, waits for every task and closes the pool.                        *)
(*                                                                         *)
(* Locks.  mtx is the mutex paired with the condition variable cond; it is *)
(* held by a worker from its search for a task until it has popped one.    *)
(* waits[i] is locked by the thread that adds a task to slot i and         *)
(* unlocked by the worker that ran it; for the default mutex type of glibc *)
(* that is a binary semaphore.  Every use of the table is inside a         *)
(* critical section of task_mtx.  The sections of the workers contain no   *)
(* blocking call and are one step each; only tp_add_task blocks inside its *)
(* section (on waits[i]), so task_mtx is taken exactly when main is at     *)
(* "store".                                                                *)
(*                                                                         *)
(* pthread functions return a positive error number, so none of the tests  *)
(* "< 0" in the file ever succeeds: a failing call is simply ignored.      *)
(***************************************************************************)
EXTENDS Integers, FiniteSets

CONSTANTS
  Threads,        \* the worker threads that tp_init tries to create
  MAX_TASKS,      \* slots of the table
  TASKS,          \* tasks that main adds
  StackFlags,     \* what the uninitialized tp.initialized may hold at start
  MaxMissing,     \* bound: calls of pthread_create that fail
  MaxSpurious,    \* bound: spurious wake-ups of pthread_cond_wait
  Nobody,         \* owner of a free mutex
  Destroyed       \* "owner" of a mutex after pthread_mutex_destroy

ASSUME PoolAssumption ==
  /\ MAX_TASKS \in Nat \ {0}
  /\ TASKS \in Nat \ {0}
  /\ StackFlags \subseteq BOOLEAN
  /\ MaxMissing \in Nat /\ MaxSpurious \in Nat
  /\ Nobody \notin Threads /\ Destroyed \notin Threads /\ Nobody # Destroyed

Slot == 0 .. MAX_TASKS - 1
Task == 1 .. TASKS
NoTask == 0       \* a NULL function pointer in the table
NoSlot == -1

VARIABLES
  initialized,    \* pool->initialized
  tasks,          \* pool->tasks and pool->args: the task in each slot
  waits,          \* pool->waits: is the mutex of the slot locked
  mtx,            \* pool->mtx: its owner
  pc,             \* where each worker is
  tid,            \* the slot a worker found (tid, then id)
  job,            \* the task and args a worker popped
  main,           \* where the main program is
  slot,           \* i in tp_add_task
  added,          \* j in main: calls of tp_add_task that have returned
  ids,            \* main's array tasks[]: the ids tp_add_task returned
  waited,         \* i in main's second loop: waits that have returned
  runs,           \* history: how often each task was executed
  spurious        \* history: spurious wake-ups so far

mainVars == <<initialized, main, slot, added, ids, waited>>
vars == <<mainVars, tasks, waits, mtx, pc, tid, job, runs, spurious>>

WorkerPC == {"none", "missing", "top", "find", "found", "empty", "waiting", "woken",
             "popped", "running", "ran", "unwinding", "dead"}

MainPC == {"init", "add", "store", "broadcast", "wait", "unlock", "close",
           "destroy", "destroyCond", "exited", "failed", "undefined"}

\* tp_close has been called.
Closing == {"close", "destroy", "destroyCond", "exited"}

\* The process is over, or nothing more is said about it.
Stopped == {"exited", "failed", "undefined"}

TypeOK ==
  /\ initialized \in BOOLEAN
  /\ tasks \in [Slot -> Task \cup {NoTask}]
  /\ waits \in [Slot -> BOOLEAN]
  /\ mtx \in Threads \cup {Nobody, Destroyed}
  /\ pc \in [Threads -> WorkerPC]
  /\ tid \in [Threads -> Slot \cup {NoSlot}]
  /\ job \in [Threads -> Task \cup {NoTask}]
  /\ main \in MainPC
  /\ slot \in Slot \cup {NoSlot}
  /\ added \in 0 .. TASKS
  /\ ids \in [Task -> Slot \cup {NoSlot}]
  /\ waited \in 0 .. TASKS
  /\ runs \in [Task -> Nat]
  /\ spurious \in 0 .. MaxSpurious

\* struct thread_pool_st tp is a local of main: the flag that tp_init tests
\* is an uninitialized value.  The other fields are not read before tp_init
\* writes them.
Init ==
  /\ initialized \in StackFlags
  /\ tasks = [i \in Slot |-> NoTask]
  /\ waits = [i \in Slot |-> FALSE]
  /\ mtx = Nobody
  /\ pc = [w \in Threads |-> "none"]
  /\ tid = [w \in Threads |-> NoSlot]
  /\ job = [w \in Threads |-> NoTask]
  /\ main = "init"
  /\ slot = NoSlot
  /\ added = 0
  /\ ids = [t \in Task |-> NoSlot]
  /\ waited = 0
  /\ runs = [t \in Task |-> 0]
  /\ spurious = 0

TaskMtxFree == main # "store"

-----------------------------------------------------------------------------
(* Faulty variants of single steps.  Next uses none of them; each is what the  *)
(* step would be after a plausible mistake in the code, and breaks a property. *)

\* find_task_lock gives up mtx together with task_mtx.
FindTaskUnlocks(w) ==
  /\ pc[w] = "find" /\ TaskMtxFree
  /\ \E i \in Slot : tasks[i] # NoTask /\ tid' = [tid EXCEPT ![w] = i]
  /\ pc' = [pc EXCEPT ![w] = "found"]
  /\ mtx' = Nobody
  /\ UNCHANGED <<mainVars, tasks, waits, job, runs, spurious>>

\* run_task_lock unlocks waits[id] before it calls the task.
UnlockMtxAndWait(w) ==
  /\ pc[w] = "popped"
  /\ mtx' = Nobody
  /\ waits' = [waits EXCEPT ![tid[w]] = FALSE]
  /\ pc' = [pc EXCEPT ![w] = "running"]
  /\ UNCHANGED <<mainVars, tasks, tid, job, runs, spurious>>

\* run_task_lock forgets to unlock waits[id].
UnlockWaitForgets(w) ==
  /\ pc[w] = "ran"
  /\ pc' = [pc EXCEPT ![w] = "top"]
  /\ tid' = [tid EXCEPT ![w] = NoSlot]
  /\ job' = [job EXCEPT ![w] = NoTask]
  /\ UNCHANGED <<mainVars, tasks, waits, mtx, runs, spurious>>

\* tp_add_task does not lock waits[i].
AddStoreUnlocked ==
  /\ main = "store"
  /\ tasks' = [tasks EXCEPT ![slot] = added + 1]
  /\ main' = "broadcast"
  /\ UNCHANGED <<initialized, slot, added, ids, waited, waits, mtx, pc, tid, job, runs, spurious>>

\* tp_wait_task goes on when the lock is taken.
WaitLockTry ==
  /\ main = "wait"
  /\ waits' = [waits EXCEPT ![ids[waited + 1]] = TRUE]
  /\ main' = "unlock"
  /\ UNCHANGED <<initialized, slot, added, ids, waited, tasks, mtx, pc, tid, job, runs, spurious>>

-----------------------------------------------------------------------------
(* The main program. *)

\* The threads as tp_init leaves them: one whose pthread_create has failed does
\* not exist, and nobody has noticed.
Created == {[w \in Threads |-> IF w \in F THEN "missing" ELSE "top"] :
              F \in {G \in SUBSET Threads : Cardinality(G) <= MaxMissing}}

\* tp_init.  The workers start to run while main sleeps for one second; they
\* share nothing with main before the first tp_add_task.
TpInit ==
  /\ main = "init"
  /\ main' = "add"
  /\ initialized' = TRUE
  /\ pc' \in IF initialized THEN {pc} ELSE Created
  /\ UNCHANGED <<tasks, waits, mtx, tid, job, slot, added, ids, waited, runs, spurious>>

\* tp_init has set the pool up and started its threads.
SetUp == \A w \in Threads : pc[w] # "none"

\* tp_add_task up to the call that locks waits[i]: task_mtx is taken and i is
\* the first empty slot.
AddFind ==
  /\ main = "add" /\ initialized /\ SetUp
  /\ \E i \in Slot :
       /\ tasks[i] = NoTask
       /\ \A k \in Slot : k < i => tasks[k] # NoTask
       /\ slot' = i
  /\ main' = "store"
  /\ UNCHANGED <<initialized, tasks, waits, mtx, pc, tid, job, added, ids, waited, runs, spurious>>

\* exit(1): "pool not initialized", or "too much tasks" when no slot is empty.
AddFail ==
  /\ main = "add" /\ SetUp
  /\ ~initialized \/ \A i \in Slot : tasks[i] # NoTask
  /\ main' = "failed"
  /\ UNCHANGED <<initialized, slot, added, ids, waited, tasks, waits, mtx, pc, tid, job, runs, spurious>>

\* tp_add_task on a pool that tp_init left alone locks a mutex that was never
\* initialized and searches a table of indeterminate pointers.
AddUndefined ==
  /\ main = "add" /\ ~SetUp
  /\ main' = "undefined"
  /\ UNCHANGED <<initialized, slot, added, ids, waited, tasks, waits, mtx, pc, tid, job, runs, spurious>>

\* Locks waits[i] (it may still be held for the task that last used slot i),
\* stores the task and releases task_mtx.
AddStore ==
  /\ main = "store"
  /\ ~waits[slot]
  /\ waits' = [waits EXCEPT ![slot] = TRUE]
  /\ tasks' = [tasks EXCEPT ![slot] = added + 1]
  /\ main' = "broadcast"
  /\ UNCHANGED <<initialized, slot, added, ids, waited, mtx, pc, tid, job, runs, spurious>>

\* The broadcast, sent without holding mtx, and the return to main's loop.
AddBroadcast ==
  /\ main = "broadcast"
  /\ pc' = [w \in Threads |-> IF pc[w] = "waiting" THEN "woken" ELSE pc[w]]
  /\ ids' = [ids EXCEPT ![added + 1] = slot]
  /\ added' = added + 1
  /\ main' = IF added + 1 = TASKS THEN "wait" ELSE "add"
  /\ UNCHANGED <<initialized, slot, waited, tasks, waits, mtx, tid, job, runs, spurious>>

\* tp_wait_task: lock waits[id] ...
WaitLock ==
  /\ main = "wait"
  /\ ~waits[ids[waited + 1]]
  /\ waits' = [waits EXCEPT ![ids[waited + 1]] = TRUE]
  /\ main' = "unlock"
  /\ UNCHANGED <<initialized, slot, added, ids, waited, tasks, mtx, pc, tid, job, runs, spurious>>

\* ... and unlock it at once.
WaitUnlock ==
  /\ main = "unlock"
  /\ waits' = [waits EXCEPT ![ids[waited + 1]] = FALSE]
  /\ waited' = waited + 1
  /\ main' = IF waited + 1 = TASKS THEN "close" ELSE "wait"
  /\ UNCHANGED <<initialized, slot, added, ids, tasks, mtx, pc, tid, job, runs, spurious>>

\* tp_close: pthread_cancel for every thread, none of which is joined.  For one
\* that was never created the pthread_t is indeterminate.
CloseCancel ==
  /\ main = "close"
  /\ main' = IF \E w \in Threads : pc[w] = "missing" THEN "undefined" ELSE "destroy"
  /\ UNCHANGED <<initialized, slot, added, ids, waited, tasks, waits, mtx, pc, tid, job, runs, spurious>>

\* pthread_mutex_destroy(mtx).  glibc refuses it (EBUSY, ignored) while a
\* thread owns the mutex or is inside pthread_cond_wait with it.
CloseDestroyMtx ==
  /\ main = "destroy"
  /\ mtx' = IF mtx = Nobody /\ \A w \in Threads : pc[w] \notin {"waiting", "woken", "unwinding"}
            THEN Destroyed
            ELSE mtx
  /\ main' = "destroyCond"
  /\ UNCHANGED <<initialized, slot, added, ids, waited, tasks, waits, pc, tid, job, runs, spurious>>

\* pthread_cond_destroy blocks until no thread waits on cond.  The mutexes
\* waits[] are then destroyed and main calls exit(0).
CloseDestroyCond ==
  /\ main = "destroyCond"
  /\ \A w \in Threads : pc[w] # "waiting"
  /\ main' = "exited"
  /\ UNCHANGED <<initialized, slot, added, ids, waited, tasks, waits, mtx, pc, tid, job, runs, spurious>>

Main ==
  \/ TpInit \/ AddFind \/ AddFail \/ AddUndefined \/ AddStore \/ AddBroadcast
  \/ WaitLock \/ WaitUnlock \/ CloseCancel \/ CloseDestroyMtx \/ CloseDestroyCond

-----------------------------------------------------------------------------
(* A worker: thread_pool_routine with find_task_lock and run_task_lock. *)

\* pthread_mutex_lock(mtx).  On a destroyed mutex it returns EINVAL at once and
\* the worker goes on without the lock.
LockMtx(w) ==
  /\ pc[w] = "top"
  /\ mtx \in {Nobody, Destroyed}
  /\ mtx' = IF mtx = Nobody THEN w ELSE mtx
  /\ pc' = [pc EXCEPT ![w] = "find"]
  /\ UNCHANGED <<mainVars, tasks, waits, tid, job, runs, spurious>>

\* find_task_lock returns the first slot that holds a task ...
FindTask(w) ==
  /\ pc[w] = "find" /\ TaskMtxFree
  /\ \E i \in Slot :
       /\ tasks[i] # NoTask
       /\ \A k \in Slot : k < i => tasks[k] = NoTask
       /\ tid' = [tid EXCEPT ![w] = i]
  /\ pc' = [pc EXCEPT ![w] = "found"]
  /\ UNCHANGED <<mainVars, tasks, waits, mtx, job, runs, spurious>>

\* ... or -1.
FindNone(w) ==
  /\ pc[w] = "find" /\ TaskMtxFree
  /\ \A i \in Slot : tasks[i] = NoTask
  /\ pc' = [pc EXCEPT ![w] = "empty"]
  /\ UNCHANGED <<mainVars, tasks, waits, mtx, tid, job, runs, spurious>>

\* pthread_cond_wait releases mtx and blocks.  With a destroyed mutex it
\* returns EINVAL and the loop searches again.
CondWait(w) ==
  /\ pc[w] = "empty"
  /\ mtx' = IF mtx = Destroyed THEN Destroyed ELSE Nobody
  /\ pc' = [pc EXCEPT ![w] = IF mtx = Destroyed THEN "find" ELSE "waiting"]
  /\ UNCHANGED <<mainVars, tasks, waits, tid, job, runs, spurious>>

\* A woken worker takes mtx again inside pthread_cond_wait.
Reacquire(w) ==
  /\ pc[w] = "woken"
  /\ mtx = Nobody
  /\ mtx' = w
  /\ pc' = [pc EXCEPT ![w] = "find"]
  /\ UNCHANGED <<mainVars, tasks, waits, tid, job, runs, spurious>>

\* run_task_lock: take the task out of the slot.  If the slot were empty it
\* would return here and the worker would lock mtx a second time.
PopTask(w) ==
  /\ pc[w] = "found" /\ TaskMtxFree
  /\ job' = [job EXCEPT ![w] = tasks[tid[w]]]
  /\ tasks' = [tasks EXCEPT ![tid[w]] = NoTask]
  /\ pc' = [pc EXCEPT ![w] = IF tasks[tid[w]] = NoTask THEN "top" ELSE "popped"]
  /\ UNCHANGED <<mainVars, waits, mtx, tid, runs, spurious>>

\* run_task_lock: pthread_mutex_unlock(mtx).
UnlockMtx(w) ==
  /\ pc[w] = "popped"
  /\ mtx' = Nobody
  /\ pc' = [pc EXCEPT ![w] = "running"]
  /\ UNCHANGED <<mainVars, tasks, waits, tid, job, runs, spurious>>

\* run_task_lock: task(args).
Execute(w) ==
  /\ pc[w] = "running"
  /\ runs' = [runs EXCEPT ![job[w]] = @ + 1]
  /\ pc' = [pc EXCEPT ![w] = "ran"]
  /\ UNCHANGED <<mainVars, tasks, waits, mtx, tid, job, spurious>>

\* run_task_lock: pthread_mutex_unlock(waits + id), locked by tp_add_task.
\* The locals go out of scope.
UnlockWait(w) ==
  /\ pc[w] = "ran"
  /\ waits' = [waits EXCEPT ![tid[w]] = FALSE]
  /\ pc' = [pc EXCEPT ![w] = "top"]
  /\ tid' = [tid EXCEPT ![w] = NoSlot]
  /\ job' = [job EXCEPT ![w] = NoTask]
  /\ UNCHANGED <<mainVars, tasks, mtx, runs, spurious>>

\* pthread_cond_wait is the only cancellation point of an idle worker.
CancelWait(w) ==
  /\ pc[w] = "waiting"
  /\ main \in {"destroy", "destroyCond"}
  /\ pc' = [pc EXCEPT ![w] = "unwinding"]
  /\ UNCHANGED <<mainVars, tasks, waits, mtx, tid, job, runs, spurious>>

\* A cancelled waiter takes mtx again before it ends; no cleanup handler
\* releases it.
Unwind(w) ==
  /\ pc[w] = "unwinding"
  /\ mtx = Nobody
  /\ mtx' = w
  /\ pc' = [pc EXCEPT ![w] = "dead"]
  /\ UNCHANGED <<mainVars, tasks, waits, tid, job, runs, spurious>>

Worker(w) ==
  /\ main \notin Stopped
  /\ \/ LockMtx(w) \/ FindTask(w) \/ FindNone(w) \/ CondWait(w) \/ Reacquire(w)
     \/ PopTask(w) \/ UnlockMtx(w) \/ Execute(w) \/ UnlockWait(w)
     \/ CancelWait(w) \/ Unwind(w)

\* POSIX lets pthread_cond_wait return without a broadcast.
SpuriousWake(w) ==
  /\ main \notin Stopped
  /\ pc[w] = "waiting"
  /\ spurious < MaxSpurious
  /\ spurious' = spurious + 1
  /\ pc' = [pc EXCEPT ![w] = "woken"]
  /\ UNCHANGED <<mainVars, tasks, waits, mtx, tid, job, runs>>

\* The process has ended.
Over == main \in Stopped /\ UNCHANGED vars

Next == Main \/ (\E w \in Threads : Worker(w) \/ SpuriousWake(w)) \/ Over

Spec == Init /\ [][Next]_vars

\* Every thread that can move is scheduled.  No lock is contended for ever (a
\* worker waits on cond between two rounds, and only TASKS broadcasts and
\* MaxSpurious wake-ups end a wait), so weak fairness of each thread is enough
\* and nothing is assumed of the order in which a mutex is handed over.
FairSpec == Spec /\ WF_vars(Main) /\ \A w \in Threads : WF_vars(Worker(w))

-----------------------------------------------------------------------------
(* Properties *)

\* A worker that has popped a task and not yet unlocked its waits[id].
Busy == {"popped", "running", "ran"}

\* find_task_lock gives up task_mtx before run_task_lock takes it again.  The
\* slot a worker found still holds a task when it pops it, because mtx is held
\* in between: run_task_lock never takes its early return, after which the
\* worker would lock mtx while owning it.
FoundTaskStays == \A w \in Threads : pc[w] = "found" => tasks[tid[w]] # NoTask

\* The mutex waits[i] is locked exactly while the task of slot i is in the
\* table or in the hands of a worker, or while tp_wait_task is between its two
\* calls.  So the unlock of run_task_lock always finds the lock taken by
\* tp_add_task for the same task, and never one taken by a later one.
WaitsTrackTasks ==
  \A i \in Slot :
    waits[i] <=> \/ tasks[i] # NoTask
                 \/ \E w \in Threads : pc[w] \in Busy /\ tid[w] = i
                 \/ main = "unlock" /\ ids[waited + 1] = i

\* No task is executed twice, although slots are emptied before the task runs
\* and are reused while it runs.
RunsOnce == \A t \in Task : runs[t] <= 1

\* When tp_wait_task has returned for an id, the task that tp_add_task returned
\* that id for has been executed, even if the slot has been reused since.
AwaitedHasRun == \A t \in Task : t <= waited => runs[t] = 1

\* When main reaches tp_close every slot is empty and no worker is inside
\* run_task_lock: pthread_cancel never stops a task half way.
QuietAtClose ==
  main \in Closing =>
    /\ \A i \in Slot : tasks[i] = NoTask /\ ~waits[i]
    /\ \A w \in Threads : pc[w] \notin Busy

\* Every task that is in the table is executed in the end, also when its
\* broadcast reaches no waiter, unless a later tp_add_task ends the process.
EveryTaskRuns ==
  \A t \in Task : (\E i \in Slot : tasks[i] = t) ~> (runs[t] = 1 \/ main = "failed")

\* The program comes to its end, through tp_close or through one of the exits
\* of tp_add_task: neither the lock of waits[] inside the task_mtx section, nor
\* tp_wait_task, nor pthread_cond_destroy blocks for ever.  It takes two workers:
\* one alone may miss its broadcast (EveryTaskRuns).
Terminates == <>(main \in Stopped)

\* How far a task has come, as the caller of the pool sees it.
StatusOf(t) ==
  IF runs[t] > 0 THEN "done"
  ELSE IF \E w \in Threads : pc[w] \in Busy /\ job[w] = t THEN "running"
  ELSE IF \E i \in Slot : tasks[i] = t THEN "pending"
  ELSE "new"

Pool == INSTANCE TaskPool WITH
  status <- [t \in Task |-> StatusOf(t)],
  awaited <- {t \in Task : t <= waited \/ (main = "unlock" /\ t = waited + 1)}

\* Slots, locks and workers together behave as the abstract pool: added,
\* started, finished and awaited once each and in that order.
ImplementsTaskPool == Pool!PoolSpec
=============================================================================
