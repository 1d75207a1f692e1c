-------------------------- MODULE ThreadPoolProofs --------------------------
(***************************************************************************)
(* Proofs about ThreadPool for every set of threads, size of the table,    *)
(* number of tasks and number of spurious wake-ups.                        *)
(***************************************************************************)
EXTENDS ThreadPool, TLAPS

\* A worker that owns mtx.
Holding == {"find", "found", "empty", "popped", "dead"}

\* The tasks tp_add_task has stored so far, and the slot each was stored in.
Known(t) == t <= added \/ (main = "broadcast" /\ t = added + 1)

SlotOf(t) == IF t <= added THEN ids[t] ELSE slot

\* mtx has at most one owner until it is destroyed.
MtxInv ==
  /\ mtx = Destroyed => main \in {"destroyCond", "exited"}
  /\ mtx # Destroyed => \A w \in Threads : pc[w] \in Holding => mtx = w

\* What the position of main says about its counters and locals.
MainInv ==
  /\ main = "init" => \A w \in Threads : pc[w] = "none"
  /\ main \in {"init", "add", "store", "broadcast"} => added < TASKS
  /\ main \in {"wait", "unlock"} \cup Closing => added = TASKS
  /\ main \in {"wait", "unlock"} => waited < TASKS
  /\ main \in {"init", "add", "store", "broadcast"} => waited = 0
  /\ main \in Closing => waited = TASKS
  /\ main \in {"store", "broadcast"} => slot \in Slot
  /\ main = "store" => tasks[slot] = NoTask
  /\ \A t \in Task : t <= added => ids[t] \in Slot

\* A task in the table is known, sits in the slot it was given, has not run,
\* and its waits[] mutex is locked.
TableInv ==
  \A i \in Slot : tasks[i] # NoTask =>
    /\ Known(tasks[i]) /\ SlotOf(tasks[i]) = i
    /\ runs[tasks[i]] = 0
    /\ waits[i]

\* The same for a task in the hands of a worker; its slot is empty.
CarryInv ==
  \A w \in Threads : pc[w] \in Busy =>
    /\ job[w] \in Task /\ tid[w] \in Slot
    /\ Known(job[w]) /\ SlotOf(job[w]) = tid[w]
    /\ runs[job[w]] = IF pc[w] = "ran" THEN 1 ELSE 0
    /\ waits[tid[w]]
    /\ tasks[tid[w]] = NoTask

\* Two workers never carry tasks of the same slot.
OneCarrier ==
  \A v, w \in Threads : pc[v] \in Busy /\ pc[w] \in Busy /\ tid[v] = tid[w] => v = w

FoundInv ==
  \A w \in Threads : pc[w] = "found" => tid[w] \in Slot /\ tasks[tid[w]] # NoTask

\* No task gets lost: it has run, or is in its slot, or a worker is about to
\* run it.
NoneLost ==
  \A t \in Task :
    /\ Known(t) => \/ runs[t] = 1
                   \/ tasks[SlotOf(t)] = t
                   \/ \E w \in Threads : pc[w] \in {"popped", "running"} /\ job[w] = t
    /\ ~Known(t) => runs[t] = 0
    /\ runs[t] \in {0, 1}

\* While tp_wait_task holds waits[id], nothing is left in slot id.
WaitInv ==
  main = "unlock" =>
    /\ waits[ids[waited + 1]]
    /\ tasks[ids[waited + 1]] = NoTask
    /\ \A w \in Threads : pc[w] \in Busy => tid[w] # ids[waited + 1]

\* A task that was waited for has run and is nowhere in the pool.
AwaitedInv ==
  /\ \A t \in Task : t <= waited => runs[t] = 1
  /\ \A w \in Threads : pc[w] \in Busy => job[w] > waited

\* A locked waits[i] has a reason.
LockedInv ==
  \A i \in Slot : waits[i] =>
    \/ tasks[i] # NoTask
    \/ \E w \in Threads : pc[w] \in Busy /\ tid[w] = i
    \/ main = "unlock" /\ ids[waited + 1] = i

\* The part of the invariant about tasks, which most steps do not touch.
PoolInv ==
  TableInv /\ CarryInv /\ OneCarrier /\ NoneLost /\ WaitInv /\ AwaitedInv /\ LockedInv

IInv == TypeOK /\ MtxInv /\ MainInv /\ FoundInv /\ PoolInv

-----------------------------------------------------------------------------
\* A step that moves no task: the table, the waits[] mutexes and the busy
\* workers stay as they are, and main neither enters nor leaves the two
\* positions that the invariant mentions.
NoTaskMoves ==
  /\ UNCHANGED <<added, ids, waited, tasks, waits, job, runs>>
  /\ \/ UNCHANGED <<main, slot>>
     \/ main \notin {"broadcast", "unlock"} /\ main' \notin {"broadcast", "unlock"}
  /\ \A w \in Threads : pc'[w] \in Busy <=> pc[w] \in Busy
  /\ \A w \in Threads : pc[w] \in Busy => pc'[w] = pc[w] /\ tid'[w] = tid[w]

\* Such a step keeps everything the invariant says about tasks.
LEMMA NoTaskMovesKeepsPool ==
  ASSUME TypeOK, PoolInv, NoTaskMoves PROVE PoolInv'
<1> USE DEF PoolInv, NoTaskMoves, TypeOK, Task, Slot, NoTask, NoSlot
<1>1. \A t \in Task : Known(t)' <=> Known(t)
  BY DEF Known
<1>2. \A t \in Task : Known(t) => SlotOf(t)' = SlotOf(t)
  BY Zenon DEF Known, SlotOf
<1>3. \A w \in Threads : pc'[w] \in {"popped", "running"} <=> pc[w] \in {"popped", "running"}
  BY DEF Busy
<1>4. TableInv'
  BY <1>1, <1>2, Zenon DEF TableInv
<1>5. CarryInv'
  BY <1>1, <1>2 DEF CarryInv
<1>6. OneCarrier'
  BY Zenon DEF OneCarrier
<1>7. NoneLost'
  <2> SUFFICES ASSUME NEW t \in Task
      PROVE /\ Known(t)' => \/ runs'[t] = 1
                             \/ tasks'[SlotOf(t)'] = t
                             \/ \E w \in Threads : pc'[w] \in {"popped", "running"} /\ job'[w] = t
            /\ ~Known(t)' => runs'[t] = 0
            /\ runs'[t] \in {0, 1}
    BY Zenon DEF NoneLost
  <2> QED
    BY <1>1, <1>2, <1>3, Zenon DEF NoneLost
<1>8. WaitInv'
  BY DEF WaitInv
<1>9. AwaitedInv'
  BY Zenon DEF AwaitedInv
<1>10. LockedInv'
  <2> SUFFICES ASSUME NEW i \in Slot, waits'[i]
      PROVE \/ tasks'[i] # NoTask
            \/ \E w \in Threads : pc'[w] \in Busy /\ tid'[w] = i
            \/ main' = "unlock" /\ ids'[waited' + 1] = i
    BY Zenon DEF LockedInv
  <2>1. \/ tasks[i] # NoTask
        \/ \E w \in Threads : pc[w] \in Busy /\ tid[w] = i
        \/ main = "unlock" /\ ids[waited + 1] = i
    BY Zenon DEF LockedInv
  <2>2. CASE \E w \in Threads : pc[w] \in Busy /\ tid[w] = i
    <3>1. PICK w \in Threads : pc[w] \in Busy /\ tid[w] = i
      BY <2>2
    <3>2. pc'[w] \in Busy /\ tid'[w] = i
      BY <3>1, Zenon
    <3> QED
      BY <3>2
  <2> QED
    BY <2>1, <2>2, Zenon
<1> QED
  BY <1>4, <1>5, <1>6, <1>7, <1>8, <1>9, <1>10, Zenon

\* Once tp_close is called nothing is left in the pool.
LEMMA QuietLemma == IInv => QuietAtClose
<1> SUFFICES ASSUME IInv, main \in Closing PROVE QuietAtClose
  BY Zenon DEF QuietAtClose
<1> USE PoolAssumption DEF IInv, PoolInv, TypeOK, Task, Slot, NoTask, NoSlot
<1>1. waited = TASKS
  BY DEF MainInv
<1>2. \A i \in Slot : tasks[i] = NoTask
  BY <1>1 DEF TableInv, AwaitedInv
<1>3. ASSUME NEW w \in Threads, pc[w] \in Busy PROVE FALSE
  <2>1. job[w] \in Task /\ job[w] > waited
    BY <1>3, Zenon DEF CarryInv, AwaitedInv
  <2> QED
    BY <1>1, <2>1
<1>4. \A i \in Slot : ~waits[i]
  BY <1>2, <1>3, Zenon DEF LockedInv, Closing
<1> QED
  BY <1>2, <1>3, <1>4 DEF QuietAtClose

\* The initial states satisfy the invariant.
LEMMA InitInv == Init => IInv
  BY PoolAssumption DEF Init, IInv, TypeOK, MtxInv, MainInv, FoundInv, PoolInv, TableInv, CarryInv, OneCarrier, NoneLost, WaitInv, AwaitedInv, LockedInv, Known, SlotOf,
     Holding, Busy, Closing, MainPC, WorkerPC, Task, Slot, NoTask, NoSlot

\* A step of main that adds or awaits no task keeps the invariant and moves no
\* task.
LEMMA OtherMainStep ==
  ASSUME IInv,
         TpInit \/ AddFind \/ AddFail \/ AddUndefined
           \/ CloseCancel \/ CloseDestroyMtx \/ CloseDestroyCond
  PROVE  IInv' /\ NoTaskMoves
<1> USE PoolAssumption DEF IInv, TpInit, AddFind, AddFail, AddUndefined, CloseCancel,
        CloseDestroyMtx, CloseDestroyCond
<1>0. \A f \in Created : /\ f \in [Threads -> WorkerPC]
                        /\ \A w \in Threads : f[w] \in {"missing", "top"}
  BY DEF Created, WorkerPC
<1>1. TypeOK'
  BY <1>0, ZenonT(40) DEF TypeOK, MainPC, WorkerPC
<1>2. MtxInv'
  BY <1>0, Zenon DEF TypeOK, MtxInv, Holding
<1>3. MainInv'
  BY <1>0, Zenon DEF TypeOK, MainInv, Closing
<1>4. FoundInv'
  BY <1>0, Zenon DEF TypeOK, FoundInv
<1>5. NoTaskMoves
  BY <1>0, Zenon DEF TypeOK, MainInv, NoTaskMoves, Busy
<1>6. PoolInv'
  BY <1>5, NoTaskMovesKeepsPool, Zenon
<1> QED
  BY <1>1, <1>2, <1>3, <1>4, <1>5, <1>6

\* So does a step of a worker that carries no task.
LEMMA IdleWorkerStep ==
  ASSUME IInv, NEW w \in Threads,
         LockMtx(w) \/ FindTask(w) \/ FindNone(w) \/ CondWait(w) \/ Reacquire(w)
           \/ CancelWait(w) \/ Unwind(w) \/ SpuriousWake(w)
  PROVE  IInv' /\ NoTaskMoves
<1> USE PoolAssumption DEF IInv, LockMtx, FindTask, FindNone, CondWait, Reacquire, CancelWait,
        Unwind, SpuriousWake, mainVars
<1>1. TypeOK'
  BY DEF TypeOK, WorkerPC
<1>2. MtxInv'
  BY DEF TypeOK, MtxInv, Holding
<1>3. MainInv'
  BY Zenon DEF TypeOK, MainInv
<1>4. FoundInv'
  BY DEF TypeOK, FoundInv
<1>5. NoTaskMoves
  BY DEF TypeOK, NoTaskMoves, Busy
<1>6. PoolInv'
  BY <1>5, NoTaskMovesKeepsPool, Zenon
<1> QED
  BY <1>1, <1>2, <1>3, <1>4, <1>5, <1>6, Zenon

\* tp_add_task stores a task that was not known in an empty slot whose waits[i]
\* was free.
LEMMA AddStoreStep == ASSUME IInv, AddStore PROVE IInv'
<1> USE PoolAssumption DEF IInv, PoolInv, AddStore, TypeOK, Task, Slot, NoTask, NoSlot
<1>1. TypeOK'
  BY DEF MainInv, MainPC
<1>2. MtxInv'
  BY Zenon DEF MtxInv
<1>3. MainInv'
  BY Zenon DEF MainInv, Closing
<1>4. FoundInv'
  BY Zenon DEF FoundInv, MainInv
<1>5. TableInv'
  BY DEF TableInv, MainInv, NoneLost, Known, SlotOf
<1>6. CarryInv'
  BY DEF CarryInv, MainInv, Known, SlotOf
<1>7. OneCarrier'
  BY Zenon DEF OneCarrier
<1>8. NoneLost'
  BY DEF NoneLost, MainInv, Known, SlotOf
<1>9. WaitInv'
  BY Zenon DEF WaitInv
<1>10. AwaitedInv'
  BY Zenon DEF AwaitedInv
<1>11. LockedInv'
  BY DEF LockedInv, MainInv
<1> QED
  BY <1>1, <1>2, <1>3, <1>4, <1>5, <1>6, <1>7, <1>8, <1>9, <1>10, <1>11, Zenon

\* The broadcast wakes waiters, none of which carries a task, and main records
\* the slot.
LEMMA AddBroadcastStep == ASSUME IInv, AddBroadcast PROVE IInv'
<1> USE PoolAssumption DEF IInv, PoolInv, AddBroadcast, TypeOK, Task, Slot, NoTask, NoSlot
<1>1. \A t \in Task : Known(t)' <=> Known(t)
  BY DEF Known
<1>2. \A t \in Task : Known(t) => SlotOf(t)' = SlotOf(t)
  BY DEF MainInv, Known, SlotOf
<1>3. TypeOK'
  BY DEF MainInv, MainPC, WorkerPC
<1>4. MtxInv'
  BY Zenon DEF MtxInv, Holding
<1>5. MainInv'
  BY DEF MainInv, Closing
<1>6. FoundInv'
  BY Zenon DEF FoundInv
<1>7. TableInv'
  BY <1>1, <1>2, Zenon DEF TableInv
<1>8. CarryInv'
  BY <1>1, <1>2, Zenon DEF CarryInv, Busy
<1>9. OneCarrier'
  BY Zenon DEF OneCarrier, Busy
<1>10. NoneLost'
  <2> SUFFICES ASSUME NEW t \in Task
      PROVE /\ Known(t)' => \/ runs'[t] = 1
                             \/ tasks'[SlotOf(t)'] = t
                             \/ \E v \in Threads : pc'[v] \in {"popped", "running"} /\ job'[v] = t
            /\ ~Known(t)' => runs'[t] = 0
            /\ runs'[t] \in {0, 1}
    BY Zenon DEF NoneLost
  <2> QED
    BY <1>1, <1>2, Zenon DEF NoneLost
<1>11. WaitInv'
  BY Zenon DEF WaitInv
<1>12. AwaitedInv'
  BY Zenon DEF AwaitedInv, Busy
<1>13. LockedInv'
  <2> SUFFICES ASSUME NEW i \in Slot, waits'[i]
      PROVE \/ tasks'[i] # NoTask
            \/ \E v \in Threads : pc'[v] \in Busy /\ tid'[v] = i
            \/ main' = "unlock" /\ ids'[waited' + 1] = i
    BY Zenon DEF LockedInv
  <2>1. \A v \in Threads : pc'[v] \in Busy <=> pc[v] \in Busy
    BY Zenon DEF Busy
  <2> QED
    BY <2>1, Zenon DEF LockedInv
<1> QED
  BY <1>3, <1>4, <1>5, <1>6, <1>7, <1>8, <1>9, <1>10, <1>11, <1>12, <1>13, Zenon

\* tp_wait_task gets waits[id]: slot id is empty and nobody carries its task.
LEMMA WaitLockStep == ASSUME IInv, WaitLock PROVE IInv'
<1> USE PoolAssumption DEF IInv, PoolInv, WaitLock, TypeOK, Task, Slot, NoTask, NoSlot
<1>1. TypeOK'
  BY Zenon DEF MainInv, MainPC
<1>2. MtxInv'
  BY Zenon DEF MtxInv
<1>3. MainInv'
  BY Zenon DEF MainInv, Closing
<1>4. FoundInv'
  BY Zenon DEF FoundInv
<1>5. TableInv'
  BY Zenon DEF TableInv, Known, SlotOf
<1>6. CarryInv'
  BY DEF CarryInv, Known, SlotOf
<1>7. OneCarrier'
  BY DEF OneCarrier
<1>8. NoneLost'
  BY Zenon DEF NoneLost, Known, SlotOf
<1>9. WaitInv'
  BY DEF WaitInv, MainInv, TableInv, CarryInv
<1>10. AwaitedInv'
  BY Zenon DEF AwaitedInv
<1>11. LockedInv'
  BY Zenon DEF LockedInv, MainInv
<1> QED
  BY <1>1, <1>2, <1>3, <1>4, <1>5, <1>6, <1>7, <1>8, <1>9, <1>10, <1>11, Zenon

\* tp_wait_task returns: the task it waited for has run.
LEMMA WaitUnlockStep == ASSUME IInv, WaitUnlock PROVE IInv'
<1> USE PoolAssumption DEF IInv, PoolInv, WaitUnlock, TypeOK, Task, Slot, NoTask, NoSlot
<1>1. TypeOK'
  <2>1. waited + 1 \in 0 .. TASKS
    BY DEF MainInv
  <2> QED
    BY <2>1, Zenon DEF MainPC
<1>2. MtxInv'
  BY Zenon DEF MtxInv
<1>3. MainInv'
  BY DEF MainInv, Closing
<1>4. FoundInv'
  BY Zenon DEF FoundInv
<1>5. TableInv'
  BY DEF TableInv, WaitInv, MainInv, Known, SlotOf
<1>6. CarryInv'
  BY DEF CarryInv, WaitInv, MainInv, Known, SlotOf
<1>7. OneCarrier'
  BY DEF OneCarrier
<1>8. NoneLost'
  BY Zenon DEF NoneLost, Known, SlotOf
<1>9. WaitInv'
  BY Zenon DEF WaitInv
<1>10. AwaitedInv'
  <2> DEFINE t == waited + 1
  <2>1. t \in Task /\ Known(t) /\ SlotOf(t) = ids[t]
    BY DEF MainInv, Known, SlotOf
  <2>2. \A v \in Threads : pc[v] \in Busy => job[v] # t
    BY <2>1 DEF CarryInv, WaitInv
  <2>3. runs[t] = 1
    BY <2>1, <2>2 DEF NoneLost, WaitInv, Busy
  <2> QED
    BY <2>2, <2>3, SMTT(30) DEF AwaitedInv, CarryInv
<1>11. LockedInv'
  BY Zenon DEF LockedInv, MainInv
<1> QED
  BY <1>1, <1>2, <1>3, <1>4, <1>5, <1>6, <1>7, <1>8, <1>9, <1>10, <1>11, Zenon

\* run_task_lock pops the task: the slot was not empty, so the worker now
\* carries what the table held.
LEMMA PopTaskStep == ASSUME IInv, NEW w \in Threads, PopTask(w) PROVE IInv'
<1> USE PoolAssumption DEF IInv, PoolInv, PopTask, TypeOK, Task, Slot, NoTask, NoSlot, mainVars
<1>1. TypeOK'
  BY Zenon DEF WorkerPC, FoundInv
<1>2. MtxInv'
  BY Zenon DEF MtxInv, FoundInv, Holding
<1>3. MainInv'
  BY Zenon DEF MainInv, FoundInv
<1>4. FoundInv'
  <2>1. mtx # Destroyed
    BY QuietLemma, Zenon DEF QuietAtClose, MtxInv, FoundInv, Closing
  <2>2. \A v \in Threads : pc[v] = "found" => v = w
    BY <2>1, Zenon DEF MtxInv, Holding
  <2> QED
    BY <2>2 DEF FoundInv
<1>5. TableInv'
  BY DEF TableInv, FoundInv, Known, SlotOf
<1>6. CarryInv'
  BY SMTT(30) DEF CarryInv, FoundInv, TableInv, Known, SlotOf, Busy
<1>7. OneCarrier'
  BY SMTT(30) DEF OneCarrier, FoundInv, CarryInv, Busy
<1>8. NoneLost'
  <2> SUFFICES ASSUME NEW t \in Task
      PROVE /\ Known(t)' => \/ runs'[t] = 1
                             \/ tasks'[SlotOf(t)'] = t
                             \/ \E v \in Threads : pc'[v] \in {"popped", "running"} /\ job'[v] = t
            /\ ~Known(t)' => runs'[t] = 0
            /\ runs'[t] \in {0, 1}
    BY Zenon DEF NoneLost
  <2>1. tid[w] \in Slot /\ tasks[tid[w]] # NoTask
    BY Zenon DEF FoundInv
  <2>2. CASE tasks[tid[w]] = t
    BY <2>1, <2>2 DEF NoneLost, TableInv, Known, SlotOf
  <2>3. CASE tasks[tid[w]] # t
    <3>1. \A v \in Threads : pc[v] \in {"popped", "running"} =>
            pc'[v] = pc[v] /\ job'[v] = job[v]
      OBVIOUS
    <3>2. Known(t)' <=> Known(t)
      BY Zenon DEF Known
    <3>3. tasks[SlotOf(t)] = t => tasks'[SlotOf(t)'] = t
      BY <2>1, <2>3 DEF SlotOf
    <3> QED
      BY <3>1, <3>2, <3>3, Zenon DEF NoneLost
  <2> QED
    BY <2>2, <2>3, Zenon
<1>9. WaitInv'
  BY SMTT(30) DEF WaitInv, FoundInv, Busy
<1>10. AwaitedInv'
  BY SMTT(30) DEF AwaitedInv, FoundInv, TableInv, Busy
<1>11. LockedInv'
  <2> SUFFICES ASSUME NEW i \in Slot, waits'[i]
      PROVE \/ tasks'[i] # NoTask
            \/ \E v \in Threads : pc'[v] \in Busy /\ tid'[v] = i
            \/ main' = "unlock" /\ ids'[waited' + 1] = i
    BY Zenon DEF LockedInv
  <2>1. tid[w] \in Slot /\ tasks[tid[w]] # NoTask
    BY Zenon DEF FoundInv
  <2> QED
    BY <2>1, Zenon DEF LockedInv, Busy
<1> QED
  BY <1>1, <1>2, <1>3, <1>4, <1>5, <1>6, <1>7, <1>8, <1>9, <1>10, <1>11, Zenon

\* run_task_lock gives up mtx; no pool with a task in hand is being closed.
LEMMA UnlockMtxStep == ASSUME IInv, NEW w \in Threads, UnlockMtx(w) PROVE IInv'
<1> USE PoolAssumption DEF IInv, PoolInv, UnlockMtx, TypeOK, Task, Slot, NoTask, NoSlot, mainVars
<1>1. TypeOK'
  BY Zenon DEF WorkerPC
<1>2. MtxInv'
  <2>1. mtx # Destroyed
    BY QuietLemma, Zenon DEF QuietAtClose, MtxInv, Busy, Closing
  <2> QED
    BY <2>1, Zenon DEF MtxInv, Holding
<1>3. MainInv'
  BY Zenon DEF MainInv
<1>4. FoundInv'
  BY Zenon DEF FoundInv
<1>5. TableInv'
  BY Zenon DEF TableInv, Known, SlotOf
<1>6. CarryInv'
  BY SMTT(30) DEF CarryInv, Known, SlotOf, Busy
<1>7. OneCarrier'
  BY Zenon DEF OneCarrier, Busy
<1>8. NoneLost'
  <2> SUFFICES ASSUME NEW t \in Task
      PROVE /\ Known(t)' => \/ runs'[t] = 1
                             \/ tasks'[SlotOf(t)'] = t
                             \/ \E v \in Threads : pc'[v] \in {"popped", "running"} /\ job'[v] = t
            /\ ~Known(t)' => runs'[t] = 0
            /\ runs'[t] \in {0, 1}
    BY Zenon DEF NoneLost
  <2> QED
    BY SMTT(30) DEF NoneLost, Known, SlotOf
<1>9. WaitInv'
  BY Zenon DEF WaitInv, Busy
<1>10. AwaitedInv'
  BY Zenon DEF AwaitedInv, Busy
<1>11. LockedInv'
  <2> SUFFICES ASSUME NEW i \in Slot, waits'[i]
      PROVE \/ tasks'[i] # NoTask
            \/ \E v \in Threads : pc'[v] \in Busy /\ tid'[v] = i
            \/ main' = "unlock" /\ ids'[waited' + 1] = i
    BY Zenon DEF LockedInv
  <2> QED
    BY Zenon DEF LockedInv, Busy
<1> QED
  BY <1>1, <1>2, <1>3, <1>4, <1>5, <1>6, <1>7, <1>8, <1>9, <1>10, <1>11, Zenon

\* The task runs, for the first time.
LEMMA ExecuteStep == ASSUME IInv, NEW w \in Threads, Execute(w) PROVE IInv'
<1> USE PoolAssumption DEF IInv, PoolInv, Execute, TypeOK, Task, Slot, NoTask, NoSlot, mainVars
<1>1. TypeOK'
  <2>1. job[w] \in Task
    BY Zenon DEF CarryInv, Busy
  <2>2. runs' \in [Task -> Nat]
    BY <2>1
  <2> QED
    BY <2>2, Zenon DEF WorkerPC
<1>2. MtxInv'
  BY Zenon DEF MtxInv, Holding
<1>3. MainInv'
  BY Zenon DEF MainInv
<1>4. FoundInv'
  BY Zenon DEF FoundInv
<1>5. TableInv'
  BY SMTT(30) DEF TableInv, CarryInv, Known, SlotOf, Busy
<1>6. CarryInv'
  <2>1. \A v \in Threads : pc[v] \in Busy /\ job[v] = job[w] => v = w
    BY DEF CarryInv, OneCarrier, Busy
  <2> QED
    BY <2>1, SMTT(30) DEF CarryInv, Known, SlotOf, Busy
<1>7. OneCarrier'
  BY Zenon DEF OneCarrier, Busy
<1>8. NoneLost'
  <2> SUFFICES ASSUME NEW t \in Task
      PROVE /\ Known(t)' => \/ runs'[t] = 1
                             \/ tasks'[SlotOf(t)'] = t
                             \/ \E v \in Threads : pc'[v] \in {"popped", "running"} /\ job'[v] = t
            /\ ~Known(t)' => runs'[t] = 0
            /\ runs'[t] \in {0, 1}
    BY Zenon DEF NoneLost
  <2> QED
    BY SMTT(30) DEF NoneLost, CarryInv, Known, SlotOf, Busy
<1>9. WaitInv'
  BY Zenon DEF WaitInv, Busy
<1>10. AwaitedInv'
  BY SMTT(30) DEF AwaitedInv, CarryInv, Busy
<1>11. LockedInv'
  <2> SUFFICES ASSUME NEW i \in Slot, waits'[i]
      PROVE \/ tasks'[i] # NoTask
            \/ \E v \in Threads : pc'[v] \in Busy /\ tid'[v] = i
            \/ main' = "unlock" /\ ids'[waited' + 1] = i
    BY Zenon DEF LockedInv
  <2> QED
    BY Zenon DEF LockedInv, Busy
<1> QED
  BY <1>1, <1>2, <1>3, <1>4, <1>5, <1>6, <1>7, <1>8, <1>9, <1>10, <1>11, Zenon

\* run_task_lock unlocks waits[id], which was locked for the task it ran.
LEMMA UnlockWaitStep == ASSUME IInv, NEW w \in Threads, UnlockWait(w) PROVE IInv'
<1> USE PoolAssumption DEF IInv, PoolInv, UnlockWait, TypeOK, Task, Slot, NoTask, NoSlot, mainVars
<1>1. TypeOK'
  BY Zenon DEF WorkerPC
<1>2. MtxInv'
  BY Zenon DEF MtxInv, Holding
<1>3. MainInv'
  BY Zenon DEF MainInv
<1>4. FoundInv'
  BY Zenon DEF FoundInv
<1>5. TableInv'
  BY SMTT(30) DEF TableInv, CarryInv, Known, SlotOf, Busy
<1>6. CarryInv'
  BY SMTT(30) DEF CarryInv, OneCarrier, Known, SlotOf, Busy
<1>7. OneCarrier'
  BY Zenon DEF OneCarrier, Busy
<1>8. NoneLost'
  <2> SUFFICES ASSUME NEW t \in Task
      PROVE /\ Known(t)' => \/ runs'[t] = 1
                             \/ tasks'[SlotOf(t)'] = t
                             \/ \E v \in Threads : pc'[v] \in {"popped", "running"} /\ job'[v] = t
            /\ ~Known(t)' => runs'[t] = 0
            /\ runs'[t] \in {0, 1}
    BY Zenon DEF NoneLost
  <2> QED
    BY Zenon DEF NoneLost, Known, SlotOf
<1>9. WaitInv'
  BY DEF WaitInv, Busy
<1>10. AwaitedInv'
  BY Zenon DEF AwaitedInv, Busy
<1>11. LockedInv'
  <2> SUFFICES ASSUME NEW i \in Slot, waits'[i]
      PROVE \/ tasks'[i] # NoTask
            \/ \E v \in Threads : pc'[v] \in Busy /\ tid'[v] = i
            \/ main' = "unlock" /\ ids'[waited' + 1] = i
    BY Zenon DEF LockedInv
  <2> QED
    BY SMTT(30) DEF LockedInv, Busy, CarryInv
<1> QED
  BY <1>1, <1>2, <1>3, <1>4, <1>5, <1>6, <1>7, <1>8, <1>9, <1>10, <1>11, Zenon

-----------------------------------------------------------------------------
\* Every step keeps the invariant.
LEMMA StepInv == IInv /\ [Next]_vars => IInv'
<1> SUFFICES ASSUME IInv, [Next]_vars PROVE IInv'
  OBVIOUS
<1>1. CASE Main
  BY <1>1, OtherMainStep, AddStoreStep, AddBroadcastStep, WaitLockStep, WaitUnlockStep, Zenon DEF Main
<1>2. ASSUME NEW w \in Threads, Worker(w) \/ SpuriousWake(w) PROVE IInv'
  BY <1>2, IdleWorkerStep, PopTaskStep, UnlockMtxStep, ExecuteStep, UnlockWaitStep, Zenon DEF Worker
<1>3. CASE UNCHANGED vars
  <2> USE <1>3 DEF vars, mainVars
  <2>1. TypeOK' /\ MtxInv' /\ MainInv' /\ FoundInv'
    BY SMTT(30) DEF IInv, TypeOK, MtxInv, MainInv, FoundInv
  <2>2. NoTaskMoves
    BY Zenon DEF NoTaskMoves
  <2>3. PoolInv'
    BY <2>2, NoTaskMovesKeepsPool DEF IInv
  <2> QED
    BY <2>1, <2>3, Zenon DEF IInv
<1> QED
  BY <1>1, <1>2, <1>3 DEF Next, Over

\* The inductive invariant holds in every reachable state.
THEOREM Invariance == Spec => []IInv
<1>1. Init => IInv
  BY InitInv
<1>2. IInv /\ [Next]_vars => IInv'
  BY StepInv
<1> QED
  BY <1>1, <1>2, PTL DEF Spec

\* The variables keep their types: the counters of main stay within its arrays
\* and no worker indexes the table out of its bounds.
THEOREM TypeCorrect == Spec => []TypeOK
<1>1. IInv => TypeOK
  BY DEF IInv
<1> QED
  BY <1>1, Invariance, PTL

\* run_task_lock never finds its slot empty.
THEOREM FoundTaskStaysHolds == Spec => []FoundTaskStays
<1>1. IInv => FoundTaskStays
  BY Zenon DEF IInv, FoundInv, FoundTaskStays
<1> QED
  BY <1>1, Invariance, PTL

\* waits[i] is locked exactly while the task of slot i is unfinished or being
\* waited for.
THEOREM WaitsTrackTasksHolds == Spec => []WaitsTrackTasks
<1>1. IInv => WaitsTrackTasks
  <2> SUFFICES ASSUME IInv, NEW i \in Slot
      PROVE waits[i] <=> \/ tasks[i] # NoTask
                         \/ \E w \in Threads : pc[w] \in Busy /\ tid[w] = i
                         \/ main = "unlock" /\ ids[waited + 1] = i
    BY Zenon DEF WaitsTrackTasks
  <2> USE DEF IInv, PoolInv, TypeOK
  <2>1. waits[i] => \/ tasks[i] # NoTask
                    \/ \E w \in Threads : pc[w] \in Busy /\ tid[w] = i
                    \/ main = "unlock" /\ ids[waited + 1] = i
    BY Zenon DEF LockedInv
  <2>2. tasks[i] # NoTask => waits[i]
    BY Zenon DEF TableInv
  <2>3. ASSUME NEW w \in Threads, pc[w] \in Busy, tid[w] = i PROVE waits[i]
    BY <2>3, Zenon DEF CarryInv
  <2>4. main = "unlock" /\ ids[waited + 1] = i => waits[i]
    BY Zenon DEF WaitInv
  <2> QED
    BY <2>1, <2>2, <2>3, <2>4, Zenon
<1> QED
  BY <1>1, Invariance, PTL

\* No task is executed twice.
THEOREM RunsOnceHolds == Spec => []RunsOnce
<1>1. IInv => RunsOnce
  BY DEF IInv, PoolInv, NoneLost, RunsOnce
<1> QED
  BY <1>1, Invariance, PTL

\* A task whose tp_wait_task has returned has been executed.
THEOREM AwaitedHasRunHolds == Spec => []AwaitedHasRun
<1>1. IInv => AwaitedHasRun
  BY DEF IInv, PoolInv, AwaitedInv, AwaitedHasRun
<1> QED
  BY <1>1, Invariance, PTL

\* tp_close finds the pool empty and no task running.
THEOREM QuietAtCloseHolds == Spec => []QuietAtClose
  BY QuietLemma, Invariance, PTL
-----------------------------------------------------------------------------
(* ThreadPool implements TaskPool. *)

AwaitedBy(t) == t <= waited \/ (main = "unlock" /\ t = waited + 1)

\* A step after which every task has the status it had, and the same tasks are
\* awaited, is a stuttering step of the abstract pool.
LEMMA StutterLemma ==
  ASSUME \A t \in Task : StatusOf(t)' = StatusOf(t),
         \A t \in Task : AwaitedBy(t)' <=> AwaitedBy(t)
  PROVE  UNCHANGED Pool!poolVars
  BY DEF Pool!poolVars, AwaitedBy

\* A step that advances one task is a step of the abstract pool.
LEMMA AdvanceLemma ==
  ASSUME NEW x \in Task, NEW from, NEW to,
         StatusOf(x) = from, StatusOf(x)' = to,
         \A t \in Task : t # x => StatusOf(t)' = StatusOf(t),
         \A t \in Task : AwaitedBy(t)' <=> AwaitedBy(t)
  PROVE  Pool!Advance(x, from, to)
  BY Zenon DEF Pool!Advance, AwaitedBy

\* A step that moves no task is a stuttering step of the abstract pool.
LEMMA NoTaskMovesStutters == ASSUME IInv, NoTaskMoves PROVE UNCHANGED Pool!poolVars
<1> USE DEF NoTaskMoves, IInv, TypeOK, Task
<1>1. \A t \in Task : (\E w \in Threads : pc'[w] \in Busy /\ job'[w] = t)
                      <=> (\E w \in Threads : pc[w] \in Busy /\ job[w] = t)
  BY Zenon
<1>2. \A t \in Task : StatusOf(t)' = StatusOf(t)
  BY <1>1, Zenon DEF StatusOf
<1>3. \A t \in Task : AwaitedBy(t)' <=> AwaitedBy(t)
  BY Zenon DEF AwaitedBy
<1> QED
  BY <1>2, <1>3, StutterLemma, Zenon

\* tp_add_task storing a task is Submit.
LEMMA AddStoreRefines == ASSUME IInv, AddStore PROVE Pool!PoolNext
<1> USE PoolAssumption DEF IInv, PoolInv, TypeOK, Task, Slot, NoTask, NoSlot, AddStore
<1> DEFINE x == added + 1
<1>1. x \in Task /\ ~Known(x) /\ slot \in Slot /\ tasks[slot] = NoTask
  BY SMTT(30) DEF MainInv, Known
<1>2. StatusOf(x) = "new"
  BY <1>1, SMTT(30) DEF StatusOf, NoneLost, TableInv, CarryInv
<1>3. \A w \in Threads : pc[w] \in Busy => job[w] # x
  BY <1>1 DEF CarryInv
<1>4. StatusOf(x)' = "pending"
  BY <1>1, <1>3, SMTT(30) DEF StatusOf, NoneLost
<1>5. ASSUME NEW t \in Task, t # x PROVE StatusOf(t)' = StatusOf(t)
  <2>1. (\E i \in Slot : tasks'[i] = t) <=> (\E i \in Slot : tasks[i] = t)
    BY <1>1, <1>5
  <2> QED
    BY <2>1, Zenon DEF StatusOf
<1>6. \A t \in Task : AwaitedBy(t)' <=> AwaitedBy(t)
  BY Zenon DEF AwaitedBy
<1>7. Pool!Submit(x)
  BY <1>1, <1>2, <1>4, <1>5, <1>6, AdvanceLemma, Zenon DEF Pool!Submit
<1> QED
  BY <1>1, <1>7, Zenon DEF Pool!PoolNext

\* run_task_lock popping a task is Start.
LEMMA PopTaskRefines == ASSUME IInv, NEW w \in Threads, PopTask(w) PROVE Pool!PoolNext
<1> USE PoolAssumption DEF IInv, PoolInv, TypeOK, Task, Slot, NoTask, NoSlot, PopTask, mainVars
<1>0. PICK x \in Task : x = tasks[tid[w]]
  BY Zenon DEF FoundInv
<1>1. tid[w] \in Slot /\ runs[x] = 0
  BY <1>0, Zenon DEF FoundInv, TableInv
<1>2. \A v \in Threads : pc[v] \in Busy => job[v] # x
  BY <1>0, <1>1, SMTT(30) DEF CarryInv, TableInv
<1>3. \A i \in Slot : tasks[i] = x => i = tid[w]
  BY <1>0, <1>1 DEF TableInv
<1>4. StatusOf(x) = "pending"
  BY <1>0, <1>1, <1>2, SMTT(30) DEF StatusOf
<1>5. pc'[w] \in Busy /\ job'[w] = x
  BY <1>0, <1>1, SMTT(30) DEF Busy
<1>6. StatusOf(x)' = "running"
  BY <1>0, <1>1, <1>5, SMTT(30) DEF StatusOf
<1>7. ASSUME NEW t \in Task, t # x PROVE StatusOf(t)' = StatusOf(t)
  <2>1. (\E i \in Slot : tasks'[i] = t) <=> (\E i \in Slot : tasks[i] = t)
    BY <1>0, <1>1, <1>7, SMTT(30)
  <2>2. \A v \in Threads : pc'[v] \in Busy /\ job'[v] = t <=> pc[v] \in Busy /\ job[v] = t
    BY <1>0, <1>5, <1>7, Zenon DEF Busy
  <2> QED
    BY <2>1, <2>2, Zenon DEF StatusOf
<1>8. \A t \in Task : AwaitedBy(t)' <=> AwaitedBy(t)
  BY Zenon DEF AwaitedBy
<1>9. Pool!Start(x)
  BY <1>0, <1>1, <1>4, <1>6, <1>7, <1>8, AdvanceLemma, Zenon DEF Pool!Start
<1> QED
  BY <1>0, <1>1, <1>9, Zenon DEF Pool!PoolNext

\* The return of the task function is Finish.
LEMMA ExecuteRefines == ASSUME IInv, NEW w \in Threads, Execute(w) PROVE Pool!PoolNext
<1> USE PoolAssumption DEF IInv, PoolInv, TypeOK, Task, Slot, NoTask, NoSlot, Execute, mainVars
<1> DEFINE x == job[w]
<1>1. pc[w] \in Busy /\ x \in Task /\ runs[x] = 0
  BY Zenon DEF CarryInv, Busy
<1>2. StatusOf(x) = "running"
  BY <1>1 DEF StatusOf
<1>3. StatusOf(x)' = "done"
  BY <1>1 DEF StatusOf
<1>4. ASSUME NEW t \in Task, t # x PROVE StatusOf(t)' = StatusOf(t)
  <2>1. \A v \in Threads : pc'[v] \in Busy <=> pc[v] \in Busy
    BY Zenon DEF Busy
  <2> QED
    BY <1>1, <1>4, <2>1, Zenon DEF StatusOf
<1>5. \A t \in Task : AwaitedBy(t)' <=> AwaitedBy(t)
  BY Zenon DEF AwaitedBy
<1>6. Pool!Finish(x)
  BY <1>1, <1>2, <1>3, <1>4, <1>5, AdvanceLemma, Zenon DEF Pool!Finish
<1> QED
  BY <1>1, <1>6, Zenon DEF Pool!PoolNext

\* tp_wait_task getting its lock is Await.
LEMMA WaitLockRefines == ASSUME IInv, WaitLock PROVE Pool!PoolNext
<1> USE PoolAssumption DEF IInv, PoolInv, TypeOK, Task, Slot, NoTask, NoSlot, WaitLock
<1>0. PICK x \in Task : x = waited + 1
  BY SMTT(30) DEF MainInv
<1>1. Known(x) /\ SlotOf(x) = ids[x] /\ ids[x] \in Slot
  BY <1>0, SMTT(30) DEF MainInv, Known, SlotOf
<1>2. runs[x] = 1
  <2>1. tasks[ids[x]] # x
    BY <1>0, <1>1 DEF TableInv
  <2>2. \A w \in Threads : pc[w] \in Busy => job[w] # x
    BY <1>0, <1>1, SMTT(30) DEF CarryInv
  <2> QED
    BY <1>1, <2>1, <2>2, Zenon DEF NoneLost, Busy
<1>3. StatusOf(x) = "done"
  BY <1>2 DEF StatusOf
<1>4. \A t \in Task : StatusOf(t)' = StatusOf(t)
  BY Zenon DEF StatusOf
<1>5. \A t \in Task : AwaitedBy(t)' <=> AwaitedBy(t) \/ t = x
  BY <1>0, Zenon DEF AwaitedBy
<1>6. Pool!Await(x)
  <2>1. {t \in Task : AwaitedBy(t)}' = {t \in Task : AwaitedBy(t)} \cup {x}
    BY <1>5, Zenon
  <2>2. [t \in Task |-> StatusOf(t)]' = [t \in Task |-> StatusOf(t)]
    BY <1>4, Zenon
  <2> QED
    BY <1>3, <2>1, <2>2, Zenon DEF Pool!Await, AwaitedBy
<1> QED
  BY <1>6, Zenon DEF Pool!PoolNext

\* The remaining steps that touch tasks change nothing the caller can see.
LEMMA HiddenSteps ==
  ASSUME IInv,
         \/ AddBroadcast \/ WaitUnlock
         \/ \E w \in Threads : UnlockMtx(w) \/ UnlockWait(w)
  PROVE  UNCHANGED Pool!poolVars
<1> USE PoolAssumption DEF IInv, PoolInv, TypeOK, Task, Slot, NoTask, NoSlot
<1>1. CASE AddBroadcast
  <2>1. \A v \in Threads : pc'[v] \in Busy <=> pc[v] \in Busy
    BY <1>1, Zenon DEF AddBroadcast, Busy
  <2>2. \A t \in Task : StatusOf(t)' = StatusOf(t)
    BY <1>1, <2>1, Zenon DEF AddBroadcast, StatusOf
  <2>3. \A t \in Task : AwaitedBy(t)' <=> AwaitedBy(t)
    BY <1>1, Zenon DEF AddBroadcast, AwaitedBy
  <2> QED
    BY <2>2, <2>3, StutterLemma, Zenon
<1>2. CASE WaitUnlock
  <2>1. \A t \in Task : StatusOf(t)' = StatusOf(t)
    BY <1>2, Zenon DEF WaitUnlock, StatusOf
  <2>2. \A t \in Task : AwaitedBy(t)' <=> AwaitedBy(t)
    BY <1>2, SMTT(30) DEF WaitUnlock, AwaitedBy
  <2> QED
    BY <2>1, <2>2, StutterLemma
<1>3. ASSUME NEW w \in Threads, UnlockMtx(w) PROVE UNCHANGED Pool!poolVars
  <2>1. \A v \in Threads : pc'[v] \in Busy <=> pc[v] \in Busy
    BY <1>3, Zenon DEF UnlockMtx, Busy
  <2>2. \A t \in Task : StatusOf(t)' = StatusOf(t)
    BY <1>3, <2>1, Zenon DEF UnlockMtx, StatusOf
  <2>3. \A t \in Task : AwaitedBy(t)' <=> AwaitedBy(t)
    BY <1>3, Zenon DEF UnlockMtx, AwaitedBy, mainVars
  <2> QED
    BY <2>2, <2>3, StutterLemma, Zenon
<1>4. ASSUME NEW w \in Threads, UnlockWait(w) PROVE UNCHANGED Pool!poolVars
  <2>1. job[w] \in Task /\ runs[job[w]] = 1
    BY <1>4, Zenon DEF UnlockWait, CarryInv, Busy
  <2>2. \A v \in Threads : v # w => pc'[v] = pc[v] /\ job'[v] = job[v]
    BY <1>4, SMTT(30) DEF UnlockWait
  <2>3. pc'[w] \notin Busy
    BY <1>4, Zenon DEF UnlockWait, Busy
  <2>4. UNCHANGED <<runs, tasks>>
    BY <1>4, Zenon DEF UnlockWait
  <2>5. ASSUME NEW t \in Task PROVE StatusOf(t)' = StatusOf(t)
    <3>1. CASE runs[t] > 0
      BY <2>4, <3>1, Zenon DEF StatusOf
    <3>2. CASE runs[t] = 0
      <4>1. \A v \in Threads : pc'[v] \in Busy /\ job'[v] = t <=> pc[v] \in Busy /\ job[v] = t
        <5>1. job[w] # t
          BY <2>1, <3>2, SMTT(30)
        <5> QED
          BY <2>2, <2>3, <5>1, Zenon
      <4> QED
        BY <2>4, <4>1 DEF StatusOf
    <3> QED
      BY <3>1, <3>2, SMTT(30)
  <2>6. \A t \in Task : AwaitedBy(t)' <=> AwaitedBy(t)
    BY <1>4, Zenon DEF UnlockWait, AwaitedBy, mainVars
  <2> QED
    BY <2>5, <2>6, StutterLemma, Zenon
<1> QED
  BY <1>1, <1>2, <1>3, <1>4, Zenon

\* The slots, locks and workers of thread_pool.c together do what TaskPool
\* says: each task is added, taken, finished and awaited in that order, and
\* taken and finished once.
THEOREM Refinement == Spec => ImplementsTaskPool
<1>1. Init => Pool!PoolInit
  BY PoolAssumption DEF Init, Pool!PoolInit, StatusOf, Task, Slot, NoTask, Busy
<1>2. IInv /\ [Next]_vars => [Pool!PoolNext]_(Pool!poolVars)
  <2> SUFFICES ASSUME IInv, [Next]_vars PROVE Pool!PoolNext \/ UNCHANGED Pool!poolVars
    OBVIOUS
  <2>1. CASE Main
    BY <2>1, OtherMainStep, NoTaskMovesStutters, AddStoreRefines, WaitLockRefines, HiddenSteps, Zenon DEF Main
  <2>2. ASSUME NEW w \in Threads, Worker(w) \/ SpuriousWake(w)
        PROVE Pool!PoolNext \/ UNCHANGED Pool!poolVars
    BY <2>2, IdleWorkerStep, NoTaskMovesStutters, PopTaskRefines, ExecuteRefines, HiddenSteps DEF Worker
  <2>3. CASE UNCHANGED vars
    <3>1. NoTaskMoves
      BY <2>3 DEF vars, mainVars, NoTaskMoves
    <3> QED
      BY <3>1, NoTaskMovesStutters
  <2> QED
    BY <2>1, <2>2, <2>3 DEF Next, Over
<1> QED
  BY <1>1, <1>2, Invariance, PTL DEF Spec, ImplementsTaskPool, Pool!PoolSpec
=============================================================================
