---------------------------- MODULE SignalProofs ----------------------------
(***************************************************************************)
(* Proofs about programs and their signal handlers.                        *)
(*                                                                         *)
(* AnyTimer, for any number of entries, jobs and seconds: the table holds  *)
(* pending jobs only, and they fire when they are due.                     *)
(*                                                                         *)
(* SignalRounds, for any number of lines, stars and signals: no line is    *)
(* interrupted and no signal that came under the handler kills.            *)
(***************************************************************************)
EXTENDS AnyTimer, SignalRounds, TLAPS

-----------------------------------------------------------------------------
(* AnyTimer *)

InWait == pc \in {"check", "toPause", "paused"}
Adding == pc \in {"signal", "alarm", "scan", "malloc", "store"}

\* id is an index of tasks[] where it is used as one.
IndexInv == pc \in {"malloc", "store", "toFree", "free", "unlink"} \/ InWait => id \in Slot

\* The job that is being added is not in the table, and its entry stays free.
AddInv ==
  /\ Adding => adds \in Job /\ status[adds] = "none"
  /\ pc \in {"malloc", "store"} => tasks[id] = NULL
  /\ pc = "store" => t = adds /\ alive[t] /\ sec[t] = asked[t]

NoneInv ==
  \A k \in Job : /\ k > adds => status[k] = "none"
                 /\ status[k] = "none" => age[k] = 0 /\ idOf[k] = -1

\* A job in the table is pending, but for the one at_cancel_job has just freed.
StoredInv ==
  \A n \in Slot : tasks[n] # NULL =>
    /\ idOf[tasks[n]] = n
    /\ \/ Pending(tasks[n]) /\ alive[tasks[n]]
       \/ pc \in {"unlink", "undefined"} /\ n = id /\ status[tasks[n]] = "cancelled" /\ ~alive[tasks[n]]

\* A pending job is in its entry, with the seconds it has left.
PendingInv ==
  \A k \in Job : Pending(k) =>
    /\ idOf[k] \in Slot /\ tasks[idOf[k]] = k
    /\ sec[k] + age[k] = asked[k] /\ (asked[k] > 0 => sec[k] > 0)

FiredInv == \A k \in Job : status[k] = "fired" => age[k] = asked[k]

\* The struct at_cancel_job works on is in its entry until the handler has freed it.
CancelInv ==
  /\ pc \in {"toFree", "free"} => t \in Job /\ idOf[t] = id /\ (alive[t] => tasks[id] = t)
  /\ pc = "unlink" => t \in Job /\ tasks[id] = t /\ ~alive[t]

\* An entry is given to a later job only after the earlier one has ended.
OrderInv == \A h, k \in Job : h < k /\ idOf[h] = idOf[k] /\ idOf[k] # -1 => ~Pending(h)

\* at_wait and the job it was called for, if no later job has the same id: once the
\* job has ended, at most one tick is slept through.
NoLater == \A k \in Job : k > t => idOf[k] # id

WaitInv ==
  InWait =>
    /\ t \in Job /\ idOf[t] = id
    /\ NoLater => /\ late <= 1
                  /\ Pending(t) => late = 0
                  /\ pc \in {"toPause", "paused"} /\ tasks[id] = NULL => late = 0

IInv ==
  /\ TypeOK /\ IndexInv /\ AddInv /\ NoneInv /\ StoredInv /\ PendingInv
  /\ FiredInv /\ CancelInv /\ OrderInv /\ WaitInv

LEMMA Consts == /\ MAX_TASKS \in Nat /\ MAX_TASKS > 0 /\ MaxJobs \in Nat /\ MinSec \in Int /\ MinSec < 0
                /\ Slot \subseteq Nat /\ Job \subseteq Nat /\ 0 \notin Job /\ -1 \notin Slot
  BY TimerAssumption DEF Slot, Job

-----------------------------------------------------------------------------
\* The initial state of the library, with an empty table, satisfies the invariant.
LEMMA InitIInv == Init => IInv
<1> SUFFICES ASSUME Init PROVE IInv
  OBVIOUS
<1> USE Consts DEF Init
<1>1. TypeOK
  <2>1. /\ tasks \in [Slot -> Job \cup {NULL}] /\ t \in Job \cup {NULL}
        /\ status \in [Job -> {"none", "pending", "fired", "cancelled"}]
        /\ idOf \in [Job -> Slot \cup {-1}] /\ pc \in PC
    BY DEF PC
  <2>2. sec \in [Job -> Int] /\ asked \in [Job -> Nat] /\ age \in [Job -> Nat]
    OBVIOUS
  <2>3. id \in 0 .. MAX_TASKS /\ adds \in 0 .. MaxJobs /\ late \in 0 .. 2
    OBVIOUS
  <2>4. alive \in [Job -> BOOLEAN] /\ inited \in BOOLEAN /\ timer \in BOOLEAN /\ caught \in BOOLEAN
    BY Zenon
  <2> QED
    BY <2>1, <2>2, <2>3, <2>4 DEF TypeOK
<1>2. IndexInv /\ AddInv /\ CancelInv /\ WaitInv
  BY DEF IndexInv, AddInv, CancelInv, WaitInv, InWait, Adding
<1>3. NoneInv /\ PendingInv /\ FiredInv /\ OrderInv
  BY DEF NoneInv, PendingInv, FiredInv, OrderInv, Pending
<1>4. StoredInv
  BY DEF StoredInv
<1> QED
  BY <1>1, <1>2, <1>3, <1>4 DEF IInv

\* While nothing is being cancelled, a job in the table is pending and alive, and
\* the entry of an awaited job that has ended is free.
LEMMA StoredPending ==
  ASSUME IInv, pc \notin {"unlink", "undefined"}, NEW n \in Slot, tasks[n] # NULL
  PROVE  tasks[n] \in Job /\ Pending(tasks[n]) /\ alive[tasks[n]] /\ idOf[tasks[n]] = n
  BY DEF IInv, TypeOK, StoredInv

LEMMA EndedEntryFree ==
  ASSUME IInv, InWait, NoLater, ~Pending(t) PROVE tasks[id] = NULL
<1> SUFFICES ASSUME NEW k, k = tasks[id], k # NULL PROVE FALSE
  OBVIOUS
<1>1. id \in Slot /\ t \in Job /\ idOf[t] = id
  BY DEF IInv, IndexInv, WaitInv
<1>2. k \in Job /\ Pending(k) /\ idOf[k] = id
  BY <1>1, StoredPending DEF InWait
<1>3. k # t /\ ~(k > t)
  BY <1>2, Zenon DEF NoLater
<1>4. k < t
  BY <1>1, <1>2, <1>3, Consts
<1> QED
  BY <1>1, <1>2, <1>4, Consts DEF IInv, OrderInv

-----------------------------------------------------------------------------
(* The handler *)

LEMMA HandleStep == ASSUME IInv, handle, ~Dangling, pc \notin {"killed", "undefined"} PROVE IInv'
<1> DEFINE seen == {tasks[n] : n \in Stored}
<1>1. /\ UNCHANGED <<inited, caught, id, t, adds, asked, idOf>> /\ timer' = TRUE
      /\ sec' = [k \in Job |-> IF k \in seen /\ sec[k] > MinSec THEN sec[k] - 1 ELSE sec[k]]
      /\ age' = [k \in Job |-> IF k \in seen /\ sec[k] > MinSec THEN age[k] + 1 ELSE age[k]]
      /\ status' = [k \in Job |-> IF k \in Due THEN "fired" ELSE status[k]]
      /\ alive' = [k \in Job |-> alive[k] /\ k \notin Due]
      /\ tasks' = [n \in Slot |-> IF tasks[n] \in Due THEN NULL ELSE tasks[n]]
      /\ late' = IF pc = "paused" /\ late < 2 /\ ~Pending(t) THEN late + 1 ELSE late
  BY DEF handle, runTasks
<1>2. pc' \in {pc, "undefined"} \/ (pc = "paused" /\ pc' = "check")
  BY DEF handle, Interrupted
<1>3. pc # "unlink"
  BY DEF IInv, IndexInv, CancelInv, Dangling, Stored, Consts, NULL, Job
<1>4. \A n \in Stored : tasks[n] \in Job /\ Pending(tasks[n]) /\ alive[tasks[n]] /\ idOf[tasks[n]] = n
  BY <1>3, StoredPending DEF Stored
<1>5. \A k \in Due : k \in seen /\ k \in Job /\ Pending(k) /\ sec[k] = 1
  BY <1>4 DEF Due
<1>6. \A k \in Job : Pending(k) => k \in seen
  BY Consts, Zenon DEF IInv, PendingInv, Stored, NULL
<1>7. \A k \in Job : Pending(k)' <=> Pending(k) /\ k \notin Due
  BY <1>1 DEF Pending
<1>8. TypeOK'
  <2>1. tasks' \in [Slot -> Job \cup {NULL}] /\ status' \in [Job -> {"none", "pending", "fired", "cancelled"}]
    BY <1>1, Zenon DEF IInv, TypeOK
  <2>2. sec' \in [Job -> Int] /\ age' \in [Job -> Nat]
    BY <1>1 DEF IInv, TypeOK
  <2>3. alive' \in [Job -> BOOLEAN]
    BY <1>1 DEF IInv, TypeOK
  <2>4. pc' \in PC
    BY <1>2, Zenon DEF IInv, TypeOK, PC
  <2>5. late' \in 0 .. 2
    BY <1>1 DEF IInv, TypeOK
  <2> QED
    BY <1>1, <2>1, <2>2, <2>3, <2>4, <2>5 DEF IInv, TypeOK
<1>9. IndexInv'
  BY <1>1, <1>2 DEF IInv, IndexInv, InWait
<1>10. AddInv'
  <2>1. Adding' => Adding /\ pc' = pc
    BY <1>2 DEF Adding
  <2>2. Adding => adds \in Job /\ adds \notin Due /\ adds \notin seen
    BY <1>4, <1>5, Zenon DEF IInv, AddInv, Pending
  <2>3. ASSUME Adding' PROVE adds' \in Job /\ status'[adds'] = "none"
    BY <1>1, <2>1, <2>2, <2>3, Zenon DEF IInv, AddInv
  <2>4. ASSUME pc' \in {"malloc", "store"} PROVE tasks'[id'] = NULL
    BY <1>1, <1>2, <2>4 DEF IInv, AddInv, IndexInv
  <2>5. ASSUME pc' = "store" PROVE t' = adds' /\ alive'[t'] /\ sec'[t'] = asked'[t']
    <3>1. Adding /\ pc = "store"
      BY <1>2, <2>5, Zenon DEF Adding
    <3> QED
      BY <1>1, <2>2, <3>1, Zenon DEF IInv, AddInv
  <2> QED
    BY <2>3, <2>4, <2>5 DEF AddInv
<1>11. NoneInv'
  <2> SUFFICES ASSUME NEW k \in Job
               PROVE  /\ k > adds => status'[k] = "none"
                      /\ status'[k] = "none" => age'[k] = 0 /\ idOf[k] = -1
    BY <1>1 DEF NoneInv
  <2>1. status[k] = "none" => k \notin Due /\ k \notin seen
    BY <1>4, <1>5 DEF Pending
  <2>2. status'[k] = "none" => status[k] = "none"
    BY <1>1
  <2> QED
    BY <1>1, <2>1, <2>2, Zenon DEF IInv, NoneInv
<1>12. StoredInv'
  <2> SUFFICES ASSUME NEW n \in Slot, tasks'[n] # NULL
               PROVE  idOf[tasks'[n]] = n /\ status'[tasks'[n]] = "pending" /\ alive'[tasks'[n]]
    BY <1>1, Zenon DEF StoredInv, Pending
  <2>1. tasks'[n] = tasks[n] /\ tasks[n] \notin Due /\ n \in Stored
    BY <1>1 DEF Stored
  <2> QED
    BY <1>1, <1>4, <2>1, Zenon DEF Pending
<1>13. PendingInv'
  <2> SUFFICES ASSUME NEW k \in Job, Pending(k)'
               PROVE  /\ idOf[k] \in Slot /\ tasks'[idOf[k]] = k
                      /\ sec'[k] + age'[k] = asked[k] /\ (asked[k] > 0 => sec'[k] > 0)
    BY <1>1 DEF PendingInv
  <2>1. Pending(k) /\ k \notin Due /\ k \in seen
    BY <1>6, <1>7, Zenon
  <2>2. idOf[k] \in Slot /\ tasks[idOf[k]] = k /\ sec[k] + age[k] = asked[k] /\ (asked[k] > 0 => sec[k] > 0)
    BY <2>1, Zenon DEF IInv, PendingInv
  <2>3. tasks'[idOf[k]] = k
    BY <1>1, <2>1, <2>2, Zenon
  <2>4. sec[k] # 1
    BY <2>1, <2>2, Consts DEF Due, Stored, NULL
  <2>5. sec[k] \in Int /\ age[k] \in Int /\ asked[k] \in Int
    BY DEF IInv, TypeOK
  <2>6. \/ sec'[k] = sec[k] - 1 /\ age'[k] = age[k] + 1
        \/ ~(sec[k] > MinSec) /\ sec'[k] = sec[k] /\ age'[k] = age[k]
    BY <1>1, <2>1
  <2> QED
    BY <2>2, <2>3, <2>4, <2>5, <2>6, Consts
<1>14. FiredInv'
  <2> SUFFICES ASSUME NEW k \in Job, status'[k] = "fired" PROVE age'[k] = asked[k]
    BY <1>1 DEF FiredInv
  <2>1. CASE k \in Due
    <3>1. k \in seen /\ sec[k] = 1 /\ sec[k] + age[k] = asked[k]
      BY <1>5, <2>1, Zenon DEF IInv, PendingInv
    <3>2. age'[k] = age[k] + 1 /\ age[k] \in Int
      BY <1>1, <3>1, Consts DEF IInv, TypeOK
    <3> QED
      BY <3>1, <3>2
  <2>2. CASE k \notin Due
    <3>1. status[k] = "fired" /\ k \notin seen
      BY <1>1, <1>4, <2>2, Zenon DEF Pending
    <3> QED
      BY <1>1, <3>1, Zenon DEF IInv, FiredInv
  <2> QED
    BY <2>1, <2>2, Zenon
<1>15. CancelInv'
  <2>1. pc' # "unlink"
    BY <1>2, <1>3, Zenon
  <2>2. ASSUME pc' \in {"toFree", "free"} PROVE t \in Job /\ idOf[t] = id /\ (alive'[t] => tasks'[id] = t)
    <3>1. pc' = pc /\ t \in Job /\ idOf[t] = id /\ (alive[t] => tasks[id] = t) /\ id \in Slot
      BY <1>2, <2>2 DEF IInv, CancelInv, IndexInv
    <3>2. alive'[t] => alive[t] /\ t \notin Due
      BY <1>1, <3>1, Zenon
    <3> QED
      BY <1>1, <3>1, <3>2
  <2> QED
    BY <1>1, <2>1, <2>2 DEF CancelInv
<1>16. OrderInv'
  BY <1>1, <1>7, Zenon DEF IInv, OrderInv
<1>17. WaitInv'
  <2> SUFFICES ASSUME InWait' PROVE WaitInv'
    BY DEF WaitInv
  <2>1. InWait /\ t \in Job /\ idOf[t] = id /\ id \in Slot
    BY <1>2, Zenon DEF InWait, IInv, WaitInv, IndexInv
  <2>2. t' = t /\ id' = id /\ idOf' = idOf /\ (NoLater' <=> NoLater)
    BY <1>1 DEF NoLater
  <2>3. ASSUME NoLater
        PROVE  /\ late' <= 1 /\ (Pending(t)' => late' = 0)
               /\ pc' \in {"toPause", "paused"} /\ tasks'[id] = NULL => late' = 0
    <3>1. late \in 0 .. 2 /\ late <= 1 /\ (Pending(t) => late = 0)
      BY <2>1, <2>3, Zenon DEF IInv, WaitInv, TypeOK
    <3>2. CASE Pending(t)
      BY <1>1, <3>1, <3>2
    <3>3. CASE ~Pending(t)
      <4>1. tasks[id] = NULL /\ ~Pending(t)'
        <5>1. tasks[id] = NULL
          BY <2>1, <2>3, <3>3, EndedEntryFree, Zenon
        <5>2. ~Pending(t)'
          BY <1>1, <2>1, <3>3, Zenon DEF Pending
        <5> QED
          BY <5>1, <5>2
      <4>2. pc \in {"toPause", "paused"} => late = 0
        BY <2>1, <2>3, <4>1 DEF IInv, WaitInv
      <4>3. CASE pc = "paused"
        <5>1. late' = 1 /\ pc' \notin {"toPause", "paused"}
          BY <1>1, <3>3, <4>2, <4>3 DEF handle, Interrupted
        <5> QED
          BY <4>1, <5>1
      <4>4. CASE pc # "paused"
        <5>1. late' = late /\ (pc' \in {"toPause", "paused"} => pc \in {"toPause", "paused"})
          BY <1>1, <1>2, <4>4
        <5> QED
          BY <3>1, <4>1, <4>2, <5>1, Zenon
      <4> QED
        BY <4>3, <4>4
    <3> QED
      BY <3>2, <3>3, Zenon
  <2> QED
    BY <2>1, <2>2, <2>3 DEF WaitInv
<1> QED
  BY <1>8, <1>9, <1>10, <1>11, <1>12, <1>13, <1>14, <1>15, <1>16, <1>17, Zenon DEF IInv

-----------------------------------------------------------------------------
(* Steps that leave the table and the jobs as they are *)

LEMMA SameTable ==
  ASSUME IInv, UNCHANGED <<tasks, sec, alive, adds, status, asked, age, idOf>>,
         pc \notin {"unlink", "undefined"} \/ (pc' \in {"unlink", "undefined"} /\ id' = id)
  PROVE  NoneInv' /\ StoredInv' /\ PendingInv' /\ FiredInv' /\ OrderInv'
<1>1. NoneInv' /\ PendingInv' /\ FiredInv'
  BY DEF IInv, NoneInv, PendingInv, FiredInv, Pending
<1>2. OrderInv'
  BY Zenon DEF IInv, OrderInv, Pending
<1>3. StoredInv'
  BY Zenon DEF IInv, StoredInv, Pending
<1> QED
  BY <1>1, <1>2, <1>3, Zenon

\* A signal handler that only stops the program, and malloc without memory.
LEMMA StopStep ==
  ASSUME IInv, UNCHANGED <<libVars, id, t, histVars>>, pc # "undefined",
         pc' = "undefined" \/ (pc' = "killed" /\ pc # "unlink")
  PROVE  IInv'
<1> USE DEF libVars, histVars
<1>1. NoneInv' /\ StoredInv' /\ PendingInv' /\ FiredInv' /\ OrderInv'
  BY SameTable, Zenon
<1>2. TypeOK'
  BY Zenon DEF IInv, TypeOK, PC
<1>3. IndexInv' /\ AddInv' /\ CancelInv' /\ WaitInv'
  BY DEF IndexInv, AddInv, CancelInv, WaitInv, InWait, Adding
<1> QED
  BY <1>1, <1>2, <1>3, Zenon DEF IInv

LEMMA AddQuietStep == ASSUME IInv, AddSignal \/ AddAlarm \/ AddScan PROVE IInv'
<1> USE DEF libVars, histVars
<1>1. /\ UNCHANGED <<inited, tasks, sec, alive, t, adds, status, asked, age, idOf, late>>
      /\ pc \in {"signal", "alarm", "scan"} /\ pc' \in {"alarm", "scan", "malloc", "idle"}
      /\ pc' = "malloc" => id' \in Slot /\ tasks[id'] = NULL
      /\ id' \in 0 .. MAX_TASKS
  BY Consts DEF IInv, TypeOK, AddSignal, AddAlarm, AddScan, Slot
<1>2. NoneInv' /\ StoredInv' /\ PendingInv' /\ FiredInv' /\ OrderInv'
  BY <1>1, SameTable, Zenon
<1>3. TypeOK'
  <2>1. timer' \in BOOLEAN /\ caught' \in BOOLEAN /\ pc' \in PC
    BY <1>1, Zenon DEF IInv, TypeOK, PC, AddSignal, AddAlarm, AddScan
  <2> QED
    BY <1>1, <2>1 DEF IInv, TypeOK
<1>4. IndexInv' /\ AddInv' /\ CancelInv' /\ WaitInv'
  BY <1>1, Zenon DEF IInv, IndexInv, AddInv, CancelInv, WaitInv, InWait, Adding
<1> QED
  BY <1>2, <1>3, <1>4, Zenon DEF IInv

LEMMA CancelCallStep == ASSUME IInv, NEW n \in Slot, CancelCall(n) PROVE IInv'
<1> USE DEF libVars, histVars, CancelCall
<1>1. NoneInv' /\ StoredInv' /\ PendingInv' /\ FiredInv' /\ OrderInv'
  BY SameTable, Zenon
<1>2. TypeOK'
  <2>1. id' \in 0 .. MAX_TASKS
    BY Consts DEF Slot
  <2>2. t' \in Job \cup {NULL} /\ pc' \in PC
    BY Zenon DEF IInv, TypeOK, PC
  <2> QED
    BY <2>1, <2>2, Zenon DEF IInv, TypeOK
<1>3. IndexInv' /\ AddInv' /\ WaitInv'
  BY Zenon DEF IndexInv, AddInv, WaitInv, InWait, Adding
<1>4. CancelInv'
  BY StoredPending, Zenon DEF CancelInv
<1> QED
  BY <1>1, <1>2, <1>3, <1>4, Zenon DEF IInv

LEMMA CancelFreeStep == ASSUME IInv, CancelFree PROVE IInv'
<1> USE DEF libVars, histVars, CancelFree
<1>1. NoneInv' /\ StoredInv' /\ PendingInv' /\ FiredInv' /\ OrderInv'
  BY SameTable, Zenon
<1>2. TypeOK'
  BY Zenon DEF IInv, TypeOK, PC
<1>3. IndexInv' /\ AddInv' /\ WaitInv' /\ CancelInv'
  BY Zenon DEF IInv, IndexInv, AddInv, WaitInv, CancelInv, InWait, Adding
<1> QED
  BY <1>1, <1>2, <1>3, Zenon DEF IInv

-----------------------------------------------------------------------------
(* at_wait *)

LEMMA WaitCallStep == ASSUME IInv, NEW k \in Added, WaitCall(k) PROVE IInv'
<1> USE DEF libVars, histVars, WaitCall
<1>1. NoneInv' /\ StoredInv' /\ PendingInv' /\ FiredInv' /\ OrderInv'
  BY SameTable, Zenon
<1>2. k \in Job /\ idOf[k] \in Slot
  BY DEF IInv, TypeOK, Added
<1>3. TypeOK'
  <2>1. id' \in 0 .. MAX_TASKS
    BY <1>2, Consts DEF Slot
  <2> QED
    BY <1>2, <2>1 DEF IInv, TypeOK, PC
<1>4. IndexInv' /\ AddInv' /\ CancelInv' /\ WaitInv'
  BY <1>2 DEF IndexInv, AddInv, CancelInv, WaitInv, InWait, Adding
<1> QED
  BY <1>1, <1>3, <1>4, Zenon DEF IInv

LEMMA WaitStep == ASSUME IInv, WaitCheck \/ WaitPause PROVE IInv'
<1> USE DEF libVars, histVars
<1>1. /\ UNCHANGED <<libVars, id, t, histVars>> /\ InWait
      /\ \/ pc' = "idle"
         \/ pc' = "toPause" /\ tasks[id] # NULL
         \/ pc' = "paused" /\ pc = "toPause"
  BY Zenon DEF WaitCheck, WaitPause, InWait
<1>2. NoneInv' /\ StoredInv' /\ PendingInv' /\ FiredInv' /\ OrderInv'
  BY <1>1, SameTable, Zenon DEF InWait
<1>3. TypeOK'
  BY <1>1, Zenon DEF IInv, TypeOK, PC
<1>4. IndexInv' /\ AddInv' /\ CancelInv'
  BY <1>1, Zenon DEF IInv, IndexInv, AddInv, CancelInv, InWait, Adding
<1>5. WaitInv'
  <2>1. NoLater' <=> NoLater
    BY <1>1, Zenon DEF NoLater
  <2>2. Pending(t)' <=> Pending(t)
    BY <1>1, Zenon DEF Pending
  <2> QED
    BY <1>1, <2>1, <2>2, Zenon DEF IInv, WaitInv, InWait
<1> QED
  BY <1>2, <1>3, <1>4, <1>5, Zenon DEF IInv

-----------------------------------------------------------------------------
(* at_add_job *)

LEMMA AddCallStep == ASSUME IInv, NEW s \in Secs, AddCall(s) PROVE IInv'
<1> DEFINE new == adds + 1
<1>1. new \in Job /\ new \in 0 .. MaxJobs /\ adds \in Int /\ s \in Nat
  BY Consts, TimerAssumption DEF IInv, TypeOK, AddCall, Job
<1>2. status[new] = "none"
  BY <1>1 DEF IInv, NoneInv
<1>3. /\ UNCHANGED <<timer, caught, tasks, sec, alive, t, status, age, idOf, late>>
      /\ adds' = new /\ asked' = [asked EXCEPT ![new] = s] /\ id' = 0 /\ inited' = TRUE
      /\ pc = "idle" /\ pc' \in {"scan", "signal"}
  BY Zenon DEF AddCall
<1> HIDE DEF new
<1>4. TypeOK'
  <2>1. asked' \in [Job -> Nat]
    BY <1>1, <1>3, Zenon DEF IInv, TypeOK
  <2>2. id' \in 0 .. MAX_TASKS /\ adds' \in 0 .. MaxJobs
    BY <1>1, <1>3, Consts
  <2> QED
    BY <1>3, <2>1, <2>2, Zenon DEF IInv, TypeOK, PC
<1>5. IndexInv' /\ AddInv' /\ CancelInv' /\ WaitInv'
  BY <1>1, <1>2, <1>3, Zenon DEF IndexInv, AddInv, CancelInv, WaitInv, InWait, Adding
<1>6. NoneInv'
  BY <1>1, <1>3, Consts DEF IInv, NoneInv, new
<1>7. StoredInv' /\ OrderInv'
  BY <1>3, Zenon DEF IInv, StoredInv, OrderInv, Pending
<1>8. \A k \in Job : k # new => asked'[k] = asked[k]
  BY <1>3, Zenon DEF IInv, TypeOK
<1>9. PendingInv'
  BY <1>2, <1>3, <1>8, SMTT(30) DEF IInv, PendingInv, Pending
<1>10. FiredInv'
  BY <1>2, <1>3, <1>8, Zenon DEF IInv, FiredInv
<1> QED
  BY <1>4, <1>5, <1>6, <1>7, <1>9, <1>10, Zenon DEF IInv

LEMMA AddMallocStep == ASSUME IInv, AddMalloc PROVE IInv'
<1> USE DEF histVars
<1>1. adds \in Job /\ status[adds] = "none" /\ id \in Slot /\ tasks[id] = NULL
  BY Zenon DEF IInv, AddInv, IndexInv, Adding, AddMalloc
<1>2. \A k \in Job : k # adds => sec'[k] = sec[k] /\ alive'[k] = alive[k]
  BY Zenon DEF IInv, TypeOK, AddMalloc
<1>3. sec'[adds] = asked[adds] /\ alive'[adds]
  BY <1>1, Zenon DEF IInv, TypeOK, AddMalloc
<1>4. TypeOK'
  <2>1. sec' \in [Job -> Int]
    BY <1>1 DEF IInv, TypeOK, AddMalloc
  <2>2. alive' \in [Job -> BOOLEAN]
    BY <1>1, Zenon DEF IInv, TypeOK, AddMalloc
  <2> QED
    BY <1>1, <2>1, <2>2, Zenon DEF IInv, TypeOK, PC, AddMalloc
<1>5. IndexInv' /\ AddInv' /\ CancelInv' /\ WaitInv'
  BY <1>1, <1>3, Zenon DEF IndexInv, AddInv, CancelInv, WaitInv, InWait, Adding, AddMalloc
<1>6. NoneInv' /\ FiredInv' /\ OrderInv'
  BY Zenon DEF IInv, NoneInv, FiredInv, OrderInv, Pending, AddMalloc
<1>7. StoredInv'
  <2> SUFFICES ASSUME NEW n \in Slot, tasks[n] # NULL
               PROVE  idOf[tasks[n]] = n /\ Pending(tasks[n]) /\ alive'[tasks[n]]
    BY Zenon DEF StoredInv, AddMalloc, Pending
  <2>1. tasks[n] \in Job /\ Pending(tasks[n]) /\ alive[tasks[n]] /\ idOf[tasks[n]] = n
    BY StoredPending, Zenon DEF AddMalloc
  <2> QED
    BY <1>1, <1>2, <2>1, Zenon DEF Pending
<1>8. PendingInv'
  BY <1>1, <1>2, Zenon DEF IInv, PendingInv, Pending, AddMalloc
<1> QED
  BY <1>4, <1>5, <1>6, <1>7, <1>8, Zenon DEF IInv

LEMMA AddStoreStep == ASSUME IInv, AddStore PROVE IInv'
<1>1. /\ t = adds /\ t \in Job /\ status[t] = "none" /\ id \in Slot /\ tasks[id] = NULL
      /\ alive[t] /\ sec[t] = asked[t] /\ age[t] = 0
  BY Zenon DEF IInv, AddInv, IndexInv, NoneInv, Adding, AddStore
<1>2. /\ UNCHANGED <<inited, timer, caught, sec, alive, id, t, adds, asked, age, late>>
      /\ pc = "store" /\ pc' = "idle"
      /\ tasks'[id] = t /\ status'[t] = "pending" /\ idOf'[t] = id
  BY <1>1, Zenon DEF IInv, TypeOK, AddStore
<1>3. /\ \A n \in Slot : n # id => tasks'[n] = tasks[n]
      /\ \A k \in Job : k # t => status'[k] = status[k] /\ idOf'[k] = idOf[k]
  BY Zenon DEF IInv, TypeOK, AddStore
<1>4. TypeOK'
  <2>1. tasks' \in [Slot -> Job \cup {NULL}] /\ idOf' \in [Job -> Slot \cup {-1}]
    BY <1>1, Zenon DEF IInv, TypeOK, AddStore
  <2>2. status' \in [Job -> {"none", "pending", "fired", "cancelled"}]
    BY <1>1, Zenon DEF IInv, TypeOK, AddStore
  <2> QED
    BY <1>2, <2>1, <2>2, Zenon DEF IInv, TypeOK, PC
<1>5. IndexInv' /\ AddInv' /\ CancelInv' /\ WaitInv'
  BY <1>2, Zenon DEF IndexInv, AddInv, CancelInv, WaitInv, InWait, Adding
<1>6. NoneInv'
  BY <1>1, <1>2, <1>3, Consts, SMTT(30) DEF IInv, NoneInv
<1>7. StoredInv'
  <2> SUFFICES ASSUME NEW n \in Slot, tasks'[n] # NULL
               PROVE  idOf'[tasks'[n]] = n /\ status'[tasks'[n]] = "pending" /\ alive[tasks'[n]]
    BY <1>2, Zenon DEF StoredInv, Pending
  <2>1. CASE n = id
    BY <1>1, <1>2, <2>1, Zenon
  <2>2. CASE n # id
    <3>1. tasks'[n] = tasks[n] /\ tasks[n] \in Job /\ Pending(tasks[n]) /\ alive[tasks[n]] /\ idOf[tasks[n]] = n
      BY <1>2, <1>3, <2>2, StoredPending, Zenon
    <3> QED
      BY <1>1, <1>3, <3>1, Zenon DEF Pending
  <2> QED
    BY <2>1, <2>2, Zenon
<1>8. PendingInv'
  <2> SUFFICES ASSUME NEW k \in Job, status'[k] = "pending"
               PROVE  /\ idOf'[k] \in Slot /\ tasks'[idOf'[k]] = k
                      /\ sec[k] + age[k] = asked[k] /\ (asked[k] > 0 => sec[k] > 0)
    BY <1>2, Zenon DEF PendingInv, Pending
  <2>1. CASE k = t
    BY <1>1, <1>2, <2>1, SMTT(30) DEF IInv, TypeOK
  <2>2. CASE k # t
    <3>1. /\ Pending(k) /\ idOf[k] \in Slot /\ tasks[idOf[k]] = k
          /\ sec[k] + age[k] = asked[k] /\ (asked[k] > 0 => sec[k] > 0)
      BY <1>3, <2>2, Zenon DEF IInv, PendingInv, Pending
    <3>2. idOf[k] # id
      BY <1>1, <3>1, Consts, Zenon DEF NULL
    <3> QED
      BY <1>3, <2>2, <3>1, <3>2, Zenon
  <2> QED
    BY <2>1, <2>2, Zenon
<1>9. FiredInv'
  BY <1>2, <1>3, Zenon DEF IInv, FiredInv
<1>10. OrderInv'
  <2> SUFFICES ASSUME NEW h \in Job, NEW k \in Job, h < k, idOf'[h] = idOf'[k], idOf'[k] # -1,
                      status'[h] = "pending"
               PROVE  FALSE
    BY Zenon DEF OrderInv, Pending
  <2>1. h # t
    BY <1>1, <1>3, Consts DEF IInv, NoneInv
  <2>2. Pending(h) /\ idOf'[h] = idOf[h] /\ tasks[idOf[h]] = h
    BY <1>3, <2>1 DEF IInv, PendingInv, Pending
  <2>3. CASE k = t
    BY <1>1, <1>2, <2>2, <2>3, Consts, Zenon DEF NULL
  <2>4. CASE k # t
    BY <1>3, <2>2, <2>4, Zenon DEF IInv, OrderInv
  <2> QED
    BY <2>3, <2>4, Zenon
<1> QED
  BY <1>4, <1>5, <1>6, <1>7, <1>8, <1>9, <1>10, Zenon DEF IInv

-----------------------------------------------------------------------------
(* at_cancel_job *)

LEMMA CancelFreedStep == ASSUME IInv, CancelFreed PROVE IInv'
<1>1. t \in Job /\ id \in Slot /\ idOf[t] = id /\ (alive[t] => tasks[id] = t)
  BY Zenon DEF IInv, CancelInv, IndexInv, CancelFreed
<1>2. /\ UNCHANGED <<tasks, sec, id, t, adds, asked, age, idOf, late>>
      /\ pc = "free" /\ pc' = IF alive[t] THEN "unlink" ELSE "undefined"
      /\ ~alive'[t] /\ \A k \in Job : k # t => status'[k] = status[k] /\ alive'[k] = alive[k]
      /\ status'[t] = IF alive[t] THEN "cancelled" ELSE status[t]
  BY <1>1, Zenon DEF IInv, TypeOK, CancelFreed
<1>3. TypeOK'
  <2>1. status' \in [Job -> {"none", "pending", "fired", "cancelled"}]
    BY <1>1, Zenon DEF IInv, TypeOK, CancelFreed
  <2>2. alive' \in [Job -> BOOLEAN]
    BY <1>1, Zenon DEF IInv, TypeOK, CancelFreed
  <2> QED
    BY <1>2, <2>1, <2>2, Zenon DEF IInv, TypeOK, PC, CancelFreed
<1>4. IndexInv' /\ AddInv' /\ WaitInv'
  BY <1>1, <1>2, SMTT(30) DEF IndexInv, AddInv, WaitInv, InWait, Adding
<1>5. CancelInv'
  BY <1>1, <1>2, Zenon DEF CancelInv
<1>6. \A k \in Job : status[k] = "none" => ~alive[t] \/ k # t
  BY <1>1, <1>2, StoredPending, Consts, SMTT(30) DEF Pending, NULL
<1>7. NoneInv'
  BY <1>1, <1>2, <1>6, Zenon DEF IInv, NoneInv
<1>8. \A k \in Job : Pending(k)' => Pending(k)
  BY <1>2, Zenon DEF Pending
<1>9. PendingInv' /\ OrderInv'
  BY <1>2, <1>8, Zenon DEF IInv, PendingInv, OrderInv
<1>10. FiredInv'
  BY <1>2, Zenon DEF IInv, FiredInv
<1>11. StoredInv'
  <2> SUFFICES ASSUME NEW n \in Slot, tasks[n] # NULL
               PROVE  /\ idOf[tasks[n]] = n
                      /\ \/ status'[tasks[n]] = "pending" /\ alive'[tasks[n]]
                         \/ pc' \in {"unlink", "undefined"} /\ n = id /\ status'[tasks[n]] = "cancelled" /\ ~alive'[tasks[n]]
    BY <1>2, Zenon DEF StoredInv, Pending
  <2>1. tasks[n] \in Job /\ Pending(tasks[n]) /\ alive[tasks[n]] /\ idOf[tasks[n]] = n
    BY <1>2, StoredPending, Zenon
  <2>2. CASE tasks[n] = t
    BY <1>1, <1>2, <2>1, <2>2, Zenon
  <2>3. CASE tasks[n] # t
    BY <1>2, <2>1, <2>3, Zenon DEF Pending
  <2> QED
    BY <2>2, <2>3, Zenon
<1> QED
  BY <1>3, <1>4, <1>5, <1>7, <1>9, <1>10, <1>11, Zenon DEF IInv

LEMMA CancelUnlinkStep == ASSUME IInv, CancelUnlink PROVE IInv'
<1> USE DEF histVars
<1>1. t \in Job /\ id \in Slot /\ tasks[id] = t /\ ~alive[t] /\ tasks[id] # NULL
  BY Consts, Zenon DEF IInv, CancelInv, IndexInv, CancelUnlink, NULL
<1>2. /\ UNCHANGED <<inited, timer, caught, sec, alive, id, t, histVars>> /\ pc = "unlink" /\ pc' = "idle"
      /\ tasks'[id] = NULL /\ \A n \in Slot : n # id => tasks'[n] = tasks[n]
  BY <1>1 DEF IInv, TypeOK, CancelUnlink
<1>3. status[t] = "cancelled" /\ idOf[t] = id
  BY <1>1, Zenon DEF IInv, StoredInv
<1>4. TypeOK'
  <2>1. tasks' \in [Slot -> Job \cup {NULL}]
    BY <1>1, Zenon DEF IInv, TypeOK, CancelUnlink
  <2> QED
    BY <1>2, <2>1, Zenon DEF IInv, TypeOK, PC
<1>5. IndexInv' /\ AddInv' /\ CancelInv' /\ WaitInv'
  BY <1>2, Zenon DEF IndexInv, AddInv, CancelInv, WaitInv, InWait, Adding
<1>6. NoneInv' /\ FiredInv' /\ OrderInv'
  BY <1>2, Zenon DEF IInv, NoneInv, FiredInv, OrderInv, Pending
<1>7. StoredInv'
  BY <1>2, Zenon DEF IInv, StoredInv, Pending
<1>8. PendingInv'
  BY <1>1, <1>2, <1>3, Zenon DEF IInv, PendingInv, Pending
<1> QED
  BY <1>4, <1>5, <1>6, <1>7, <1>8 DEF IInv

-----------------------------------------------------------------------------
\* No alarm runs before signal() has installed the handler.
CaughtInv == timer \/ pc = "alarm" => caught

LEMMA NextCaughtInv == CaughtInv /\ [Next]_vars => CaughtInv'
<1> SUFFICES ASSUME CaughtInv, [Next]_vars PROVE CaughtInv'
  OBVIOUS
<1> USE DEF CaughtInv, libVars, histVars
<1>1. CASE UNCHANGED vars
  BY <1>1, Zenon DEF vars
<1>2. CASE Call
  BY <1>2, Zenon DEF Call, AddCall, CancelCall, WaitCall
<1>3. CASE AddSignal \/ AddAlarm \/ AddScan \/ AddMalloc \/ AddNoMemory \/ AddStore
  BY <1>3, Zenon DEF AddSignal, AddAlarm, AddScan, AddMalloc, AddNoMemory, AddStore
<1>4. CASE CancelFree \/ CancelFreed \/ CancelUnlink \/ WaitCheck \/ WaitPause
  BY <1>4 DEF CancelFree, CancelFreed, CancelUnlink, WaitCheck, WaitPause
<1>5. CASE Tick
  BY <1>5, Zenon DEF Tick, handle, handleDangling, terminate, Interrupted
<1> QED
  BY <1>1, <1>2, <1>3, <1>4, <1>5 DEF Next, LibStep

LEMMA NextIInv == ASSUME IInv, CaughtInv, [Next]_vars PROVE IInv'
<1>1. ASSUME NEW s \in Secs, AddCall(s) PROVE IInv'
  BY <1>1, AddCallStep, Zenon
<1>2. ASSUME NEW k \in Added, CancelCall(idOf[k]) PROVE IInv'
  <2>1. idOf[k] \in Slot
    BY DEF IInv, TypeOK, Added
  <2> QED
    BY <1>2, <2>1, CancelCallStep, Zenon
<1>3. ASSUME NEW k \in Added, WaitCall(k) PROVE IInv'
  BY <1>3, WaitCallStep
<1>4. CASE AddSignal \/ AddAlarm \/ AddScan
  BY <1>4, AddQuietStep
<1>5. CASE AddMalloc
  BY <1>5, AddMallocStep, Zenon
<1>6. CASE AddNoMemory
  BY <1>6, StopStep, Zenon DEF AddNoMemory
<1>7. CASE AddStore
  BY <1>7, AddStoreStep
<1>8. CASE CancelFree
  BY <1>8, CancelFreeStep
<1>9. CASE CancelFreed
  BY <1>9, CancelFreedStep
<1>10. CASE CancelUnlink
  BY <1>10, CancelUnlinkStep
<1>11. CASE WaitCheck \/ WaitPause
  BY <1>11, WaitStep
<1>12. CASE Tick
  <2>1. timer /\ caught /\ pc \notin {"killed", "undefined"}
    BY <1>12, Zenon DEF Tick, CaughtInv
  <2>2. CASE Dangling
    BY <1>12, <2>1, <2>2, StopStep, Zenon DEF Tick, handleDangling
  <2>3. CASE ~Dangling
    BY <1>12, <2>1, <2>3, HandleStep, Zenon DEF Tick
  <2> QED
    BY <2>2, <2>3
<1>13. CASE UNCHANGED vars
  <2> USE DEF vars, libVars, histVars, IInv
  <2>1. TypeOK'
    BY <1>13, Zenon DEF TypeOK
  <2>2. IndexInv' /\ AddInv'
    BY <1>13, Zenon DEF IndexInv, AddInv, InWait, Adding
  <2>3. NoneInv' /\ StoredInv'
    BY <1>13, SMTT(30) DEF NoneInv, StoredInv, Pending
  <2>4. PendingInv'
    BY <1>13, Zenon DEF PendingInv, Pending
  <2>5. FiredInv' /\ CancelInv'
    BY <1>13, Zenon DEF FiredInv, CancelInv, Pending
  <2>6. OrderInv' /\ WaitInv'
    BY <1>13 DEF OrderInv, WaitInv, NoLater, Pending, InWait
  <2> QED
    BY <2>1, <2>2, <2>3, <2>4, <2>5, <2>6, Zenon
<1> QED
  BY <1>1, <1>2, <1>3, <1>4, <1>5, <1>6, <1>7, <1>8, <1>9, <1>10, <1>11, <1>12, <1>13, Zenon
     DEF Next, Call, LibStep

LEMMA Invariance == Spec => []IInv
<1>1. Init => CaughtInv
  BY SMTT(30) DEF Init, CaughtInv
<1> QED
  BY InitIInv, NextIInv, NextCaughtInv, <1>1, PTL DEF Spec

-----------------------------------------------------------------------------
(* For any number of entries and jobs, tasks[] and the jobs agree while the handler
   empties entries under at_add_job and at_cancel_job: a pending job is in exactly one
   entry, and a freed struct is in the table only inside at_cancel_job. *)
THEOREM EntriesHoldJobsHolds == Spec => []EntriesHoldJobs
<1>1. IInv => EntriesHoldJobs
  <2> SUFFICES ASSUME IInv PROVE EntriesHoldJobs
    OBVIOUS
  <2>1. ASSUME NEW k \in Job, Pending(k)
        PROVE  \E n \in Slot : tasks[n] = k /\ \A h \in Slot : tasks[h] = k => h = n
    <3>1. idOf[k] \in Slot /\ tasks[idOf[k]] = k
      BY <2>1, Zenon DEF IInv, PendingInv
    <3>2. \A h \in Slot : tasks[h] = k => h = idOf[k]
      BY Consts, Zenon DEF IInv, StoredInv, NULL
    <3> QED
      BY <3>1, <3>2, Zenon
  <2>2. \A n \in Stored : alive[tasks[n]] \/ (pc \in {"unlink", "undefined"} /\ n = id)
    BY Zenon DEF IInv, StoredInv, Stored
  <2> QED
    BY <2>1, <2>2 DEF EntriesHoldJobs, IInv
<1> QED
  BY <1>1, Invariance, PTL

(* Every job runs at the tick it was added for and none is overdue, for any number of
   seconds and wherever the ticks fall. *)
THEOREM FiresOnTimeHolds == Spec => []FiresOnTime
<1>1. IInv => FiresOnTime
  BY DEF IInv, TypeOK, FiredInv, PendingInv, FiresOnTime
<1> QED
  BY <1>1, Invariance, PTL

(* at_wait sleeps through at most one tick after its job has ended, unless its id has
   been given to a later job. *)
THEOREM WaitsForItsJobHolds == Spec => []WaitsForItsJob
<1>1. IInv => WaitsForItsJob
  BY DEF IInv, TypeOK, WaitInv, NoLater, InWait, WaitsForItsJob
<1> QED
  BY <1>1, Invariance, PTL

-----------------------------------------------------------------------------
(* SignalRounds *)

\* Inside the loop, after its test.
InLine == {"star", "newline", "unblock", "pause", "sigsuspend", "paused", "suspended"}

\* Every signal that was handled or is pending has arrived.
SignalsInv == wasted + (IF pending THEN 1 ELSE 0) <= signals

LoopInv == at \in InLine => i < ROUNDS

\* A line is printed under the mask.
MaskInv == at = "star" => blocked

\* The program's own handler is installed but at its start and at its end.
HandlerInv ==
  /\ at \notin {"install", "return", "done", "killed", "exited"} => handler = "own"
  /\ at \in {"install", "return"} => handler # "own"

\* Where the default action is in force, no signal is deliverable that arrived
\* under the handler: after the last line such a one has been handled before
\* signal(SIGINT, func), or the mask of the start holds it back.
GuardInv ==
  /\ at = "install" => ~guarded
  /\ at = "return" /\ pending /\ guarded => blocked
  /\ at = "killed" => ~guarded

RoundsIInv == RoundsTypeOK /\ SignalsInv /\ LoopInv /\ MaskInv /\ HandlerInv /\ GuardInv

-----------------------------------------------------------------------------
\* The initial states satisfy the invariant, whatever was inherited.
LEMMA RoundsInitInv == RoundsInit => RoundsIInv
<1> SUFFICES ASSUME RoundsInit PROVE RoundsIInv
  OBVIOUS
<1>1. RoundsTypeOK
  <2>1. /\ i \in 0 .. ROUNDS /\ j \in 0 .. STARS
        /\ signals \in 0 .. MaxSignals /\ wasted \in 0 .. MaxSignals
    BY RoundsAssumption DEF RoundsInit
  <2>2. blocked \in BOOLEAN /\ old \in BOOLEAN /\ oldset \in BOOLEAN
    BY Zenon DEF RoundsInit
  <2> QED
    BY <2>1, <2>2, Zenon DEF RoundsInit, RoundsTypeOK
<1>2. SignalsInv
  BY DEF RoundsInit, SignalsInv
<1>3. LoopInv /\ MaskInv /\ HandlerInv /\ GuardInv
  BY Zenon DEF RoundsInit, LoopInv, InLine, MaskInv, HandlerInv, GuardInv
<1> QED
  BY <1>1, <1>2, <1>3 DEF RoundsIInv

\* A SIGINT arrives.
LEMMA ArriveStep == RoundsIInv /\ Arrive => RoundsIInv'
<1> SUFFICES ASSUME RoundsIInv, Arrive PROVE RoundsIInv'
  OBVIOUS
<1> USE DEF maskVars
<1>1. RoundsTypeOK'
  <2>1. pending' \in BOOLEAN /\ guarded' \in BOOLEAN
    BY Zenon DEF RoundsIInv, RoundsTypeOK, Arrive
  <2>2. signals' \in 0 .. MaxSignals
    BY RoundsAssumption DEF RoundsIInv, RoundsTypeOK, Arrive
  <2> QED
    BY <2>1, <2>2 DEF RoundsIInv, RoundsTypeOK, Arrive
<1>2. SignalsInv'
  <2>1. wasted \in Int /\ signals \in Int /\ wasted' = wasted /\ signals' = signals + 1
    BY DEF RoundsIInv, RoundsTypeOK, Arrive
  <2> QED
    BY <2>1 DEF RoundsIInv, SignalsInv
<1>3. LoopInv' /\ MaskInv' /\ HandlerInv'
  BY Zenon DEF RoundsIInv, LoopInv, InLine, MaskInv, HandlerInv, Arrive
<1>4. GuardInv'
  BY DEF RoundsIInv, RoundsTypeOK, HandlerInv, GuardInv, Arrive, Over
<1> QED
  BY <1>1, <1>2, <1>3, <1>4 DEF RoundsIInv

\* The kernel delivers it.
LEMMA DeliverStep == RoundsIInv /\ Deliver => RoundsIInv'
<1> SUFFICES ASSUME RoundsIInv, Deliver PROVE RoundsIInv'
  OBVIOUS
<1> USE DEF RoundsIInv, RoundsTypeOK, Deliver, Deliverable, Waiting, Over
<1>1. /\ pending /\ ~blocked /\ at # "star"
      /\ wasted < signals
  BY DEF MaskInv, SignalsInv
<1>2. i' \in 0 .. ROUNDS /\ wasted' \in 0 .. MaxSignals
  BY <1>1, RoundsAssumption DEF LoopInv, InLine
<1>3. at' \in {at, "killed", "block"}
  OBVIOUS
<1>4. RoundsTypeOK'
  BY <1>2, <1>3, Zenon
<1>5. SignalsInv'
  BY <1>1 DEF SignalsInv
<1>6. LoopInv'
  BY <1>3, RoundsAssumption DEF LoopInv, InLine
<1>7. MaskInv'
  BY <1>1, <1>3 DEF MaskInv
<1>8. HandlerInv'
  BY <1>3 DEF HandlerInv
<1>9. GuardInv'
  BY <1>1, Zenon DEF HandlerInv, GuardInv
<1> QED
  BY <1>4, <1>5, <1>6, <1>7, <1>8, <1>9

\* SIGTSTP ends the process.
LEMMA SuspendStep == RoundsIInv /\ Suspend => RoundsIInv'
  BY DEF RoundsIInv, RoundsTypeOK, SignalsInv, LoopInv, InLine, MaskInv, HandlerInv, GuardInv, Suspend, maskVars, sigVars

\* A call of main.
LEMMA ProgramStep == RoundsIInv /\ Program => RoundsIInv'
<1> SUFFICES ASSUME RoundsIInv, Program PROVE RoundsIInv'
  OBVIOUS
<1> USE RoundsAssumption DEF RoundsIInv, RoundsTypeOK, SignalsInv, LoopInv, InLine, MaskInv, HandlerInv, GuardInv,
       maskVars, sigVars
<1>1. CASE Install
  BY <1>1 DEF Install
<1>2. CASE Open
  BY <1>2, Zenon DEF Open
<1>3. CASE Grab
  BY <1>3, Zenon DEF Grab
<1>4. CASE Block
  <2>1. CASE i < ROUNDS
    BY <1>4, <2>1 DEF Block
  <2>2. CASE ~(i < ROUNDS)
    BY <1>4, <2>2 DEF Block
  <2> QED
    BY <2>1, <2>2, Zenon
<1>5. CASE Star
  BY <1>5 DEF Star
<1>6. CASE NewLine
  BY <1>6 DEF NewLine
<1>7. CASE Unblock
  BY <1>7, Zenon DEF Unblock
<1>8. CASE Pause
  BY <1>8, Zenon DEF Pause
<1>9. CASE SigSuspend
  BY <1>9, Zenon DEF SigSuspend
<1>10. CASE Restore
  BY <1>10, Zenon DEF Restore
<1>11. CASE Unhandle
  BY <1>11 DEF Unhandle, Program, Deliverable, Over
<1>12. CASE Return
  BY <1>12, Zenon DEF Return
<1> QED
  BY <1>1, <1>2, <1>3, <1>4, <1>5, <1>6, <1>7, <1>8, <1>9, <1>10, <1>11, <1>12, Zenon DEF Program

\* Every step keeps the invariant.
LEMMA RoundsStepInv == RoundsIInv /\ [RoundsNext]_roundsVars => RoundsIInv'
<1> SUFFICES ASSUME RoundsIInv, [RoundsNext]_roundsVars PROVE RoundsIInv'
  OBVIOUS
<1>1. CASE UNCHANGED roundsVars
  BY <1>1 DEF roundsVars, maskVars, sigVars, RoundsIInv, RoundsTypeOK, SignalsInv, LoopInv, MaskInv, HandlerInv, GuardInv
<1> QED
  BY <1>1, ArriveStep, DeliverStep, SuspendStep, ProgramStep, Zenon DEF RoundsNext

\* The invariant holds in all reachable states.
LEMMA RoundsInvariance == RoundsSpec => []RoundsIInv
  BY RoundsInitInv, RoundsStepInv, PTL DEF RoundsSpec

-----------------------------------------------------------------------------
\* A SIGINT that arrives while the program's handler is installed never ends the
\* process, whatever mask and disposition it was started with.
THEOREM GuardedNeverKillsHolds ==
  RoundsSpec => []GuardedNeverKills
<1>1. RoundsIInv => GuardedNeverKills
  BY DEF RoundsIInv, GuardInv, GuardedNeverKills
<1> QED
  BY <1>1, RoundsInvariance, PTL

\* No handler runs between the first star of a line and its last.
THEOREM LinesWholeHolds ==
  RoundsSpec => LinesWhole
<1>1. RoundsIInv => [at = "star" => ~Deliver]_roundsVars
  BY DEF RoundsIInv, MaskInv, Deliver, Deliverable
<1> QED
  BY <1>1, RoundsInvariance, PTL DEF LinesWhole
=============================================================================
