------------------------------ MODULE AnyTimer ------------------------------
(***************************************************************************)
(* signal/anytimer.c: jobs that the handler of SIGALRM runs after a number *)
(* of seconds, under a sequential program that adds, cancels and waits for *)
(* jobs.                                                                   *)
(*                                                                         *)
(* A job is the number of the at_add_job that made it, and stands for its  *)
(* struct task too.  The handler interrupts the program between any two    *)
(* steps, also inside malloc and free, and runs to its end.  What the      *)
(* program does after it used a freed struct is undefined: the model stops.*)
(***************************************************************************)
EXTENDS Integers

CONSTANTS
  MAX_TASKS,    \* entries of tasks[]
  Secs,         \* values of sec that at_add_job is called with
  MaxJobs,      \* bound: calls of at_add_job
  MinSec        \* bound: a counter that is at MinSec stays there

ASSUME TimerAssumption ==
  /\ MAX_TASKS \in Nat \ {0}
  /\ Secs \subseteq Nat
  /\ MaxJobs \in Nat
  /\ MinSec \in Int /\ MinSec < 0

Slot == 0 .. MAX_TASKS - 1
Job == 1 .. MaxJobs
NULL == 0

VARIABLES
  inited,       \* inited
  timer,        \* an alarm(1) is running
  caught,       \* SIGALRM is caught by handle
  tasks,        \* tasks[]: a job or NULL
  sec,          \* t->sec of every job
  alive,        \* the struct of the job is allocated
  pc,           \* where the program is inside the library, or "idle"
  id,           \* id of the current call
  t,            \* t of the current call; in at_wait, the job it is called for
  adds,         \* history: calls of at_add_job, the last of them adds job adds
  status,       \* history: what became of every job
  asked,        \* history: sec when the job was added
  age,          \* history: ticks the job has seen
  idOf,         \* history: what at_add_job returned
  late          \* history: ticks the current at_wait has slept through (up to 2)
                \*   after the job it was called for had ended

libVars == <<inited, timer, caught, tasks, sec, alive>>
histVars == <<adds, status, asked, age, idOf, late>>
vars == <<libVars, pc, id, t, histVars>>

PC == {"idle", "signal", "alarm", "scan", "malloc", "store",
       "toFree", "free", "unlink", "check", "toPause", "paused", "killed", "undefined"}

Pending(k) == status[k] = "pending"
Stored == {i \in Slot : tasks[i] # NULL}

TypeOK ==
  /\ inited \in BOOLEAN /\ timer \in BOOLEAN /\ caught \in BOOLEAN
  /\ tasks \in [Slot -> Job \cup {NULL}]
  /\ sec \in [Job -> Int] /\ alive \in [Job -> BOOLEAN]
  /\ pc \in PC
  /\ id \in 0 .. MAX_TASKS /\ t \in Job \cup {NULL}
  /\ adds \in 0 .. MaxJobs
  /\ status \in [Job -> {"none", "pending", "fired", "cancelled"}]
  /\ asked \in [Job -> Nat] /\ age \in [Job -> Nat]
  /\ idOf \in [Job -> Slot \cup {-1}]
  /\ late \in 0 .. 2

Init ==
  /\ inited = FALSE /\ timer = FALSE /\ caught = FALSE
  /\ tasks = [i \in Slot |-> NULL]
  /\ sec = [k \in Job |-> 0] /\ alive = [k \in Job |-> FALSE]
  /\ pc = "idle" /\ id = 0 /\ t = NULL
  /\ adds = 0
  /\ status = [k \in Job |-> "none"]
  /\ asked = [k \in Job |-> 0] /\ age = [k \in Job |-> 0]
  /\ idOf = [k \in Job |-> -1]
  /\ late = 0

-----------------------------------------------------------------------------
(* Faulty variants of single steps, used by no specification. *)

\* The handler tests sec before it decrements it.
DueLate == {tasks[i] : i \in {j \in Stored : sec[tasks[j]] = 0}}

\* The handler frees a task and leaves it in tasks[].
runTasksKeeps ==
  LET seen == {tasks[i] : i \in Stored}
      due == {k \in seen : sec[k] = 1} IN
  /\ sec' = [k \in Job |-> IF k \in seen /\ sec[k] > MinSec THEN sec[k] - 1 ELSE sec[k]]
  /\ status' = [k \in Job |-> IF k \in due THEN "fired" ELSE status[k]]
  /\ age' = [k \in Job |-> IF k \in seen /\ sec[k] > MinSec THEN age[k] + 1 ELSE age[k]]
  /\ alive' = [k \in Job |-> alive[k] /\ k \notin due]
  /\ UNCHANGED tasks

\* The handler does not start the next alarm.
handleOnce ==
  /\ timer' = FALSE
  /\ pc' = IF pc = "paused" THEN "check" ELSE pc
  /\ UNCHANGED <<inited, caught, tasks, sec, alive, id, t, histVars>>

\* at_wait waits for all the jobs.
WaitCheckAll ==
  /\ pc = "check"
  /\ pc' = IF \A i \in Slot : tasks[i] = NULL THEN "idle" ELSE "toPause"
  /\ UNCHANGED <<libVars, id, t, histVars>>

-----------------------------------------------------------------------------
(* The handler *)

\* Jobs whose sec becomes 0.
Due == {tasks[i] : i \in {j \in Stored : sec[tasks[j]] = 1}}

\* The loop of handle over tasks[], when every task in it is allocated.
runTasks ==
  LET seen == {tasks[i] : i \in Stored} IN
  /\ sec' = [k \in Job |-> IF k \in seen /\ sec[k] > MinSec THEN sec[k] - 1 ELSE sec[k]]
  /\ age' = [k \in Job |-> IF k \in seen /\ sec[k] > MinSec THEN age[k] + 1 ELSE age[k]]
  /\ status' = [k \in Job |-> IF k \in Due THEN "fired" ELSE status[k]]
  /\ alive' = [k \in Job |-> alive[k] /\ k \notin Due]
  /\ tasks' = [i \in Slot |-> IF tasks[i] \in Due THEN NULL ELSE tasks[i]]

\* A pause that the handler interrupts returns.
Interrupted == IF pc = "paused" THEN "check" ELSE pc

\* free is not reentrant: inside malloc or free the outcome is open.
handle ==
  /\ timer' = TRUE
  /\ runTasks
  /\ LET nested == Due # {} /\ pc \in {"malloc", "free"} IN
       pc' \in {Interrupted} \cup (IF nested THEN {"undefined"} ELSE {})
  /\ late' = IF pc = "paused" /\ late < 2 /\ ~Pending(t) THEN late + 1 ELSE late
  /\ UNCHANGED <<inited, caught, id, t, adds, asked, idOf>>

\* The handler meets a struct that has been freed.
handleDangling ==
  /\ pc' = "undefined"
  /\ UNCHANGED <<libVars, id, t, histVars>>

\* The default action of SIGALRM.
terminate ==
  /\ pc' = "killed"
  /\ UNCHANGED <<libVars, id, t, histVars>>

Dangling == \E i \in Stored : ~alive[tasks[i]]

\* The alarm goes off.
Tick ==
  /\ timer /\ pc \notin {"killed", "undefined"}
  /\ IF ~caught THEN terminate ELSE IF Dangling THEN handleDangling ELSE handle

-----------------------------------------------------------------------------
(* at_add_job *)

AddCall(s) ==
  /\ pc = "idle" /\ adds < MaxJobs
  /\ adds' = adds + 1
  /\ asked' = [asked EXCEPT ![adds + 1] = s]
  /\ inited' = TRUE
  /\ id' = 0
  /\ pc' = IF inited THEN "scan" ELSE "signal"
  /\ UNCHANGED <<timer, caught, tasks, sec, alive, t, status, age, idOf, late>>

AddSignal ==
  /\ pc = "signal"
  /\ caught' = TRUE
  /\ pc' = "alarm"
  /\ UNCHANGED <<inited, timer, tasks, sec, alive, id, t, histVars>>

AddAlarm ==
  /\ pc = "alarm"
  /\ timer' = TRUE
  /\ pc' = "scan"
  /\ UNCHANGED <<inited, caught, tasks, sec, alive, id, t, histVars>>

\* One turn of the loop of getf_free_pos; past the last entry at_add_job
\* returns -1.
AddScan ==
  /\ pc = "scan"
  /\ IF id = MAX_TASKS THEN pc' = "idle" /\ id' = id
     ELSE IF tasks[id] = NULL THEN pc' = "malloc" /\ id' = id
     ELSE pc' = "scan" /\ id' = id + 1
  /\ UNCHANGED <<libVars, t, histVars>>

\* malloc returns and the fields are set ...
AddMalloc ==
  /\ pc = "malloc"
  /\ t' = adds
  /\ alive' = [alive EXCEPT ![adds] = TRUE]
  /\ sec' = [sec EXCEPT ![adds] = asked[adds]]
  /\ pc' = "store"
  /\ UNCHANGED <<inited, timer, caught, tasks, id, histVars>>

\* ... or NULL is dereferenced.
AddNoMemory ==
  /\ pc = "malloc"
  /\ pc' = "undefined"
  /\ UNCHANGED <<libVars, id, t, histVars>>

AddStore ==
  /\ pc = "store"
  /\ tasks' = [tasks EXCEPT ![id] = t]
  /\ status' = [status EXCEPT ![t] = "pending"]
  /\ idOf' = [idOf EXCEPT ![t] = id]
  /\ pc' = "idle"
  /\ UNCHANGED <<inited, timer, caught, sec, alive, id, t, adds, asked, age, late>>

-----------------------------------------------------------------------------
(* at_cancel_job *)

CancelCall(i) ==
  /\ pc = "idle"
  /\ id' = i
  /\ t' = tasks[i]
  /\ pc' = IF tasks[i] = NULL THEN "idle" ELSE "toFree"
  /\ UNCHANGED <<libVars, histVars>>

CancelFree ==
  /\ pc = "toFree"
  /\ pc' = IF alive[t] THEN "free" ELSE "undefined"
  /\ UNCHANGED <<libVars, id, t, histVars>>

\* free(t) returns, unless the handler has freed t in between.
CancelFreed ==
  /\ pc = "free"
  /\ pc' = IF alive[t] THEN "unlink" ELSE "undefined"
  /\ status' = [status EXCEPT ![t] = IF alive[t] THEN "cancelled" ELSE @]
  /\ alive' = [alive EXCEPT ![t] = FALSE]
  /\ UNCHANGED <<inited, timer, caught, tasks, sec, id, t, adds, asked, age, idOf, late>>

CancelUnlink ==
  /\ pc = "unlink"
  /\ tasks' = [tasks EXCEPT ![id] = NULL]
  /\ pc' = "idle"
  /\ UNCHANGED <<inited, timer, caught, sec, alive, id, t, histVars>>

-----------------------------------------------------------------------------
(* at_wait *)

WaitCall(k) ==
  /\ pc = "idle"
  /\ id' = idOf[k] /\ t' = k
  /\ late' = 0
  /\ pc' = "check"
  /\ UNCHANGED <<libVars, adds, status, asked, age, idOf>>

WaitCheck ==
  /\ pc = "check"
  /\ pc' = IF tasks[id] = NULL THEN "idle" ELSE "toPause"
  /\ UNCHANGED <<libVars, id, t, histVars>>

\* A signal delivered before this step does not wake the pause.
WaitPause ==
  /\ pc = "toPause"
  /\ pc' = "paused"
  /\ UNCHANGED <<libVars, id, t, histVars>>

-----------------------------------------------------------------------------
LibStep ==
  \/ AddSignal \/ AddAlarm \/ AddScan \/ AddMalloc \/ AddNoMemory \/ AddStore
  \/ CancelFree \/ CancelFreed \/ CancelUnlink \/ WaitCheck \/ WaitPause

\* A program that uses the ids it was given.
Added == {k \in Job : idOf[k] >= 0}

Call ==
  \/ \E s \in Secs : AddCall(s)
  \/ \E k \in Added : CancelCall(idOf[k])
  \/ \E k \in Added : WaitCall(k)

Next == Call \/ LibStep \/ Tick

Spec == Init /\ [][Next]_vars

\* The program runs, and a running alarm goes off.
FairSpec == Spec /\ WF_vars(LibStep) /\ WF_vars(Tick)

-----------------------------------------------------------------------------
(* Properties *)

\* Every job runs at the tick its sec names, counted from the store into
\* tasks[], and none is overdue, wherever the ticks fall between the steps of
\* the program.
FiresOnTime ==
  \A k \in Job : /\ status[k] = "fired" => age[k] = asked[k]
                 /\ Pending(k) /\ asked[k] > 0 => age[k] < asked[k]

\* The table and the jobs agree.  No job is lost or entered twice: a pending job is
\* in exactly one entry of tasks[], although the handler empties entries while
\* getf_free_pos looks for one and while at_cancel_job is at work.  And a freed
\* struct is in tasks[] only between the two lines of at_cancel_job that free it and
\* clear the entry.
EntriesHoldJobs ==
  /\ TypeOK
  /\ \A k \in Job : Pending(k) =>
       \E i \in Slot : tasks[i] = k /\ \A j \in Slot : tasks[j] = k => j = i
  /\ \A i \in Stored : alive[tasks[i]] \/ (pc \in {"unlink", "undefined"} /\ i = id)

\* at_wait returns once the jobs before it have run (a job added with sec = 0
\* never does): no tick that falls between the test of tasks[id] and pause()
\* makes it sleep for ever.
WaitReturns ==
  (pc = "check" /\ \A k \in Job : Pending(k) => asked[k] > 0) ~> (pc \in {"idle", "undefined"})

\* at_wait is to "wait for job": after the job has ended it sleeps through one
\* tick (the one that wakes it if pause() was entered too late) and no other, unless
\* the entry that is the job's id was given to a later job before at_wait was called.
WaitsForItsJob ==
  pc \in {"check", "toPause", "paused"} /\ late > 1 =>
    \E k \in Job : k > t /\ idOf[k] = id
=============================================================================
