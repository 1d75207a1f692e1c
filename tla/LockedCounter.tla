--------------------------- MODULE LockedCounter ----------------------------
(***************************************************************************)
(* Three programs that count with several workers: thread/mutex.c (threads *)
(* and a mutex), ipc/sem_arr.c (threads and a semaphore) and adio/flock.c  *)
(* (processes, a number in a file and lockf).  count++ is a load and a     *)
(* store.                                                                  *)
(*                                                                         *)
(* lockf works from the file offset: F_LOCK takes the whole file, F_ULOCK  *)
(* after the write only what is past the number, so the next process gets  *)
(* the lock when the file is closed.                                       *)
(*                                                                         *)
(* flock.c does not terminate what it has read (buf is uninitialized) and  *)
(* does not look at the result of write: the number may be misread, and a  *)
(* new one may be written in part or not at all.  The history variable     *)
(* intact tells whether the number has been damaged in such a way.         *)
(***************************************************************************)
EXTENDS Integers, FiniteSets

CONSTANTS
  Workers,      \* the threads or processes: THREADS or COUNT of them
  Programs,     \* the programs to consider
  Starts,       \* numbers the file may hold before flock.c runs
  StrayDigits,  \* digits that atoi may find in buf behind what was read
  MaxFailures   \* bound: failing calls

ASSUME CounterAssumption ==
  /\ IsFiniteSet(Workers)
  /\ Programs \subseteq {"mutex", "sem", "flock"}
  /\ Starts \subseteq Nat
  /\ StrayDigits \subseteq 0 .. 9
  /\ MaxFailures \in Nat

VARIABLES
  program,      \* which program
  start,        \* the count before the program runs
  main,         \* where main is
  step,         \* where each worker is
  lock,         \* the semaphore, or 1 if the mutex or the whole file is free
  count,        \* count, or the number in the file
  reg,          \* the value each worker has loaded
  added,        \* history: the workers whose store has been done
  intact,       \* history: no number was misread or written in part
  failures      \* history: failing calls

lockedVars == <<program, start, main, step, lock, count, reg, added, intact, failures>>

Created == {w \in Workers : step[w] \notin {"none", "missing"}}

LockedTypeOK ==
  /\ program \in Programs /\ start \in Nat
  /\ main \in {"spawn", "join", "done", "failed", "undefined"}
  /\ step \in [Workers -> {"none", "missing", "lock", "load", "store", "unlock", "close", "done", "failed"}]
  /\ lock \in 0 .. 1
  /\ count \in Nat /\ reg \in [Workers -> Nat]
  /\ added \subseteq Workers /\ intact \in BOOLEAN
  /\ failures \in 0 .. MaxFailures

LockedInit ==
  /\ program \in Programs
  /\ start \in IF program = "flock" THEN Starts ELSE {0}
  /\ main = "spawn"
  /\ step = [w \in Workers |-> "none"]
  /\ lock = 1
  /\ count = start
  /\ reg = [w \in Workers |-> 0]
  /\ added = {} /\ intact = TRUE
  /\ failures = 0

Goto(w, l) == step' = [step EXCEPT ![w] = l]
SomeFailure == failures < MaxFailures /\ failures' = failures + 1
Running == main \notin {"failed", "undefined"} \/ program = "flock"

\* Decimal digits of a number.
Digits[n \in Nat] == IF n < 10 THEN 1 ELSE 1 + Digits[n \div 10]

\* The number in the file when the first k digits of new have been written over
\* those of old, for every k that is not all of them.  (\cap Nat states the type.)
CutWrites(old, new) ==
  {LET rest == 10 ^ (IF Digits[old] > k THEN Digits[old] - k ELSE 0)
   IN (new \div 10 ^ (Digits[new] - k)) * rest + (old % rest)
     : k \in 0 .. Digits[new] - 1} \cap Nat

\* Where a call of a worker may fail: semop for P and V; open, lockf and read,
\* and the lockf that unlocks.
Fallible == CASE program = "mutex" -> {}
              [] program = "sem"   -> {"lock", "unlock"}
              [] program = "flock" -> {"lock", "load", "unlock"}

-----------------------------------------------------------------------------
(* Faulty variants of single steps, used by no specification. *)

\* The worker goes on without the lock.
AcquireNever(w) ==
  /\ step[w] = "lock"
  /\ Goto(w, "load")
  /\ UNCHANGED <<program, start, main, lock, count, reg, added, intact, failures>>

\* The semaphore is given back before count++.
LoadUnlocked(w) ==
  /\ step[w] = "load"
  /\ reg' = [reg EXCEPT ![w] = count]
  /\ lock' = 1
  /\ Goto(w, "store")
  /\ UNCHANGED <<program, start, main, count, added, intact, failures>>

\* The worker ends with the lock.
ReleaseForgets(w) ==
  /\ step[w] = "unlock"
  /\ Goto(w, IF program = "flock" THEN "close" ELSE "done")
  /\ UNCHANGED <<program, start, main, lock, count, reg, added, intact, failures>>

\* main does not wait for the workers.
JoinNone ==
  /\ main = "join"
  /\ main' = "done"
  /\ UNCHANGED <<program, start, step, lock, count, reg, added, intact, failures>>

-----------------------------------------------------------------------------
(* main *)

\* semget or semctl fails.
SetupFails ==
  /\ main = "spawn" /\ program = "sem" /\ Created = {}
  /\ SomeFailure
  /\ main' = "failed"
  /\ UNCHANGED <<program, start, step, lock, count, reg, added, intact>>

Spawn(w) ==
  /\ main = "spawn" /\ step[w] = "none"
  /\ Goto(w, "lock")
  /\ UNCHANGED <<program, start, main, lock, count, reg, added, intact, failures>>

\* fork or pthread_create fails.  mutex.c looks for a negative result, which
\* pthread_create never has, and goes on.
SpawnFails(w) ==
  /\ main = "spawn" /\ step[w] = "none"
  /\ SomeFailure
  /\ Goto(w, "missing")
  /\ main' = IF program = "mutex" THEN main ELSE "failed"
  /\ UNCHANGED <<program, start, lock, count, reg, added, intact>>

SpawnEnd ==
  /\ main = "spawn"
  /\ \A w \in Workers : step[w] # "none"
  /\ main' = "join"
  /\ UNCHANGED <<program, start, step, lock, count, reg, added, intact, failures>>

\* All are joined, and count is printed; joining a thread that was never
\* created uses an uninitialised pthread_t.
Join ==
  /\ main = "join"
  /\ \A w \in Created : step[w] \in {"done", "failed"}
  /\ main' = IF Created = Workers THEN "done" ELSE "undefined"
  /\ UNCHANGED <<program, start, step, lock, count, reg, added, intact, failures>>

-----------------------------------------------------------------------------
(* routine, add, and the child of flock.c *)

Acquire(w) ==
  /\ Running /\ step[w] = "lock"
  /\ lock > 0
  /\ lock' = lock - 1
  /\ Goto(w, "load")
  /\ UNCHANGED <<program, start, main, count, reg, added, intact, failures>>

\* count is loaded.  buf is not terminated: atoi may go on with digits that lie
\* in it behind the number.
Load(w) ==
  /\ Running /\ step[w] = "load"
  /\ \E n \in {count} \cup {10 * count + d : d \in IF program = "flock" THEN StrayDigits ELSE {}} :
       /\ reg' = [reg EXCEPT ![w] = n]
       /\ intact' = (intact /\ n = count)
  /\ Goto(w, "store")
  /\ UNCHANGED <<program, start, main, lock, count, added, failures>>

Store(w) ==
  /\ Running /\ step[w] = "store"
  /\ count' = reg[w] + 1
  /\ added' = added \cup {w}
  /\ Goto(w, "unlock")
  /\ UNCHANGED <<program, start, main, lock, reg, intact, failures>>

\* write fails, or ends early; flock.c goes on as if the number was written.
StoreCut(w) ==
  /\ program = "flock" /\ step[w] = "store"
  /\ SomeFailure
  /\ count' \in CutWrites(count, reg[w] + 1)
  /\ intact' = (intact /\ count' = count)
  /\ Goto(w, "unlock")
  /\ UNCHANGED <<program, start, main, lock, reg, added>>

Release(w) ==
  /\ Running /\ step[w] = "unlock"
  /\ lock' = IF program = "flock" THEN lock ELSE lock + 1
  /\ Goto(w, IF program = "flock" THEN "close" ELSE "done")
  /\ UNCHANGED <<program, start, main, count, reg, added, intact, failures>>

\* close(fd) and exit(0).
CloseFile(w) ==
  /\ step[w] = "close"
  /\ lock' = lock + 1
  /\ Goto(w, "done")
  /\ UNCHANGED <<program, start, main, count, reg, added, intact, failures>>

\* A call fails: a child of flock.c exits, which closes its file, and sem_arr.c
\* exits as a whole.
WorkerFails(w) ==
  /\ Running /\ step[w] \in Fallible
  /\ SomeFailure
  /\ IF program = "flock"
       THEN /\ lock' = (IF step[w] = "lock" THEN lock ELSE lock + 1)
            /\ Goto(w, "failed")
            /\ UNCHANGED main
       ELSE main' = "failed" /\ UNCHANGED <<lock, step>>
  /\ UNCHANGED <<program, start, count, reg, added, intact>>

-----------------------------------------------------------------------------
MainStep == SetupFails \/ SpawnEnd \/ Join \/ \E w \in Workers : Spawn(w) \/ SpawnFails(w)

Proceed(w) == Acquire(w) \/ Load(w) \/ Store(w) \/ Release(w) \/ CloseFile(w)

Worker(w) == Proceed(w) \/ StoreCut(w) \/ WorkerFails(w)

LockedNext == MainStep \/ \E w \in Workers : Worker(w)

LockedSpec == LockedInit /\ [][LockedNext]_lockedVars

\* main and the workers are scheduled.  Every worker takes the lock once, so
\* weak fairness is enough for one that waits; a call that blocks need not fail.
LockedFairSpec == LockedSpec /\ WF_lockedVars(MainStep) /\ \A w \in Workers : WF_lockedVars(Proceed(w))

-----------------------------------------------------------------------------
(* Properties *)

Inside(w) == step[w] \in {"load", "store", "unlock", "close"}

\* At most one worker is between its lock and its unlock, also when calls fail
\* and when lockf has unlocked only a part of the file.
Exclusive == \A v, w \in Workers : Inside(v) /\ Inside(w) => v = w

\* A program that comes to its end has counted exactly the workers that have
\* stored, and these are all unless a call failed.  The exception is flock.c after
\* atoi has read digits behind the number (flock.c:44-49) or write has ended
\* within it (flock.c:55): then the file may hold any number.
CountsAll ==
  main = "done" =>
    \/ program = "flock" /\ ~intact
    \/ /\ count = start + Cardinality(added)
       /\ failures = 0 => added = Workers

\* main comes to its end, although workers wait for each other.
MainEnds == <>(main \in {"done", "failed", "undefined"})

Counter == INSTANCE SharedCounter
             WITH value <- count

\* No update is lost: the load and the store of every worker are one atomic
\* addition of SharedCounter, and a worker whose write fails adds nothing and
\* takes nothing from the others.  Only flock.c can damage the number, and
\* SharedCounter says when.
ImplementsCounter == Counter!CounterSpec
=============================================================================
