--------------------------- MODULE SharedCounter ----------------------------
(***************************************************************************)
(* What thread/mutex.c, ipc/sem_arr.c and adio/flock.c promise: every      *)
(* worker adds one to a shared counter, at most once and in one step.      *)
(* flock.c keeps the promise until it damages the number in the file.      *)
(***************************************************************************)
EXTENDS Integers

CONSTANT Workers

VARIABLES
  program,        \* "mutex", "sem" or "flock"
  value,          \* the counter
  added,          \* the workers that have added one
  intact          \* the counter has not been damaged

CounterInit == value \in Nat /\ added = {} /\ intact = TRUE

Increment(w) ==
  /\ w \notin added
  /\ added' = added \cup {w}
  /\ value' = value + 1
  /\ UNCHANGED <<program, intact>>

\* The number is damaged, or has been before: nothing is promised any more.
Damaged == program = "flock" /\ ~intact' /\ UNCHANGED program

CounterNext == (\E w \in Workers : Increment(w)) \/ Damaged

CounterSpec == CounterInit /\ [][CounterNext]_<<program, value, added, intact>>
=============================================================================
