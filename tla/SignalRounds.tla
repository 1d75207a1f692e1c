---------------------------- MODULE SignalRounds ----------------------------
(***************************************************************************)
(* signal/int.c, signal/suspend.c and signal/suspend1.c: lines of stars    *)
(* that SIGINT may not interrupt.  int.c lets the signal in between two    *)
(* lines; the others wait there for one, suspend.c by unblocking it and    *)
(* calling pause(), suspend1.c by sigsuspend().                            *)
(*                                                                         *)
(* A signal is pending from its arrival to its delivery; of several only   *)
(* one is kept.  The kernel delivers a signal that is not blocked before   *)
(* the program goes on, hence also before the call that unblocked it       *)
(* returns.                                                                *)
(***************************************************************************)
EXTENDS Integers

CONSTANTS
  Programs,     \* subset of {"int", "suspend", "suspend1"}
  ROUNDS,       \* lines to print (1000)
  STARS,        \* stars of a line (5)
  MaxSignals    \* bound: arrivals of SIGINT

ASSUME RoundsAssumption ==
  /\ Programs \subseteq {"int", "suspend", "suspend1"}
  /\ ROUNDS \in Nat /\ STARS \in Nat \ {0} /\ MaxSignals \in Nat

VARIABLES
  program, at,
  i, j,         \* the loop variables
  blocked,      \* SIGINT is in the process's mask
  old, oldset,  \* SIGINT is in old, in oldset (suspend1.c)
  handler,      \* disposition of SIGINT: "default", "ignored" or "own"
  func,         \* what signal() returned: the disposition before
  pending,      \* SIGINT is pending
  guarded,      \* history: it arrived while the handler was installed
  signals,      \* history: arrivals
  wasted        \* history: signals handled while the program was not waiting

maskVars == <<blocked, old, oldset>>
sigVars == <<pending, guarded, signals, wasted>>
roundsVars == <<program, at, i, j, maskVars, handler, func, sigVars>>

Over == at \in {"done", "killed", "exited"}
Waiting == at \in {"paused", "suspended"}

RoundsTypeOK ==
  /\ program \in Programs
  /\ at \in {"install", "open", "grab", "block", "star", "newline", "unblock", "pause", "sigsuspend",
             "paused", "suspended", "restore", "unhandle", "return", "done", "killed", "exited"}
  /\ i \in 0 .. ROUNDS /\ j \in 0 .. STARS
  /\ blocked \in BOOLEAN /\ old \in BOOLEAN /\ oldset \in BOOLEAN
  /\ handler \in {"default", "ignored", "own"} /\ func \in {"default", "ignored"}
  /\ pending \in BOOLEAN /\ guarded \in BOOLEAN
  /\ signals \in 0 .. MaxSignals /\ wasted \in 0 .. MaxSignals

\* Mask and disposition are inherited: a shell starts jobs with either.
RoundsInit ==
  /\ program \in Programs /\ at = "install"
  /\ i = 0 /\ j = 0
  /\ blocked \in BOOLEAN /\ old = blocked /\ oldset = FALSE
  /\ func \in {"default", "ignored"} /\ handler = func
  /\ pending = FALSE /\ guarded = FALSE /\ signals = 0 /\ wasted = 0

-----------------------------------------------------------------------------
(* Faulty variants of single steps, used by no specification. *)

\* The mask is not set at the start of a line.
BlockNever ==
  /\ at = "block"
  /\ at' = IF i < ROUNDS THEN "star" ELSE "restore"
  /\ j' = 0
  /\ UNCHANGED <<program, i, maskVars, handler, func, sigVars>>

\* oldset is taken from the mask the process was started with.
OpenNever ==
  /\ at = "open"
  /\ at' = "grab"
  /\ UNCHANGED <<program, i, j, maskVars, handler, func, sigVars>>

\* The disposition is restored while the mask still holds a signal back.
RestoreSwapped ==
  /\ at = "restore"
  /\ handler' = func
  /\ blocked' = old
  /\ at' = "unhandle"
  /\ UNCHANGED <<program, i, j, old, oldset, func, sigVars>>

-----------------------------------------------------------------------------
(* The kernel's side *)

Deliverable == pending /\ ~blocked /\ ~Over

\* kill() or ctrl-c; a signal that is ignored is dropped, unless it is blocked.
Arrive ==
  /\ ~Over /\ signals < MaxSignals
  /\ signals' = signals + 1
  /\ pending' = (pending \/ blocked \/ handler # "ignored")
  /\ guarded' = (IF pending THEN guarded ELSE handler = "own")
  /\ UNCHANGED <<program, at, i, j, maskVars, handler, func, wasted>>

\* The default action ends the process.  Otherwise the handler runs, and pause() or
\* sigsuspend() returns, the latter with the mask from before, which blocks SIGINT.
Deliver ==
  /\ Deliverable
  /\ pending' = FALSE
  /\ at' = CASE handler = "default" -> "killed"
             [] handler = "own" /\ Waiting -> "block"
             [] OTHER -> at
  /\ blocked' = (at = "suspended")
  /\ i' = IF handler = "own" /\ Waiting THEN i + 1 ELSE i
  /\ wasted' = IF handler = "own" /\ ~Waiting THEN wasted + 1 ELSE wasted
  /\ UNCHANGED <<program, j, old, oldset, handler, func, guarded, signals>>

\* SIGTSTP is never blocked, and its handler is exit(0).
Suspend ==
  /\ program # "int" /\ at # "install" /\ ~Over
  /\ at' = "exited"
  /\ UNCHANGED <<program, i, j, maskVars, handler, func, sigVars>>

-----------------------------------------------------------------------------
(* main *)

\* signal(SIGINT, ...) and the call that saves the mask in old.
Install ==
  /\ at = "install"
  /\ handler' = "own"
  /\ at' = IF program = "suspend1" THEN "open" ELSE "block"
  /\ UNCHANGED <<program, i, j, maskVars, func, sigVars>>

\* suspend1.c: SIG_UNBLOCK, then SIG_BLOCK with the mask in between kept in oldset.
Open ==
  /\ at = "open"
  /\ blocked' = FALSE
  /\ at' = "grab"
  /\ UNCHANGED <<program, i, j, old, oldset, handler, func, sigVars>>

Grab ==
  /\ at = "grab"
  /\ oldset' = blocked /\ blocked' = TRUE
  /\ at' = "block"
  /\ UNCHANGED <<program, i, j, old, handler, func, sigVars>>

\* The test of the loop and SIG_BLOCK.
Block ==
  /\ at = "block"
  /\ blocked' = (IF i < ROUNDS THEN TRUE ELSE blocked)
  /\ at' = IF i < ROUNDS THEN "star" ELSE "restore"
  /\ j' = 0
  /\ UNCHANGED <<program, i, old, oldset, handler, func, sigVars>>

\* write(1, "*", 1) and sleep(1).
Star ==
  /\ at = "star"
  /\ j' = IF j < STARS THEN j + 1 ELSE j
  /\ at' = IF j < STARS THEN "star" ELSE IF program = "int" THEN "unblock" ELSE "newline"
  /\ UNCHANGED <<program, i, maskVars, handler, func, sigVars>>

\* write(1, "\n", 1): the end of the loop's body in int.c.
NewLine ==
  /\ at = "newline"
  /\ at' = CASE program = "int" -> "block" [] program = "suspend" -> "unblock" [] OTHER -> "sigsuspend"
  /\ i' = IF program = "int" THEN i + 1 ELSE i
  /\ UNCHANGED <<program, j, maskVars, handler, func, sigVars>>

Unblock ==
  /\ at = "unblock"
  /\ blocked' = FALSE
  /\ at' = IF program = "int" THEN "newline" ELSE "pause"
  /\ UNCHANGED <<program, i, j, old, oldset, handler, func, sigVars>>

\* pause() waits for a signal that is delivered from now on.
Pause ==
  /\ at = "pause"
  /\ at' = "paused"
  /\ UNCHANGED <<program, i, j, maskVars, handler, func, sigVars>>

\* sigsuspend(&oldset) changes the mask and waits in one step.
SigSuspend ==
  /\ at = "sigsuspend"
  /\ blocked' = oldset
  /\ at' = "suspended"
  /\ UNCHANGED <<program, i, j, old, oldset, handler, func, sigVars>>

\* SIG_SETMASK, then signal(SIGINT, func), then return.
Restore ==
  /\ at = "restore"
  /\ blocked' = old
  /\ at' = "unhandle"
  /\ UNCHANGED <<program, i, j, old, oldset, handler, func, sigVars>>

Unhandle ==
  /\ at = "unhandle"
  /\ handler' = func
  /\ pending' = (pending /\ func # "ignored")
  /\ at' = "return"
  /\ UNCHANGED <<program, i, j, maskVars, func, guarded, signals, wasted>>

Return ==
  /\ at = "return"
  /\ at' = "done"
  /\ UNCHANGED <<program, i, j, maskVars, handler, func, sigVars>>

\* The program goes on when no signal is to be delivered first.
Program ==
  /\ ~Deliverable
  /\ \/ Install \/ Open \/ Grab \/ Block \/ Star \/ NewLine \/ Unblock
     \/ Pause \/ SigSuspend \/ Restore \/ Unhandle \/ Return

RoundsNext == Program \/ Deliver \/ Arrive \/ Suspend

RoundsSpec == RoundsInit /\ [][RoundsNext]_roundsVars

\* The process is scheduled and the kernel delivers; nobody need send a signal.
RoundsFairSpec == RoundsSpec /\ WF_roundsVars(Program) /\ WF_roundsVars(Deliver)

-----------------------------------------------------------------------------
(* Properties *)

\* "A signal that is blocked does not interrupt system calls" (a comment of int.c):
\* no handler runs between the first star of a line and its last, through all the
\* masks that pause() and sigsuspend() leave behind and whatever mask was inherited.
LinesWhole == [][at = "star" => ~Deliver]_roundsVars

\* A SIGINT that arrives while the handler is installed never ends the process,
\* also when it is still pending after the last line, when mask and handler are put
\* back one after the other.
GuardedNeverKills == RoundsTypeOK /\ (at = "killed" => ~guarded)

\* The signal that suspend.c may answer too early: it waits, and the signal it was
\* to wait for has been handled before pause().
Missed == program = "suspend" /\ at = "paused" /\ wasted > 0

\* A SIGINT typed while a line is printed starts the next line.  suspend.c may miss
\* it, as its comment says ("these two steps are not atomic"); sigsuspend() in
\* suspend1.c may not.
SignalStartsLine ==
  \A n \in 0 .. ROUNDS - 1 :
    (at = "star" /\ pending /\ i = n) ~> (i = n + 1 \/ Over \/ Missed)
=============================================================================
