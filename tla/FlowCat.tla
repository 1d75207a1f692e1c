------------------------------ MODULE FlowCat -------------------------------
(***************************************************************************)
(* signal/token.c and signal/cat.c: two programs that print a file, at     *)
(* most CPS bytes for every SIGALRM.  token.c counts the alarms in a       *)
(* variable and prints in main; cat.c prints in the handler and restarts   *)
(* the alarm in main.  variant says which of them runs.                    *)
(*                                                                         *)
(* A byte of the file is represented by its position.  The handler may     *)
(* interrupt main between any two accesses to token and runs to its end.   *)
(* What cat.c hands to stdio counts as printed.                            *)
(***************************************************************************)
EXTENDS Integers, Sequences, FiniteSets

CONSTANTS
  Variants,     \* the programs to consider
  FILE_LEN,     \* bytes in the file
  CPS,          \* CPS
  TOKEN_MAX,    \* TOKEN_MAX
  UINT,         \* number of values of an unsigned int
  MaxFaults     \* bound: failing calls

ASSUME FlowAssumption ==
  /\ Variants \subseteq {"token", "cat"}
  /\ FILE_LEN \in Nat /\ CPS \in Nat \ {0}
  /\ TOKEN_MAX \in Nat \ {0} /\ UINT \in Nat /\ TOKEN_MAX < UINT
  /\ MaxFaults \in Nat

VARIABLES
  variant,      \* which program
  pc,           \* where main is
  timer,        \* an alarm(1) is running
  token,        \* token
  tmp,          \* the value of token loaded by token--
  pos,          \* file offset of src
  buf, cur, sz, \* buf, cur and sz of token.c
  out,          \* what has been printed
  made,         \* history: alarms that raised token, or that made cat.c read
  faults        \* history: failing calls

bufVars == <<buf, cur, sz>>
vars == <<variant, pc, timer, token, tmp, pos, bufVars, out, made, faults>>

PC == {"open", "check", "toPause", "paused", "read", "load", "store", "write", "rearm", "done", "failed"}

Ended == pc \in {"done", "failed"}

TypeOK ==
  /\ variant \in Variants /\ pc \in PC /\ timer \in BOOLEAN
  /\ token \in 0 .. TOKEN_MAX /\ tmp \in 0 .. TOKEN_MAX
  /\ pos \in 0 .. FILE_LEN
  /\ buf \in [1 .. CPS -> 0 .. FILE_LEN] /\ cur \in 0 .. CPS /\ sz \in 0 .. CPS - cur
  /\ out \in Seq(1 .. FILE_LEN)
  /\ made \in Nat /\ faults \in 0 .. MaxFaults

Init ==
  /\ variant \in Variants /\ pc = "open" /\ timer = FALSE
  /\ token = 0 /\ tmp = 0 /\ pos = 0
  /\ buf = [k \in 1 .. CPS |-> 0] /\ cur = 0 /\ sz = 0
  /\ out = <<>> /\ made = 0 /\ faults = 0

SomeFault == faults < MaxFaults /\ faults' = faults + 1

\* What read may return.
Sizes == {k \in 0 .. CPS : pos + k <= FILE_LEN /\ (k = 0 <=> pos = FILE_LEN)}

-----------------------------------------------------------------------------
(* Faulty variants of single steps, used by no specification. *)

\* The handler does not start the next alarm.
on_alarmOnce ==
  /\ timer' = FALSE
  /\ token' = IF token >= TOKEN_MAX THEN token ELSE token + 1
  /\ made' = IF token >= TOKEN_MAX THEN made ELSE made + 1
  /\ pc' = IF pc = "paused" THEN "check" ELSE pc
  /\ UNCHANGED <<variant, tmp, pos, bufVars, out, faults>>

\* main does not wait for a token.
CheckNever ==
  /\ pc = "check"
  /\ pc' = "read"
  /\ UNCHANGED <<variant, timer, token, tmp, pos, bufVars, out, made, faults>>

\* A short write is repeated from the start of buf.
WriteAgain ==
  /\ pc = "write"
  /\ \E r \in 1 .. sz :
       /\ out' = out \o SubSeq(buf, 1, r)
       /\ sz' = sz - r
       /\ pc' = IF sz = r THEN "check" ELSE "write"
  /\ UNCHANGED <<variant, timer, token, tmp, pos, buf, cur, made, faults>>

-----------------------------------------------------------------------------
\* main checks its argument, opens the file, installs the handler and starts
\* the alarm.
Open ==
  /\ pc = "open"
  /\ pc' = IF variant = "token" THEN "check" ELSE "toPause"
  /\ timer' = TRUE
  /\ UNCHANGED <<variant, token, tmp, pos, bufVars, out, made, faults>>

OpenFails ==
  /\ pc = "open"
  /\ SomeFault
  /\ pc' = "failed"
  /\ UNCHANGED <<variant, timer, token, tmp, pos, bufVars, out, made>>

\* A signal delivered before this step does not wake the pause.
Pause ==
  /\ pc = "toPause"
  /\ pc' = "paused"
  /\ UNCHANGED <<variant, timer, token, tmp, pos, bufVars, out, made, faults>>

-----------------------------------------------------------------------------
(* token.c *)

on_alarm ==
  /\ timer' = TRUE
  /\ token' = IF token >= TOKEN_MAX THEN token ELSE token + 1
  /\ made' = IF token >= TOKEN_MAX THEN made ELSE made + 1
  /\ pc' = IF pc = "paused" THEN "check" ELSE pc
  /\ UNCHANGED <<variant, tmp, pos, bufVars, out, faults>>

Check ==
  /\ pc = "check"
  /\ pc' = IF token <= 0 THEN "toPause" ELSE "read"
  /\ UNCHANGED <<variant, timer, token, tmp, pos, bufVars, out, made, faults>>

Read ==
  /\ pc = "read"
  /\ \E k \in Sizes :
       /\ buf' = [j \in 1 .. CPS |-> IF j <= k THEN pos + j ELSE buf[j]]
       /\ sz' = k /\ cur' = 0
       /\ pos' = pos + k
  /\ pc' = "load"
  /\ UNCHANGED <<variant, timer, token, tmp, out, made, faults>>

\* EINTR starts the loop again with the token kept, another error is exit(1).
ReadFails ==
  /\ pc = "read"
  /\ SomeFault
  /\ pc' \in {"check", "failed"}
  /\ UNCHANGED <<variant, timer, token, tmp, pos, bufVars, out, made>>

\* token-- is a load and a store.
TokenLoad ==
  /\ pc = "load"
  /\ tmp' = token
  /\ pc' = "store"
  /\ UNCHANGED <<variant, timer, token, pos, bufVars, out, made, faults>>

\* After it the end of the file ends the program.
TokenStore ==
  /\ pc = "store"
  /\ token' = (tmp - 1) % UINT
  /\ pc' = IF sz = 0 THEN "done" ELSE "write"
  /\ UNCHANGED <<variant, timer, tmp, pos, bufVars, out, made, faults>>

\* write(1, buf + cur, sz), perhaps short.
Write ==
  /\ pc = "write"
  /\ \E r \in 1 .. sz :
       /\ out' = out \o SubSeq(buf, cur + 1, cur + r)
       /\ cur' = cur + r /\ sz' = sz - r
       /\ pc' = IF sz = r THEN "check" ELSE "write"
  /\ UNCHANGED <<variant, timer, token, tmp, pos, buf, made, faults>>

WriteFails ==
  /\ pc = "write"
  /\ SomeFault
  /\ pc' \in {"write", "failed"}
  /\ UNCHANGED <<variant, timer, token, tmp, pos, bufVars, out, made>>

-----------------------------------------------------------------------------
(* cat.c *)

catUnchanged == UNCHANGED <<variant, token, tmp, bufVars>>

\* What is printed of k bytes when fputc is interrupted at those in skipped, which
\* are left out: the sequence that lists the others in their order.
Printed(k, skipped) ==
  {s \in [1 .. k - Cardinality(skipped) -> (pos + 1 .. pos + k) \ skipped] :
     \A a, b \in DOMAIN s : a < b => s[a] < s[b]}

\* The handler reads and prints; the alarm is over.
handle ==
  /\ timer' = FALSE
  /\ pc' = IF pc = "paused" THEN "rearm" ELSE pc
  /\ \E k \in Sizes :
       /\ pos' = pos + k
       /\ made' = IF k = 0 THEN made ELSE made + 1
       /\ \E skipped \in SUBSET (pos + 1 .. pos + k) :
            /\ faults + Cardinality(skipped) <= MaxFaults
            /\ faults' = faults + Cardinality(skipped)
            /\ \E s \in Printed(k, skipped) : out' = out \o s
  /\ catUnchanged

\* read fails: EINTR returns from the handler, another error is exit(0).
handleReadFails ==
  /\ SomeFault
  /\ timer' = FALSE
  /\ pc' \in {IF pc = "paused" THEN "rearm" ELSE pc, "failed"}
  /\ UNCHANGED <<pos, out, made>> /\ catUnchanged

\* fputc fails at the j-th byte: exit(1).
handlePrintFails ==
  /\ timer' = FALSE
  /\ pc' = "failed"
  /\ \E k \in Sizes : \E j \in 1 .. k : \E skipped \in SUBSET (pos + 1 .. pos + j - 1) :
       /\ faults + Cardinality(skipped) + 1 <= MaxFaults
       /\ faults' = faults + Cardinality(skipped) + 1
       /\ pos' = pos + k
       /\ \E s \in Printed(j - 1, skipped) : out' = out \o s
  /\ made' = made + 1
  /\ catUnchanged

\* alarm(1) after the pause.
Rearm ==
  /\ pc = "rearm"
  /\ timer' = TRUE
  /\ pc' = "toPause"
  /\ UNCHANGED <<pos, out, made, faults>> /\ catUnchanged

-----------------------------------------------------------------------------
Main ==
  \/ Open \/ OpenFails \/ Pause \/ Rearm
  \/ Check \/ Read \/ ReadFails \/ TokenLoad \/ TokenStore \/ Write \/ WriteFails

\* The alarm goes off.
Tick ==
  /\ timer /\ ~Ended
  /\ \/ variant = "token" /\ on_alarm
     \/ variant = "cat" /\ (handle \/ handleReadFails \/ handlePrintFails)

Next == Main \/ Tick

Spec == Init /\ [][Next]_vars

\* main runs, and a running alarm goes off.
FairSpec == Spec /\ WF_vars(Main) /\ WF_vars(Tick)

-----------------------------------------------------------------------------
(* Properties *)

\* Both programs "print content of file": in order and nothing twice; token.c
\* leaves nothing out, through short writes and interrupted calls.
PrintsInOrder ==
  /\ \A i, j \in 1 .. Len(out) : i < j => out[i] < out[j]
  /\ variant = "token" => \A i \in 1 .. Len(out) : out[i] = i
  /\ pc = "done" => Len(out) = FILE_LEN

\* No alarm, no output: at most CPS bytes for every alarm, although ticks fall
\* between the load and the store of token--; and token, which would wrap around
\* if token-- ever found it at 0, stays below TOKEN_MAX.
RateLimited == TypeOK /\ Len(out) <= CPS * made

\* cat.c waits for an alarm that is not running: the only one went off before
\* the pause.
Missed == variant = "cat" /\ pc = "paused" /\ ~timer

\* token.c comes to its end, and cat.c to the end of the file unless it has
\* missed an alarm.
Finishes == <>(Ended \/ Missed \/ (variant = "cat" /\ pos = FILE_LEN))
=============================================================================
