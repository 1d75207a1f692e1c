------------------------------- MODULE Relay --------------------------------
(***************************************************************************)
(* adio/select.c, adio/poll.c and adio/epoll.c: one process copies several *)
(* sources to their destinations through a state machine per pair, driven  *)
(* by select, poll or epoll.  The three programs share the state machine;  *)
(* variant says which of them runs.                                        *)
(*                                                                         *)
(* A byte is represented by its position in the source.  A pair of regular *)
(* files is always ready; a pair of FIFOs has a writer that produces bytes *)
(* and closes, and a reader that makes room.  BUF_SIZE is PIPE_BUF, so a   *)
(* FIFO with room takes a whole buffer.                                    *)
(*                                                                         *)
(* poll.c leaves the events of the descriptor it does not wait for         *)
(* uninitialised, so its poll may return though nothing it wants is ready. *)
(***************************************************************************)
EXTENDS Integers, Sequences

CONSTANTS
  Pipes,        \* number of pairs
  Variants,     \* the programs to consider
  Kinds,        \* kinds of files to consider
  BUF_SIZE,     \* BUF_SIZE
  Limits,       \* limits in poll.c and epoll.c
  LENGTH,       \* bytes in every source
  MaxFaults,    \* bound: failing calls and exceptional conditions
  MaxOff        \* bound: an off that has come to MaxOff grows no more

ASSUME RelayAssumption ==
  /\ Pipes \in Nat \ {0}
  /\ Variants \subseteq {"select", "poll", "epoll"}
  /\ Kinds \subseteq {"file", "fifo"}
  /\ BUF_SIZE \in Nat \ {0} /\ Limits \in Nat \ {0} /\ LENGTH \in Nat
  /\ MaxFaults \in Nat
  /\ MaxOff \in Nat /\ MaxOff > BUF_SIZE

Pipe == 0 .. Pipes - 1

VARIABLES
  variant,      \* which program
  kind,         \* kind of the files of each pair
  state,        \* p[i].state
  buf,          \* the bytes last read into p[i].buf
  off, len,     \* p[i].off, p[i].len
  main,         \* "open", "wait", "handle", "done" or "failed"
  todo,         \* pairs the loop after the wait has not come to
  ready,        \* what the wait reported of each pair
  pushes,       \* j in main (poll.c, epoll.c)
  produced, closed, \* the source: bytes in it, and no more to come
  pos,          \* bytes read from the source
  full,         \* the destination has no room
  out,          \* bytes written to the destination, up to the first short write
  short,        \* history: a write took less than it was given, or its -1 was added
                \*   to off
  faults        \* history: failing calls and exceptional conditions

stVars == <<state, buf, off, len>>
envVars == <<produced, closed, full>>
histVars == <<short, faults>>
vars == <<variant, kind, stVars, main, todo, ready, pushes, envVars, pos, out, histVars>>

Finished(i) == state[i] \in {"EOF", "ERR"}
Limited == variant # "select"

TypeOK ==
  /\ variant \in Variants /\ kind \in [Pipe -> Kinds]
  /\ state \in [Pipe -> {"READ", "WRITE", "ERR", "EOF"}]
  /\ buf \in [Pipe -> Seq(1 .. LENGTH)]
  /\ off \in [Pipe -> Int] /\ len \in [Pipe -> -1 .. BUF_SIZE]
  /\ main \in {"open", "wait", "handle", "done", "failed"}
  /\ todo \subseteq Pipe
  /\ ready \in [Pipe -> SUBSET {"in", "out", "hup"}]
  /\ pushes \in 0 .. Limits
  /\ produced \in [Pipe -> 0 .. LENGTH] /\ closed \in [Pipe -> BOOLEAN]
  /\ pos \in [Pipe -> 0 .. LENGTH] /\ full \in [Pipe -> BOOLEAN]
  /\ out \in [Pipe -> Seq(1 .. LENGTH)] /\ short \in [Pipe -> BOOLEAN]
  /\ faults \in 0 .. MaxFaults

\* What pipe_init sets, on files that exist or FIFOs with a writer and a reader.
Init ==
  /\ variant \in Variants /\ kind \in [Pipe -> Kinds]
  /\ state = [i \in Pipe |-> "READ"]
  /\ buf = [i \in Pipe |-> <<>>]
  /\ off = [i \in Pipe |-> 0] /\ len = [i \in Pipe |-> 0]
  /\ main = "open" /\ todo = {} /\ ready = [i \in Pipe |-> {}]
  /\ pushes = 0
  /\ produced = [i \in Pipe |-> IF kind[i] = "file" THEN LENGTH ELSE 0]
  /\ closed = [i \in Pipe |-> kind[i] = "file"]
  /\ pos = [i \in Pipe |-> 0]
  /\ full = [i \in Pipe |-> FALSE]
  /\ out = [i \in Pipe |-> <<>>]
  /\ short = [i \in Pipe |-> FALSE] /\ faults = 0

SomeFault == faults < MaxFaults /\ faults' = faults + 1

-----------------------------------------------------------------------------
(* Faulty variants of single steps, used by no specification. *)

\* select waits until every pair is ready.
WaitAll ==
  /\ main = "wait"
  /\ \A i \in Pipe : CASE state[i] = "READ" -> pos[i] < produced[i] \/ closed[i]
                       [] state[i] = "WRITE" -> ~full[i]
                       [] OTHER -> TRUE
  /\ ready' = [i \in Pipe |-> IF state[i] = "READ" THEN {"in"} ELSE {"out"}]
  /\ todo' = Pipe
  /\ main' = "handle"
  /\ UNCHANGED <<variant, kind, stVars, pushes, envVars, pos, out, histVars>>

\* The buffer counts as written only when off has gone past len.
AdvanceLate(i, sz) ==
  /\ off' = [off EXCEPT ![i] = IF @ + sz > MaxOff THEN MaxOff ELSE @ + sz]
  /\ state' = [state EXCEPT ![i] = IF off[i] + sz > len[i] THEN "READ" ELSE @]

-----------------------------------------------------------------------------
(* The other ends of the FIFOs *)

envUnchanged == UNCHANGED <<variant, kind, stVars, main, todo, ready, pushes, pos, out, histVars>>

Produce(i) ==
  /\ ~closed[i] /\ produced[i] < LENGTH
  /\ produced' = [produced EXCEPT ![i] = @ + 1]
  /\ UNCHANGED <<closed, full>> /\ envUnchanged

Close(i) ==
  /\ ~closed[i] /\ produced[i] = LENGTH
  /\ closed' = [closed EXCEPT ![i] = TRUE]
  /\ UNCHANGED <<produced, full>> /\ envUnchanged

Drain(i) ==
  /\ full[i]
  /\ full' = [full EXCEPT ![i] = FALSE]
  /\ UNCHANGED <<produced, closed>> /\ envUnchanged

-----------------------------------------------------------------------------
(* main opens the files and initialises the pairs *)

Open ==
  /\ main = "open"
  /\ main' = "wait"
  /\ UNCHANGED <<variant, kind, stVars, todo, ready, pushes, envVars, pos, out, histVars>>

\* exit(1): a number of arguments that is not even, no memory, or an open that
\* fails.  The destinations opened before it have been truncated (not by epoll.c).
OpenFails ==
  /\ main = "open"
  /\ SomeFault
  /\ main' = "failed"
  /\ UNCHANGED <<variant, kind, stVars, todo, ready, pushes, envVars, pos, out, short>>

-----------------------------------------------------------------------------
(* The first half of pipe_push: build the sets and wait *)

\* What select, poll or epoll reports of the descriptor pair i waits for.  The
\* end of a FIFO is readable for select and a hang-up for the others.
Events(i) ==
  LET atEnd == closed[i] /\ pos[i] = produced[i]
      hup == closed[i] /\ kind[i] = "fifo" /\ Limited IN
  CASE state[i] = "READ" ->
         {e \in {"in"} : pos[i] < produced[i] \/ (atEnd /\ ~hup)} \cup {e \in {"hup"} : hup}
    [] state[i] = "WRITE" -> {e \in {"out"} : ~full[i]}
    [] OTHER -> {}

\* epoll_ctl refuses a regular file with EPERM.
Refused == variant = "epoll" /\ \E i \in Pipe : ~Finished(i) /\ kind[i] = "file"

Wait ==
  /\ main = "wait" /\ ~Refused
  /\ variant = "poll" \/ \E i \in Pipe : Events(i) # {}
  /\ ready' = [i \in Pipe |-> Events(i)]
  /\ todo' = IF variant = "epoll" THEN {i \in Pipe : Events(i) # {}} ELSE Pipe
  /\ pushes' = IF Limited THEN pushes + 1 ELSE pushes
  /\ main' = "handle"
  /\ UNCHANGED <<variant, kind, stVars, envVars, pos, out, histVars>>

\* exit(1): epoll_ctl refuses, or the wait fails with something else than EINTR
\* (after EINTR it is just repeated).
WaitFails ==
  /\ main = "wait"
  /\ \/ Refused /\ UNCHANGED faults
     \/ SomeFault
  /\ main' = "failed"
  /\ UNCHANGED <<variant, kind, stVars, todo, ready, pushes, envVars, pos, out, short>>

-----------------------------------------------------------------------------
(* The second half of pipe_push: the loop over the pairs *)

\* select.c and poll.c go through the pairs in order, epoll.c through its events.
At(i) ==
  /\ main = "handle" /\ i \in todo
  /\ variant = "epoll" \/ \A k \in todo : i <= k

Handled(i) ==
  /\ todo' = todo \ {i}
  /\ UNCHANGED <<variant, kind, main, ready, pushes, produced, closed>>

\* The event that the case of the switch tests: epoll.c tests EPOLLIN in both.
Wanted(i) == IF state[i] = "READ" \/ variant = "epoll" THEN "in" ELSE "out"

HangsUp(i) == variant = "epoll" /\ "hup" \in ready[i]

\* An exceptional condition (for epoll.c also a hang-up): STATE_ERR.
Break(i) ==
  /\ At(i) /\ ~Finished(i)
  /\ \/ HangsUp(i) /\ UNCHANGED faults
     \/ SomeFault
  /\ state' = [state EXCEPT ![i] = "ERR"]
  /\ Handled(i)
  /\ UNCHANGED <<buf, off, len, full, pos, out, short>>

\* The pair is finished or not ready.
Skip(i) ==
  /\ At(i) /\ ~HangsUp(i)
  /\ Finished(i) \/ Wanted(i) \notin ready[i]
  /\ Handled(i)
  /\ UNCHANGED <<stVars, full, pos, out, histVars>>

CanGo(i, s) == At(i) /\ state[i] = s /\ ~HangsUp(i) /\ Wanted(i) \in ready[i]

Read(i) ==
  /\ CanGo(i, "READ")
  /\ LET left == produced[i] - pos[i]
         sz == IF left < BUF_SIZE THEN left ELSE BUF_SIZE IN
       /\ pos' = [pos EXCEPT ![i] = @ + sz]
       /\ state' = [state EXCEPT ![i] = IF sz = 0 THEN "EOF" ELSE "WRITE"]
       /\ buf' = [buf EXCEPT ![i] = IF sz = 0 THEN @ ELSE [k \in 1 .. sz |-> pos[i] + k]]
       /\ off' = [off EXCEPT ![i] = IF sz = 0 THEN @ ELSE 0]
       /\ len' = [len EXCEPT ![i] = IF sz = 0 THEN @ ELSE sz]
  /\ Handled(i)
  /\ UNCHANGED <<full, out, histVars>>

\* read() returns -1: epoll.c leaves the state, the others take it for a length.
ReadFails(i) ==
  /\ CanGo(i, "READ")
  /\ SomeFault
  /\ state' = [state EXCEPT ![i] = IF variant = "epoll" THEN @ ELSE "WRITE"]
  /\ off' = [off EXCEPT ![i] = IF variant = "epoll" THEN @ ELSE 0]
  /\ len' = [len EXCEPT ![i] = IF variant = "epoll" THEN @ ELSE -1]
  /\ Handled(i)
  /\ UNCHANGED <<buf, full, pos, out, short>>

Advance(i, sz) ==
  /\ off' = [off EXCEPT ![i] = IF @ + sz > MaxOff THEN MaxOff ELSE @ + sz]
  /\ state' = [state EXCEPT ![i] = IF off[i] + sz = len[i] THEN "READ" ELSE @]

\* write(dst, buf, len): from the start of buf, whatever off is.  It may take less
\* than it is given (a terminal, a socket, a disk that fills up).
Write(i) ==
  /\ CanGo(i, "WRITE") /\ len[i] > 0
  /\ \E sz \in 1 .. len[i] :
       /\ Advance(i, sz)
       /\ short' = [short EXCEPT ![i] = @ \/ sz < len[i]]
       /\ out' = [out EXCEPT ![i] = IF short'[i] THEN @ ELSE @ \o SubSeq(buf[i], 1, sz)]
  /\ \E b \in BOOLEAN : full' = [full EXCEPT ![i] = b /\ kind[i] = "fifo"]
  /\ Handled(i)
  /\ UNCHANGED <<buf, len, pos, faults>>

\* write() returns -1, as it does whenever len is -1; select.c and poll.c add
\* the -1 to off.
WriteFails(i) ==
  /\ CanGo(i, "WRITE")
  /\ \/ len[i] = -1 /\ UNCHANGED <<short, faults>>
     \/ /\ len[i] > 0 /\ SomeFault
        /\ short' = [short EXCEPT ![i] = @ \/ variant # "epoll"]
  /\ IF variant = "epoll" THEN UNCHANGED <<off, state>> ELSE Advance(i, -1)
  /\ Handled(i)
  /\ UNCHANGED <<buf, len, full, pos, out>>

\* pipe_push returns 0; main goes on unless all pairs are finished or the
\* number of turns is used up.
PushEnd ==
  /\ main = "handle" /\ todo = {}
  /\ main' = IF (\A i \in Pipe : Finished(i)) \/ (Limited /\ pushes = Limits)
               THEN "done" ELSE "wait"
  /\ UNCHANGED <<variant, kind, stVars, todo, ready, pushes, envVars, pos, out, histVars>>

-----------------------------------------------------------------------------
PipeStep(i) == Break(i) \/ Skip(i) \/ Read(i) \/ ReadFails(i) \/ Write(i) \/ WriteFails(i)

Proceed == Open \/ Wait \/ PushEnd \/ \E i \in Pipe : PipeStep(i)

Process == Proceed \/ OpenFails \/ WaitFails

Env(i) == Produce(i) \/ Close(i) \/ Drain(i)

Next == Process \/ \E i \in Pipe : Env(i)

Spec == Init /\ [][Next]_vars

\* The process runs and the readers of the FIFOs read; nothing is assumed of
\* the writers, and no call need fail.
FairSpec == Spec /\ WF_vars(Proceed) /\ \A i \in Pipe : WF_vars(Drain(i))

-----------------------------------------------------------------------------
(* Properties *)

Bytes(k) == [j \in 1 .. k |-> j]

\* The programs "copy from src to dst by state machined".  Unless a write of the
\* pair was short or failed, its destination holds a prefix of its source, in order
\* and nothing twice, and all of it in STATE_EOF: whatever the interleaving with the
\* other pairs, after reads that failed and though poll may report nothing.
CopiesSource ==
  /\ TypeOK
  /\ \A i \in Pipe : ~short[i] => /\ out[i] = Bytes(Len(out[i]))
                                  /\ state[i] = "EOF" => Len(out[i]) = LENGTH

\* No pair waits for another: once the writer of a pair has closed, the pair
\* comes to its end in select.c, though other writers may never write or close,
\* unless a write of the pair was short or failed.
EndsAlone ==
  \A i \in Pipe : (variant = "select" /\ closed[i]) ~>
                    (Finished(i) \/ short[i] \/ main = "failed")
=============================================================================
