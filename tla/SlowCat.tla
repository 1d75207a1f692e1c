------------------------------ MODULE SlowCat -------------------------------
(***************************************************************************)
(* signal/slow_cat.c: a cat that takes a token of TokenBucket for every    *)
(* byte.  The steps inside the library, the alarm and its handler are      *)
(* those of TokenBucket; this module adds the program that calls it, or    *)
(* ("other") the program of TokenBucket that makes any calls it may.       *)
(*                                                                         *)
(* A byte of the file is represented by its position, 1 .. FILE_LEN, and a *)
(* byte of the static buffer that was never read into by 0.                *)
(***************************************************************************)
EXTENDS TokenBucket, Sequences

CONSTANTS
  FILE_LEN,     \* bytes in the file
  BUF_SIZE,     \* bytes in buf, and tokens asked for at a time
  MaxFaults,    \* bound: calls of read and write that fail, short writes
  MaxOut        \* bound: bytes written

ASSUME CatAssumption ==
  /\ FILE_LEN \in Nat /\ BUF_SIZE \in Nat \ {0}
  /\ MaxFaults \in Nat /\ MaxOut \in Nat

VARIABLES
  cat,          \* where main is when it is not inside the library
  pos,          \* file offset of src
  buf,          \* buf
  sz,           \* sz
  cur,          \* cur
  out,          \* what has been written to standard output
  faults,       \* history: failed calls and short writes
  short         \* history: a write was short

catVars == <<cat, pos, buf, sz, cur, out, faults, short>>
allVars == <<vars, catVars>>

CatPC == {"other", "start", "fetch", "fetched", "read", "write", "destroy", "done", "failed", "undefined"}

CatTypeOK ==
  /\ TypeOK
  /\ cat \in CatPC
  /\ pos \in 0 .. FILE_LEN
  /\ buf \in [1 .. BUF_SIZE -> 0 .. FILE_LEN]
  /\ sz \in 0 .. BUF_SIZE /\ cur \in Nat
  /\ out \in Seq(0 .. FILE_LEN)
  /\ faults \in 0 .. MaxFaults /\ short \in BOOLEAN

CatInit ==
  /\ Init
  /\ cat \in {"start", "other"} /\ pos = 0
  /\ buf = [k \in 1 .. BUF_SIZE |-> 0]
  /\ sz = 0 /\ cur = 0 /\ out = <<>>
  /\ faults = 0 /\ short = FALSE

-----------------------------------------------------------------------------
(* Faulty variants of single steps, used by no specification. *)

\* All of the fetched tokens are returned, the used ones too.
ReadReturnsAll ==
  /\ cat = "read"
  /\ \E k \in 1 .. BUF_SIZE :
       /\ k <= ret /\ pos + k <= FILE_LEN
       /\ buf' = [j \in 1 .. BUF_SIZE |-> IF j <= k THEN pos + j ELSE buf[j]]
       /\ sz' = k /\ pos' = pos + k
  /\ ReturnLoad(id, ret)
  /\ cur' = 0
  /\ cat' = "write"
  /\ UNCHANGED <<out, faults, short>>

\* The whole of buf is written, whatever was read.
WriteWholeBuf ==
  /\ cat = "write" /\ pc = "idle"
  /\ out' = out \o [j \in 1 .. BUF_SIZE |-> buf[j]]
  /\ cat' = "fetch"
  /\ UNCHANGED <<bucketLibVars, pos, buf, sz, cur, faults, short>>

-----------------------------------------------------------------------------
\* open() and mytbf_init(CPS, BURST).
Start ==
  /\ cat = "start"
  /\ \E c \in Rates, b \in Bursts : InitLoad(c, b)
  /\ cat' = "fetch"
  /\ UNCHANGED <<pos, buf, sz, cur, out, faults, short>>

\* mytbf_fetchtoken(p, BUF_SIZE), or exit(1) if mytbf_init returned -1.
Fetch ==
  /\ cat = "fetch"
  /\ \/ ret >= 0 /\ FetchCall(id, BUF_SIZE) /\ cat' = "fetched"
     \/ pc = "idle" /\ ret < 0 /\ cat' = "failed" /\ UNCHANGED bucketLibVars
  /\ UNCHANGED <<pos, buf, sz, cur, out, faults, short>>

\* if (fetched == 0) continue
Fetched ==
  /\ cat = "fetched" /\ pc = "idle"
  /\ cat' = IF ret = 0 THEN "fetch" ELSE "read"
  /\ UNCHANGED <<bucketLibVars, pos, buf, sz, cur, out, faults, short>>

\* read() fails: EINTR starts the loop again, without returning the tokens;
\* any other error is exit(1).
ReadFails ==
  /\ cat = "read" /\ pc = "idle"
  /\ faults < MaxFaults
  /\ faults' = faults + 1
  /\ cat' \in {"fetch", "failed"}
  /\ UNCHANGED <<bucketLibVars, pos, buf, sz, cur, out, short>>

\* read() returns 0: the loop ends.
ReadEnd ==
  /\ cat = "read" /\ pc = "idle"
  /\ pos = FILE_LEN
  /\ cat' = "destroy"
  /\ UNCHANGED <<bucketLibVars, pos, buf, sz, cur, out, faults, short>>

\* read() fills the first k bytes of buf and the unused tokens are returned.
Read ==
  /\ cat = "read"
  /\ \E k \in 1 .. BUF_SIZE :
       /\ k <= ret /\ pos + k <= FILE_LEN
       /\ buf' = [j \in 1 .. BUF_SIZE |-> IF j <= k THEN pos + j ELSE buf[j]]
       /\ sz' = k /\ pos' = pos + k
       /\ ReturnLoad(id, ret - k)
  /\ cur' = 0
  /\ cat' = "write"
  /\ UNCHANGED <<out, faults, short>>

\* read() is given more room than buf has and uses it.
ReadOverrun ==
  /\ cat = "read" /\ pc = "idle"
  /\ ret > BUF_SIZE /\ pos + BUF_SIZE < FILE_LEN
  /\ cat' = "undefined"
  /\ UNCHANGED <<bucketLibVars, pos, buf, sz, cur, out, faults, short>>

\* write(1, buf + cur, sz), on a terminal or a pipe perhaps short.  The number of
\* bytes is sz also after a short write; past the end of buf there may be anything.
Write ==
  /\ cat = "write" /\ pc = "idle"
  /\ \E k \in 1 .. sz :
       /\ Len(out) + k <= MaxOut
       /\ k < sz => faults < MaxFaults
       /\ faults' = (IF k < sz THEN faults + 1 ELSE faults)
       /\ short' = (short \/ k < sz)
       /\ out' = out \o [j \in 1 .. k |-> IF cur + j <= BUF_SIZE THEN buf[cur + j] ELSE 0]
       /\ cur' = cur + k
       /\ cat' = IF cur + k = sz THEN "fetch" ELSE "write"
  /\ UNCHANGED <<bucketLibVars, pos, buf, sz>>

\* write() fails: EINTR tries again, any other error is exit(1).
WriteFails ==
  /\ cat = "write" /\ pc = "idle"
  /\ faults < MaxFaults
  /\ faults' = faults + 1
  /\ cat' \in {"write", "failed"}
  /\ UNCHANGED <<bucketLibVars, pos, buf, sz, cur, out, short>>

\* mytbf_destroy(p), and main returns.
Destroy ==
  /\ cat = "destroy"
  /\ DestroyUnlink(id)
  /\ cat' = "done"
  /\ UNCHANGED <<pos, buf, sz, cur, out, faults, short>>

CatStep ==
  \/ Start \/ Fetch \/ Fetched \/ ReadFails \/ ReadEnd \/ Read \/ ReadOverrun
  \/ Write \/ WriteFails \/ Destroy

\* The process exists until main returns or calls exit.
Ended == cat \in {"failed", "undefined"} \/ (cat = "done" /\ pc = "idle")

Program == ~Ended /\ UNCHANGED calls /\ (CatStep \/ (LibStep /\ UNCHANGED catVars))

Tick == ~Ended /\ UNCHANGED calls /\ Alarm /\ UNCHANGED catVars

ForeignTick == ~Ended /\ UNCHANGED calls /\ ForeignAlarm /\ UNCHANGED catVars

OtherCall == cat = "other" /\ Call /\ UNCHANGED catVars

CatNext == Program \/ Tick \/ ForeignTick \/ OtherCall

CatSpec == CatInit /\ [][CatNext]_allVars

\* The program is scheduled and a running alarm goes off.
CatFairSpec ==
  /\ CatSpec
  /\ WF_allVars(Program)
  /\ WF_allVars(Tick)

-----------------------------------------------------------------------------
\* slow_cat does "print content of file into standard output": as long as no
\* write is short, what it has written is a prefix of the file, in order and
\* without repetition, through waits for tokens and interrupted calls, and all of
\* it when main comes to its end.
PrintsFile ==
  /\ CatTypeOK
  /\ ~short => /\ out = [k \in 1 .. Len(out) |-> k]
               /\ cat \in {"destroy", "done"} => Len(out) = FILE_LEN

\* The flow control works end to end: no byte is printed without a token that a
\* tick of the alarm made, across blocked fetches, returned tokens and lost ticks.
\* This is claimed until a write is short or another process sends SIGALRM: the
\* flow control should not respond to that (README.md:800), but the handler
\* does not look where the signal comes from and makes tokens for it.
RateLimited == ~short /\ foreign = 0 => Len(out) <= made[id]

\* slow_cat comes to its end, through all waits for tokens; after a short write
\* its loop over cur may not.
Finishes == <>(cat = "other" \/ Ended \/ pc = "killed" \/ short)
=============================================================================
