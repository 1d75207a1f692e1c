---------------------------- MODULE TokenBucket -----------------------------
(***************************************************************************)
(* signal/mytbf.c: token buckets that the handler of SIGALRM refills once  *)
(* a second, under a sequential program that calls the library.            *)
(*                                                                         *)
(* The handler may interrupt the program between any two of its accesses   *)
(* to memory and runs to its end before the program goes on.  p->token is  *)
(* not volatile and the makefile sets no optimisation, so each access      *)
(* written in the source is one load or store: "p->token -= r" is a load   *)
(* and a store, and MIN(x, y) reads its smaller argument twice.            *)
(*                                                                         *)
(* mytbf_unload is static and never called; it is not modelled.            *)
(***************************************************************************)
EXTENDS Integers

CONSTANTS
  MAX_TBF,      \* entries of jobs[]
  Rates,        \* values of cps that mytbf_init is called with
  Bursts,       \* values of burst that mytbf_init is called with
  Asks,         \* numbers of tokens that mytbf_fetchtoken is called with
  MaxToken,     \* bound: a tick that would take a bucket past it adds nothing
  MaxCalls,     \* bound: calls of the library
  MaxForeign    \* bound: SIGALRM sent by other processes

ASSUME BucketAssumption ==
  /\ MAX_TBF \in Nat \ {0}
  /\ Rates \subseteq Nat \ {0}
  /\ Bursts \subseteq Nat
  /\ Asks \subseteq Nat \ {0}
  /\ MaxToken \in Nat /\ MaxCalls \in Nat /\ MaxForeign \in Nat

Slot == 0 .. MAX_TBF - 1

VARIABLES
  inited,       \* inited
  timer,        \* an alarm(1) is running
  caught,       \* SIGALRM is caught by handle
  jobs,         \* jobs[i] != NULL
  live,         \* the struct behind jobs[i] is allocated
  bucket,       \* its fields cps, burst and token
  pc,           \* where the program is inside the library, or "idle"
  id,           \* the bucket of the current call
  n,            \* the argument token of the current call
  r,            \* r in mytbf_fetchtoken
  tmp,          \* the value last loaded from p->token or p->burst
  ret,          \* what the last call returned
  held,         \* history: tokens the program fetched and has not returned
  made,         \* history: tokens the handler has put into the bucket
  foreign,      \* history: SIGALRM from other processes
  calls         \* history: calls of the library

signalVars == <<inited, timer, caught>>
bucketVars == <<jobs, live, bucket, held, made>>
localVars == <<pc, id, n, r, tmp, ret>>
bucketLibVars == <<signalVars, bucketVars, localVars, foreign>>
vars == <<bucketLibVars, calls>>

PC == {"idle", "signal", "alloc", "publish", "free", "killed",
       "check", "toPause", "paused", "compare", "pick", "subLoad", "subStore",
       "addStore", "clipCompare", "clipPick", "clipStore"}

Bucket == [cps : Nat, burst : Nat, token : Int]

TypeOK ==
  /\ inited \in BOOLEAN /\ timer \in BOOLEAN /\ caught \in BOOLEAN
  /\ jobs \in [Slot -> BOOLEAN] /\ live \in [Slot -> BOOLEAN]
  /\ bucket \in [Slot -> Bucket]
  /\ pc \in PC
  /\ id \in Slot
  /\ n \in Nat /\ r \in Int /\ tmp \in Int /\ ret \in Int
  /\ held \in [Slot -> Int] /\ made \in [Slot -> Nat]
  /\ foreign \in 0 .. MaxForeign
  /\ calls \in 0 .. MaxCalls

Init ==
  /\ inited = FALSE /\ timer = FALSE /\ caught = FALSE
  /\ jobs = [i \in Slot |-> FALSE]
  /\ live = [i \in Slot |-> FALSE]
  /\ bucket = [i \in Slot |-> [cps |-> 0, burst |-> 0, token |-> 0]]
  /\ pc = "idle"
  /\ id = 0 /\ n = 0 /\ r = 0 /\ tmp = 0 /\ ret = 0
  /\ held = [i \in Slot |-> 0]
  /\ made = [i \in Slot |-> 0]
  /\ foreign = 0
  /\ calls = 0

token == bucket[id].token

SetToken(v) == bucket' = [bucket EXCEPT ![id].token = v]

-----------------------------------------------------------------------------
(* Faulty variants of single steps, used by no specification. *)

\* The handler does not start the next alarm.
handleOnce ==
  /\ timer' = FALSE
  /\ bucket' = [i \in Slot |-> [bucket[i] EXCEPT !.token = @ + IF jobs[i] THEN bucket[i].cps ELSE 0]]
  /\ made' = [i \in Slot |-> made[i] + IF jobs[i] THEN bucket[i].cps ELSE 0]
  /\ pc' = IF pc = "paused" THEN "check" ELSE pc
  /\ UNCHANGED <<inited, caught, jobs, live, held, id, n, r, tmp, ret>>

\* mytbf_fetchtoken does not look at p->token before it takes tokens.
FetchCheckNever ==
  /\ pc = "check"
  /\ pc' = "compare"
  /\ UNCHANGED <<signalVars, bucketVars, foreign, id, n, r, tmp, ret>>

\* mytbf_fetchtoken takes what it is asked for, whatever is there.
FetchPickAll ==
  /\ pc = "pick"
  /\ pc' = "subLoad"
  /\ r' = n
  /\ UNCHANGED <<signalVars, bucketVars, foreign, id, n, tmp, ret>>

\* mytbf_destroy frees the struct first and forgets jobs[].
DestroyUnlinkNever(i) ==
  /\ pc = "idle"
  /\ pc' = "free"
  /\ id' = i
  /\ UNCHANGED <<signalVars, bucketVars, foreign, n, r, tmp, ret>>

-----------------------------------------------------------------------------
(* SIGALRM *)

\* The handler: token += cps for every job.
Refill(i) ==
  IF jobs[i] /\ bucket[i].token + bucket[i].cps <= MaxToken THEN bucket[i].cps ELSE 0

\* alarm(1), then the loop over jobs[].  A pause that it interrupts returns.
handle ==
  /\ timer' = TRUE
  /\ bucket' = [i \in Slot |-> [bucket[i] EXCEPT !.token = @ + Refill(i)]]
  /\ made' = [i \in Slot |-> made[i] + Refill(i)]
  /\ pc' = IF pc = "paused" THEN "check" ELSE pc
  /\ UNCHANGED <<inited, caught, jobs, live, held, id, n, r, tmp, ret>>

\* The default action of SIGALRM.
terminate ==
  /\ pc' = "killed"
  /\ UNCHANGED <<signalVars, bucketVars, id, n, r, tmp, ret>>

\* The alarm goes off.
Alarm ==
  /\ pc # "killed" /\ timer
  /\ \/ caught /\ handle
     \/ ~caught /\ terminate
  /\ UNCHANGED foreign

\* Another process sends SIGALRM.
ForeignAlarm ==
  /\ pc # "killed" /\ caught
  /\ foreign < MaxForeign
  /\ foreign' = foreign + 1
  /\ handle

-----------------------------------------------------------------------------
(* mytbf_init *)

\* The call.  mytbf_load starts the alarm ...
InitLoad(c, b) ==
  /\ pc = "idle"
  /\ n' = c /\ tmp' = b
  /\ inited' = TRUE
  /\ timer' = IF inited THEN timer ELSE TRUE
  /\ pc' = IF inited THEN "alloc" ELSE "signal"
  /\ UNCHANGED <<caught, bucketVars, foreign, id, r, ret>>

\* ... and then installs the handler.
InitSignal ==
  /\ pc = "signal"
  /\ caught' = TRUE
  /\ pc' = "alloc"
  /\ UNCHANGED <<inited, timer, bucketVars, foreign, id, n, r, tmp, ret>>

\* malloc fails, or get_pos finds no NULL (and the struct is leaked).
InitFails ==
  /\ pc = "alloc"
  /\ ret' = -1
  /\ pc' = "idle"
  /\ UNCHANGED <<signalVars, bucketVars, foreign, id, n, r, tmp>>

\* malloc and get_pos succeed; the fields are set before the handler can see
\* the struct.
InitFields ==
  /\ pc = "alloc"
  /\ \E i \in Slot :
       /\ ~jobs[i]
       /\ \A k \in Slot : k < i => jobs[k]
       /\ id' = i
       /\ live' = [live EXCEPT ![i] = TRUE]
       /\ bucket' = [bucket EXCEPT ![i] = [cps |-> n, burst |-> tmp, token |-> 0]]
       /\ held' = [held EXCEPT ![i] = 0]
       /\ made' = [made EXCEPT ![i] = 0]
  /\ pc' = "publish"
  /\ UNCHANGED <<signalVars, jobs, foreign, n, r, tmp, ret>>

InitPublish ==
  /\ pc = "publish"
  /\ jobs' = [jobs EXCEPT ![id] = TRUE]
  /\ ret' = id
  /\ pc' = "idle"
  /\ UNCHANGED <<signalVars, live, bucket, held, made, foreign, id, n, r, tmp>>

-----------------------------------------------------------------------------
(* mytbf_fetchtoken *)

FetchCall(i, k) ==
  /\ pc = "idle"
  /\ pc' = "check"
  /\ id' = i /\ n' = k
  /\ UNCHANGED <<signalVars, bucketVars, foreign, r, tmp, ret>>

\* A step of a call that changes nothing but the locals.
Local == UNCHANGED <<signalVars, bucketVars, foreign, id, n, ret>>

FetchCheck ==
  /\ pc = "check"
  /\ pc' = IF token = 0 THEN "toPause" ELSE "compare"
  /\ Local /\ UNCHANGED <<r, tmp>>

\* A signal delivered before this step does not wake the pause.
FetchPause ==
  /\ pc = "toPause"
  /\ pc' = "paused"
  /\ Local /\ UNCHANGED <<r, tmp>>

\* MIN(p->token, token): the comparison ...
FetchCompare ==
  /\ pc = "compare"
  /\ pc' = IF token < n THEN "pick" ELSE "subLoad"
  /\ r' = IF token < n THEN r ELSE n
  /\ Local /\ UNCHANGED tmp

\* ... and the second read of p->token.
FetchPick ==
  /\ pc = "pick"
  /\ pc' = "subLoad"
  /\ r' = token
  /\ Local /\ UNCHANGED tmp

\* p->token -= r
FetchLoad ==
  /\ pc = "subLoad"
  /\ pc' = "subStore"
  /\ tmp' = token
  /\ Local /\ UNCHANGED r

FetchStore ==
  /\ pc = "subStore"
  /\ SetToken(tmp - r)
  /\ held' = [held EXCEPT ![id] = @ + r]
  /\ ret' = r
  /\ pc' = "idle"
  /\ UNCHANGED <<signalVars, jobs, live, made, foreign, id, n, r, tmp>>

-----------------------------------------------------------------------------
(* mytbf_returntoken *)

\* The call, and p->token += token.
ReturnLoad(i, k) ==
  /\ pc = "idle"
  /\ pc' = "addStore"
  /\ id' = i /\ n' = k
  /\ tmp' = bucket[i].token
  /\ UNCHANGED <<signalVars, bucketVars, foreign, r, ret>>

ReturnStore ==
  /\ pc = "addStore"
  /\ SetToken(tmp + n)
  /\ held' = [held EXCEPT ![id] = @ - n]
  /\ pc' = "clipCompare"
  /\ UNCHANGED <<signalVars, jobs, live, made, foreign, id, n, r, tmp, ret>>

\* p->token = MIN(p->token, p->burst)
ClipCompare ==
  /\ pc = "clipCompare"
  /\ pc' = IF token < bucket[id].burst THEN "clipPick" ELSE "clipStore"
  /\ tmp' = IF token < bucket[id].burst THEN tmp ELSE bucket[id].burst
  /\ Local /\ UNCHANGED r

ClipPick ==
  /\ pc = "clipPick"
  /\ pc' = "clipStore"
  /\ tmp' = token
  /\ Local /\ UNCHANGED r

ClipStore ==
  /\ pc = "clipStore"
  /\ SetToken(tmp)
  /\ ret' = n
  /\ pc' = "idle"
  /\ UNCHANGED <<signalVars, jobs, live, held, made, foreign, id, n, r, tmp>>

-----------------------------------------------------------------------------
(* mytbf_destroy *)

DestroyUnlink(i) ==
  /\ pc = "idle"
  /\ pc' = "free"
  /\ id' = i
  /\ jobs' = [jobs EXCEPT ![i] = FALSE]
  /\ UNCHANGED <<signalVars, live, bucket, held, made, foreign, n, r, tmp, ret>>

DestroyFree ==
  /\ pc = "free"
  /\ live' = [live EXCEPT ![id] = FALSE]
  /\ ret' = 1
  /\ pc' = "idle"
  /\ UNCHANGED <<signalVars, jobs, bucket, held, made, foreign, id, n, r, tmp>>

-----------------------------------------------------------------------------
\* The program inside a call of the library.
LibStep ==
  \/ InitSignal \/ InitFails \/ InitFields \/ InitPublish \/ DestroyFree
  \/ FetchCheck \/ FetchPause \/ FetchCompare \/ FetchPick \/ FetchLoad \/ FetchStore
  \/ ReturnStore \/ ClipCompare \/ ClipPick \/ ClipStore

\* A program that uses the buckets it has and returns no more than it holds.
Call ==
  /\ calls < MaxCalls
  /\ calls' = calls + 1
  /\ \/ \E c \in Rates, b \in Bursts : InitLoad(c, b)
     \/ \E i \in Slot : jobs[i] /\ \E k \in Asks : FetchCall(i, k)
     \/ \E i \in Slot : jobs[i] /\ \E k \in 0 .. held[i] : ReturnLoad(i, k)
     \/ \E i \in Slot : jobs[i] /\ DestroyUnlink(i)

Next ==
  \/ Call
  \/ UNCHANGED calls /\ (LibStep \/ Alarm \/ ForeignAlarm)

Spec == Init /\ [][Next]_vars

-----------------------------------------------------------------------------
(* Properties *)

\* The handler follows every non-NULL entry of jobs[], whenever it interrupts
\* mytbf_init or mytbf_destroy: none of them points to a struct that is not yet
\* filled in or has been freed.
NoDanglingJob == \A i \in Slot : jobs[i] => live[i]

\* No bucket gives out more than the handler has put in.  A tick that hits the
\* program between the load and the store of p->token is lost, but no
\* interleaving creates tokens or makes p->token negative (which
\* mytbf_fetchtoken would take for a stock).
NeverOverdraws ==
  \A i \in Slot : live[i] => /\ bucket[i].token >= 0
                             /\ bucket[i].token + held[i] <= made[i]

\* mytbf_fetchtoken does "block until token fetched": when it returns, the
\* program holds at least one token more.
FetchGivesTokens == [][pc = "subStore" /\ pc' = "idle" => held'[id] > held[id]]_vars

\* A mytbf_fetchtoken that blocks returns: the tick that falls between the test
\* of p->token and pause() wakes nobody, but the next one does.
FetchReturns == (pc \in {"check", "toPause", "paused"}) ~> (pc = "idle")
=============================================================================
