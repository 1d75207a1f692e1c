--------------------------- MODULE SlowCatProofs ----------------------------
(***************************************************************************)
(* Proofs about TokenBucket for every size of jobs[] and every rate, burst *)
(* and number of tokens asked for, and about SlowCat for every length of   *)
(* the file and every size of the buffer.                                  *)
(***************************************************************************)
EXTENDS SlowCat, TLAPS

Fetching == {"check", "toPause", "paused", "compare", "pick", "subLoad", "subStore"}
Returning == {"addStore", "clipCompare", "clipPick", "clipStore"}

\* The entry a call works on is there; while the struct is not yet published
\* or no longer reachable it is allocated.
CallInv ==
  /\ pc \in Fetching \cup Returning => jobs[id]
  /\ pc \in {"publish", "free"} => live[id] /\ ~jobs[id]
  /\ pc \in {"signal", "alloc"} => tmp >= 0
  /\ pc \in Fetching => n >= 1

\* What a loaded value may still be used for: the handler only adds tokens, so
\* a value read earlier is never more than what the bucket holds now.
LoadedInv ==
  /\ pc \in {"compare", "pick"} => token >= 1
  /\ pc = "subLoad" => r >= 1 /\ r <= token
  /\ pc = "subStore" => r >= 1 /\ r <= tmp /\ tmp <= token
  /\ pc \in {"addStore", "clipStore"} => tmp >= 0 /\ tmp <= token

IInv == TypeOK /\ NoDanglingJob /\ NeverOverdraws /\ CallInv /\ LoadedInv

-----------------------------------------------------------------------------
\* The initial states satisfy the invariant.
LEMMA InitInv == Init => IInv
<1> SUFFICES ASSUME Init PROVE IInv
  OBVIOUS
<1> USE BucketAssumption DEF Init
<1>1. TypeOK
  <2>1. 0 \in Slot
    BY DEF Slot
  <2>2. [cps |-> 0, burst |-> 0, token |-> 0] \in Bucket
    BY DEF Bucket
  <2>3. inited \in BOOLEAN /\ timer \in BOOLEAN /\ caught \in BOOLEAN
    BY Zenon
  <2>4. jobs \in [Slot -> BOOLEAN] /\ live \in [Slot -> BOOLEAN]
    BY Zenon
  <2> QED
    BY <2>1, <2>2, <2>3, <2>4 DEF TypeOK, PC
<1>2. NoDanglingJob /\ NeverOverdraws /\ CallInv /\ LoadedInv
  BY DEF NoDanglingJob, NeverOverdraws, CallInv, LoadedInv, Fetching, Returning
<1> QED
  BY <1>1, <1>2 DEF IInv

\* The handler adds the same number of tokens to a bucket and to the account
\* of what was made, and takes none away.
LEMMA HandleStep ==
  ASSUME IInv, handle, foreign' \in 0 .. MaxForeign, UNCHANGED calls PROVE IInv'
<1> USE BucketAssumption DEF IInv, TypeOK, handle
<1>1. \A i \in Slot : Refill(i) \in Nat
  BY DEF Refill, Bucket
<1>2. \A i \in Slot : bucket'[i].token = bucket[i].token + Refill(i)
                      /\ bucket'[i].cps = bucket[i].cps /\ bucket'[i].burst = bucket[i].burst
                      /\ bucket'[i] \in Bucket
  BY <1>1 DEF Bucket
<1>3. TypeOK'
  <2>1. bucket' \in [Slot -> Bucket]
    BY <1>2, Zenon
  <2>2. made' \in [Slot -> Nat]
    BY <1>1
  <2> QED
    BY <2>1, <2>2 DEF PC
<1>4. NoDanglingJob'
  BY Zenon DEF NoDanglingJob
<1>5. NeverOverdraws'
  BY <1>1, <1>2 DEF NeverOverdraws, Bucket
<1>6. CallInv'
  BY DEF CallInv, Fetching
<1>7. LoadedInv'
  BY <1>1, <1>2 DEF LoadedInv, token, Bucket
<1> QED
  BY <1>3, <1>4, <1>5, <1>6, <1>7, Zenon

\* SIGALRM, from the timer or from another process, keeps the invariant.
LEMMA SignalStep ==
  ASSUME IInv, Alarm \/ ForeignAlarm, UNCHANGED calls PROVE IInv'
<1>1. CASE Alarm /\ ~caught
  BY <1>1, Zenon DEF IInv, TypeOK, Alarm, terminate, NoDanglingJob, NeverOverdraws, CallInv, LoadedInv,
              Fetching, Returning, PC, signalVars, bucketVars
<1>2. CASE Alarm /\ caught
  BY <1>2, HandleStep DEF Alarm, IInv, TypeOK
<1>3. CASE ForeignAlarm
  BY <1>3, HandleStep, BucketAssumption DEF ForeignAlarm, IInv, TypeOK
<1> QED
  BY <1>1, <1>2, <1>3 DEF IInv, TypeOK

\* The beginning of a call, on a bucket that is there.
Begin ==
  \/ \E c \in Rates, b \in Bursts : InitLoad(c, b)
  \/ \E i \in Slot : jobs[i] /\ \E k \in Nat \ {0} : FetchCall(i, k)
  \/ \E i \in Slot : jobs[i] /\ \E k \in Nat : ReturnLoad(i, k)
  \/ \E i \in Slot : jobs[i] /\ DestroyUnlink(i)

\* Beginning a call keeps the invariant.
LEMMA BeginStep == ASSUME IInv, Begin, calls' \in 0 .. MaxCalls PROVE IInv'
<1> USE BucketAssumption DEF IInv, signalVars, bucketVars
<1>1. ASSUME NEW c \in Rates, NEW b \in Bursts, InitLoad(c, b) PROVE IInv'
  <2>1. inited' \in BOOLEAN /\ timer' \in BOOLEAN /\ caught' \in BOOLEAN
    BY <1>1, Zenon DEF InitLoad, TypeOK
  <2>2. pc' \in {"signal", "alloc"}
    BY <1>1, Zenon DEF InitLoad
  <2>3. UNCHANGED <<bucketVars, foreign, id, r, ret>> /\ n' \in Nat /\ tmp' \in Nat
    BY <1>1 DEF InitLoad
  <2>4. TypeOK'
    BY <2>1, <2>2, <2>3 DEF TypeOK, PC
  <2>5. NoDanglingJob' /\ NeverOverdraws' /\ CallInv' /\ LoadedInv'
    BY <2>2, <2>3 DEF NoDanglingJob, NeverOverdraws, CallInv, LoadedInv, Fetching, Returning
  <2> QED
    BY <2>4, <2>5
<1>2. ASSUME NEW i \in Slot, jobs[i],
             \/ \E k \in Nat \ {0} : FetchCall(i, k)
             \/ \E k \in Nat : ReturnLoad(i, k)
      PROVE IInv'
  <2> USE <1>2 DEF FetchCall, ReturnLoad
  <2>1. bucket[i].token \in Int /\ bucket[i].token >= 0
    BY DEF TypeOK, Bucket, NoDanglingJob, NeverOverdraws
  <2>2. TypeOK'
    BY <2>1, Zenon DEF TypeOK, PC
  <2>3. NoDanglingJob' /\ NeverOverdraws'
    BY Zenon DEF NoDanglingJob, NeverOverdraws
  <2>4. CallInv' /\ LoadedInv'
    BY <2>1 DEF CallInv, LoadedInv, TypeOK, Fetching, Returning, token
  <2> QED
    BY <2>2, <2>3, <2>4, Zenon
<1>3. ASSUME NEW i \in Slot, jobs[i], DestroyUnlink(i) PROVE IInv'
  <2> USE <1>3 DEF DestroyUnlink
  <2>1. jobs' \in [Slot -> BOOLEAN]
    BY Zenon DEF TypeOK
  <2>2. TypeOK'
    BY <2>1, Zenon DEF TypeOK, PC
  <2>3. NoDanglingJob' /\ NeverOverdraws'
    BY Zenon DEF NoDanglingJob, NeverOverdraws, TypeOK
  <2>4. CallInv' /\ LoadedInv'
    BY DEF CallInv, LoadedInv, NoDanglingJob, TypeOK, Fetching, Returning
  <2> QED
    BY <2>2, <2>3, <2>4
<1> QED
  BY <1>1, <1>2, <1>3 DEF Begin

\* The program of TokenBucket keeps the invariant.
LEMMA CallStep == ASSUME IInv, Call PROVE IInv'
<1>1. calls' \in 0 .. MaxCalls
  BY BucketAssumption DEF Call, IInv, TypeOK
<1>2. \A i \in Slot : 0 .. held[i] \subseteq Nat
  BY DEF IInv, TypeOK
<1>3. Begin
  BY <1>2, BucketAssumption, Zenon DEF Call, Begin
<1> QED
  BY <1>1, <1>3, BeginStep

\* A step that only computes with locals keeps the invariant.
LEMMA LocalStep ==
  ASSUME IInv, UNCHANGED calls,
         FetchCheck \/ FetchPause \/ FetchCompare \/ FetchPick \/ FetchLoad
           \/ ClipCompare \/ ClipPick
  PROVE  IInv'
<1> USE BucketAssumption DEF IInv, FetchCheck, FetchPause, FetchCompare, FetchPick, FetchLoad,
        ClipCompare, ClipPick, Local, signalVars, bucketVars
<1>1. bucket[id].token \in Int /\ bucket[id].burst \in Nat
  BY Zenon DEF TypeOK, Bucket
<1>2. TypeOK'
  BY <1>1 DEF TypeOK, PC, token
<1>3. NoDanglingJob' /\ NeverOverdraws'
  BY Zenon DEF NoDanglingJob, NeverOverdraws
<1>4. CallInv'
  BY Zenon DEF CallInv, Fetching, Returning
<1>5. LoadedInv'
  <2>1. jobs[id] => token >= 0
    BY Zenon DEF NeverOverdraws, NoDanglingJob, TypeOK, token
  <2>2. pc \in Fetching \cup Returning /\ token' = token
    BY Zenon DEF Fetching, Returning, token
  <2>3. token >= 0 /\ token \in Int /\ n \in Nat /\ r \in Int /\ tmp \in Int
    BY <1>1, <2>1, <2>2, Zenon DEF CallInv, TypeOK, token
  <2>4. CASE FetchCheck \/ FetchPause
    BY <2>2, <2>3, <2>4 DEF LoadedInv
  <2>5. CASE FetchCompare \/ FetchPick
    <3>1. n >= 1
      BY <2>5, Zenon DEF CallInv, Fetching
    <3> QED
      BY <2>2, <2>3, <2>5, <3>1 DEF LoadedInv
  <2>6. CASE FetchLoad
    BY <2>2, <2>3, <2>6, SMTT(30) DEF LoadedInv
  <2>7. CASE ClipCompare \/ ClipPick
    BY <1>1, <2>2, <2>3, <2>7 DEF LoadedInv
  <2> QED
    BY <2>4, <2>5, <2>6, <2>7, Zenon
<1> QED
  BY <1>2, <1>3, <1>4, <1>5, Zenon

\* A store to p->token writes a value that is not negative and leaves the
\* account balanced, whatever ticks came after the load.
LEMMA StoreStep ==
  ASSUME IInv, UNCHANGED calls, FetchStore \/ ReturnStore \/ ClipStore PROVE IInv'
<1> USE BucketAssumption DEF IInv, FetchStore, ReturnStore, ClipStore, signalVars, bucketVars
<1>1. /\ bucket' \in [Slot -> Bucket]
      /\ bucket'[id].token >= 0
      /\ bucket'[id].token + held'[id] <= bucket[id].token + held[id]
      /\ \A i \in Slot : i # id => bucket'[i] = bucket[i] /\ held'[i] = held[i]
  <2>1. ASSUME NEW v \in Int, SetToken(v)
        PROVE /\ bucket' \in [Slot -> Bucket]
              /\ bucket'[id].token = v
              /\ \A i \in Slot : i # id => bucket'[i] = bucket[i]
    BY <2>1 DEF TypeOK, Bucket, SetToken
  <2>2. bucket[id].token \in Int
    BY Zenon DEF TypeOK, Bucket
  <2>3. CASE FetchStore
    BY <2>1, <2>2, <2>3 DEF TypeOK, LoadedInv, token
  <2>4. CASE ReturnStore
    BY <2>1, <2>2, <2>4 DEF TypeOK, LoadedInv, token
  <2>5. CASE ClipStore
    BY <2>1, <2>2, <2>5 DEF TypeOK, LoadedInv, token
  <2> QED
    BY <2>3, <2>4, <2>5, Zenon
<1>2. held' \in [Slot -> Int]
  BY DEF TypeOK
<1>3. TypeOK'
  BY <1>1, <1>2 DEF TypeOK, PC
<1>4. NoDanglingJob' /\ CallInv' /\ LoadedInv'
  BY Zenon DEF NoDanglingJob, CallInv, LoadedInv, Fetching, Returning
<1>5. NeverOverdraws'
  <2> SUFFICES ASSUME NEW i \in Slot, live[i]
      PROVE bucket'[i].token >= 0 /\ bucket'[i].token + held'[i] <= made[i]
    BY Zenon DEF NeverOverdraws
  <2>1. CASE i = id
    BY <1>1, <1>2, <2>1 DEF NeverOverdraws, TypeOK, Bucket
  <2>2. CASE i # id
    BY <1>1, <2>2 DEF NeverOverdraws
  <2> QED
    BY <2>1, <2>2, Zenon
<1> QED
  BY <1>3, <1>4, <1>5, Zenon

\* mytbf_init and mytbf_destroy keep the invariant.
LEMMA InitDestroyStep ==
  ASSUME IInv, UNCHANGED calls,
         InitSignal \/ InitFails \/ InitFields \/ InitPublish \/ DestroyFree
  PROVE  IInv'
<1> USE BucketAssumption DEF IInv, signalVars, bucketVars
<1>1. CASE InitSignal \/ InitFails
  <2> USE <1>1 DEF InitSignal, InitFails
  <2>1. TypeOK'
    <3>1. caught' \in BOOLEAN
      BY Zenon DEF TypeOK
    <3>2. ret' \in Int /\ pc' \in PC
      BY DEF TypeOK, PC
    <3> QED
      BY <3>1, <3>2, Zenon DEF TypeOK
  <2>2. NoDanglingJob' /\ NeverOverdraws' /\ CallInv' /\ LoadedInv'
    BY Zenon DEF NoDanglingJob, NeverOverdraws, CallInv, LoadedInv, Fetching, Returning
  <2> QED
    BY <2>1, <2>2, Zenon
<1>2. CASE InitFields
  <2> USE <1>2 DEF InitFields
  <2>1. [cps |-> n, burst |-> tmp, token |-> 0] \in Bucket
    BY DEF TypeOK, CallInv, Bucket
  <2>2. TypeOK'
    BY <2>1 DEF TypeOK, PC
  <2>3. NoDanglingJob' /\ CallInv' /\ LoadedInv'
    BY DEF NoDanglingJob, CallInv, LoadedInv, TypeOK, Fetching, Returning
  <2>4. NeverOverdraws'
    BY DEF NeverOverdraws, TypeOK, Bucket
  <2> QED
    BY <2>2, <2>3, <2>4, Zenon
<1>3. CASE InitPublish \/ DestroyFree
  <2> USE <1>3 DEF InitPublish, DestroyFree
  <2>1. TypeOK'
    <3>1. jobs' \in [Slot -> BOOLEAN] /\ live' \in [Slot -> BOOLEAN]
      BY Zenon DEF TypeOK
    <3>2. ret' \in Int
      BY DEF TypeOK, Slot
    <3> QED
      BY <3>1, <3>2, Zenon DEF TypeOK, PC
  <2>2. NoDanglingJob' /\ NeverOverdraws'
    BY Zenon DEF NoDanglingJob, NeverOverdraws, CallInv, TypeOK
  <2>3. CallInv' /\ LoadedInv'
    BY DEF CallInv, LoadedInv, NoDanglingJob, TypeOK, Fetching, Returning
  <2> QED
    BY <2>1, <2>2, <2>3, Zenon
<1> QED
  BY <1>1, <1>2, <1>3, Zenon

\* Every step keeps the invariant.
LEMMA StepInv == IInv /\ [Next]_vars => IInv'
<1> SUFFICES ASSUME IInv, [Next]_vars PROVE IInv'
  OBVIOUS
<1>1. CASE Call
  BY <1>1, CallStep
<1>2. CASE UNCHANGED calls /\ LibStep
  BY <1>2, LocalStep, StoreStep, InitDestroyStep, Zenon DEF LibStep
<1>3. CASE UNCHANGED calls /\ (Alarm \/ ForeignAlarm)
  BY <1>3, SignalStep, Zenon
<1>4. CASE UNCHANGED vars
  BY <1>4 DEF IInv, TypeOK, NoDanglingJob, NeverOverdraws, CallInv, LoadedInv, token,
              vars, bucketLibVars, signalVars, bucketVars, localVars
<1> QED
  BY <1>1, <1>2, <1>3, <1>4 DEF Next

\* The inductive invariant holds in every reachable state.
THEOREM Invariance == Spec => []IInv
<1>1. Init => IInv
  BY InitInv
<1>2. IInv /\ [Next]_vars => IInv'
  BY StepInv
<1> QED
  BY <1>1, <1>2, PTL DEF Spec

\* The handler never follows a pointer to a struct that is not allocated.
THEOREM NoDanglingJobHolds == Spec => []NoDanglingJob
<1>1. IInv => NoDanglingJob
  BY DEF IInv
<1> QED
  BY <1>1, Invariance, PTL

\* No interleaving of the handler with the library creates tokens.
THEOREM NeverOverdrawsHolds == Spec => []NeverOverdraws
<1>1. IInv => NeverOverdraws
  BY Zenon DEF IInv
<1> QED
  BY <1>1, Invariance, PTL

\* mytbf_fetchtoken returns with at least one token.
THEOREM FetchGivesTokensHolds == Spec => FetchGivesTokens
<1>1. IInv /\ [Next]_vars => [pc = "subStore" /\ pc' = "idle" => held'[id] > held[id]]_vars
  <2> SUFFICES ASSUME IInv, Next, pc = "subStore", pc' = "idle" PROVE held'[id] > held[id]
    OBVIOUS
  <2>1. FetchStore
    BY Zenon DEF Next, Call, InitLoad, FetchCall, ReturnLoad, DestroyUnlink, LibStep, InitSignal,
           InitFails, InitFields, InitPublish, DestroyFree, FetchCheck, FetchPause, FetchCompare,
           FetchPick, FetchLoad, ReturnStore, ClipCompare, ClipPick, ClipStore, Alarm,
           ForeignAlarm, handle, terminate
  <2> QED
    BY <2>1 DEF FetchStore, IInv, TypeOK, LoadedInv
<1> QED
  BY <1>1, Invariance, PTL DEF Spec, FetchGivesTokens

-----------------------------------------------------------------------------
(* slow_cat *)

Opening == {"signal", "alloc", "publish"}
Clipping == {"clipCompare", "clipPick", "clipStore"}

\* Where main may be inside the library, and that it has its bucket as long as
\* it uses it; nothing is written before mytbf_init returns.
ControlInv ==
  /\ cat \in {"start", "read", "destroy", "failed", "undefined"} => pc \in {"idle", "killed"}
  /\ cat = "fetch" => pc \in Opening \cup {"idle", "killed"}
  /\ cat = "fetched" => pc \in Fetching \cup {"idle", "killed"}
  /\ cat = "write" => pc \in Returning \cup {"idle", "killed"}
  /\ cat = "done" => pc \in {"free", "idle", "killed"}
  /\ cat \in {"fetched", "read", "write", "destroy"} => jobs[id]
  /\ cat = "fetch" /\ pc = "idle" /\ ret >= 0 => jobs[id]
  /\ cat \in {"start", "other"} \/ pc \in Opening => out = <<>>

\* As long as no write is short, what is in buf continues what was written.
OrderInv ==
  ~short =>
    /\ out = [k \in 1 .. Len(out) |-> k]
    /\ cat = "write" => /\ cur = 0 /\ Len(out) + sz = pos
                        /\ \A j \in 1 .. sz : buf[j] = Len(out) + j
    /\ cat \notin {"write", "failed", "undefined"} => Len(out) = pos
    /\ cat \in {"destroy", "done"} => pos = FILE_LEN

\* As long as no write is short, main holds a token for every byte that it has
\* written or may still write without asking for more.
AccountInv ==
  ~short =>
    /\ Len(out) <= made[id]
    /\ pc = "publish" => held[id] = 0
    /\ cat = "fetch" /\ pc = "idle" /\ ret >= 0 => Len(out) <= held[id]
    /\ cat = "fetched" /\ pc \in Fetching => Len(out) <= held[id]
    /\ cat = "fetched" /\ pc = "idle" => ret >= 0 /\ Len(out) + ret <= held[id]
    /\ cat = "read" => ret >= 0 /\ Len(out) + ret <= held[id]
    /\ cat = "write" /\ pc = "addStore" => Len(out) + sz + n <= held[id]
    /\ cat = "write" /\ pc \in Clipping \cup {"idle"} => Len(out) + sz <= held[id]

CatIInv == IInv /\ CatTypeOK /\ ControlInv /\ OrderInv /\ AccountInv

\* The initial states of slow_cat satisfy the invariant.
LEMMA CatInitInv == CatInit => CatIInv
<1> SUFFICES ASSUME CatInit PROVE CatIInv
  OBVIOUS
<1>1. IInv
  BY InitInv, Zenon DEF CatInit
<1>2. out = <<>> /\ Len(out) = 0 /\ out \in Seq(0 .. FILE_LEN)
  BY DEF CatInit
<1>3. CatTypeOK
  <2>1. short \in BOOLEAN /\ cat \in CatPC
    BY Zenon DEF CatInit, CatPC
  <2>2. buf \in [1 .. BUF_SIZE -> 0 .. FILE_LEN]
    BY CatAssumption DEF CatInit
  <2> QED
    BY <1>1, <1>2, <2>1, <2>2, CatAssumption DEF CatTypeOK, IInv, CatInit
<1>4. ControlInv
  BY <1>2 DEF ControlInv, CatInit, Init, Opening
<1>5. OrderInv
  BY <1>2 DEF OrderInv, CatInit
<1>6. AccountInv
  BY <1>1, <1>2 DEF AccountInv, CatInit, Init, IInv, TypeOK
<1> QED
  BY <1>1, <1>3, <1>4, <1>5, <1>6 DEF CatIInv

\* A step of the library, of the handler or of the other program leaves the
\* order of what is written alone.
LEMMA BucketOrder ==
  ASSUME CatIInv, TypeOK', UNCHANGED catVars PROVE CatTypeOK' /\ OrderInv'
BY Zenon DEF CatIInv, CatTypeOK, OrderInv, catVars

\* What main holds covers what it has written and may write: the handler, which
\* makes tokens and takes none.
LEMMA CatSignalStep ==
  ASSUME CatIInv, Alarm \/ ForeignAlarm, UNCHANGED catVars
  PROVE  ControlInv' /\ AccountInv'
<1> USE DEF CatIInv, CatTypeOK, IInv, TypeOK
<1>1. /\ UNCHANGED <<jobs, held, id, n, ret, cat, sz, out, short>>
      /\ made'[id] >= made[id] /\ made'[id] \in Nat
      /\ pc' = pc \/ pc' = "killed" \/ (pc = "paused" /\ pc' = "check")
  <2>1. CASE handle
    <3>1. Refill(id) \in Nat
      BY Zenon DEF Refill, Bucket
    <3> QED
      BY <2>1, <3>1, SMTT(30) DEF handle, catVars
  <2>2. CASE terminate
    BY <2>2 DEF terminate, bucketVars, catVars
  <2> QED
    BY <2>1, <2>2, Zenon DEF Alarm, ForeignAlarm
<1>2. Len(out) \in Nat
  OBVIOUS
<1>3. ControlInv'
  BY <1>1, Zenon DEF ControlInv, Fetching, Returning, Opening
<1>4. AccountInv'
  BY <1>1, <1>2 DEF AccountInv, Fetching, Returning, Clipping
<1> QED
  BY <1>3, <1>4, Zenon

\* What the invariant says of each variable.
LEMMA CatTypes ==
  ASSUME CatIInv
  PROVE  /\ TypeOK /\ ControlInv /\ OrderInv /\ AccountInv /\ cat \in CatPC
         /\ id \in Slot /\ n \in Nat /\ r \in Int /\ ret \in Int
         /\ held \in [Slot -> Int] /\ made \in [Slot -> Nat] /\ jobs \in [Slot -> BOOLEAN]
         /\ pos \in Nat /\ sz \in Nat /\ Len(out) \in Nat /\ out \in Seq(0 .. FILE_LEN)
         /\ buf \in [1 .. BUF_SIZE -> 0 .. FILE_LEN]
BY CatAssumption, SMTT(30) DEF CatIInv, CatTypeOK, IInv, TypeOK

\* The same for a step of main inside the library.
LEMMA CatLibStep ==
  ASSUME CatIInv, LibStep, UNCHANGED catVars
  PROVE  ControlInv' /\ AccountInv'
<1>0. /\ ControlInv /\ AccountInv /\ cat \in CatPC
      /\ id \in Slot /\ n \in Nat /\ r \in Int /\ ret \in Int
      /\ held \in [Slot -> Int] /\ made \in [Slot -> Nat] /\ jobs \in [Slot -> BOOLEAN]
  BY CatTypes, Zenon
<1>1. Len(out) \in Nat /\ sz \in Nat /\ UNCHANGED <<cat, sz, out, short>>
  BY CatTypes DEF catVars
<1>2. CASE InitSignal \/ InitFails
  <2>1. UNCHANGED <<jobs, held, made, id, n>> /\ pc \in Opening
    BY <1>2, Zenon DEF InitSignal, InitFails, bucketVars, Opening
  <2>2. pc' = "alloc" \/ (pc' = "idle" /\ ret' = -1)
    BY <1>2, Zenon DEF InitSignal, InitFails
  <2>3. ControlInv'
    BY <1>0, <1>1, <2>1, <2>2 DEF ControlInv, Opening, Fetching, Returning
  <2>4. AccountInv'
    BY <1>0, <1>1, <2>1, <2>2 DEF AccountInv, ControlInv, Opening, Fetching, Returning, Clipping
  <2> QED
    BY <2>3, <2>4, Zenon
<1>3. CASE InitFields
  <2>1. pc' = "publish" /\ out = <<>> /\ Len(out) = 0
    BY <1>0, <1>3, Zenon DEF InitFields, ControlInv, Opening
  <2>2. held'[id'] = 0 /\ made'[id'] = 0
    BY <1>0, <1>3 DEF InitFields
  <2>3. cat \in {"fetch", "other"}
    BY <1>0, <1>3, Zenon DEF InitFields, ControlInv, CatPC, Fetching, Returning
  <2> QED
    BY <1>0, <1>1, <2>1, <2>2, <2>3 DEF ControlInv, AccountInv, Opening, Fetching, Clipping
<1>4. CASE InitPublish
  <2>1. pc' = "idle" /\ out = <<>> /\ Len(out) = 0 /\ jobs'[id'] /\ UNCHANGED <<id, held, made>>
    BY <1>0, <1>4, Zenon DEF InitPublish, ControlInv, Opening
  <2>2. cat \in {"fetch", "other"}
    BY <1>0, <1>4, Zenon DEF InitPublish, ControlInv, CatPC, Fetching, Returning
  <2>3. ~short => held[id] = 0
    BY <1>0, <1>4, Zenon DEF InitPublish, AccountInv
  <2> QED
    BY <1>0, <1>1, <2>1, <2>2, <2>3 DEF ControlInv, AccountInv, Opening, Fetching, Clipping
<1>5. CASE DestroyFree
  <2>1. cat \in {"done", "other"} /\ pc' = "idle" /\ UNCHANGED <<jobs, held, made, id>>
    BY <1>0, <1>5, Zenon DEF DestroyFree, ControlInv, CatPC, Fetching, Returning, Opening
  <2> QED
    BY <1>0, <1>1, <2>1, Zenon DEF ControlInv, AccountInv, Opening
<1>6. CASE FetchCheck \/ FetchPause \/ FetchCompare \/ FetchPick \/ FetchLoad
  <2>1. pc \in Fetching /\ pc' \in Fetching /\ UNCHANGED <<jobs, held, made, id, ret>>
    BY <1>0, <1>6, Zenon DEF FetchCheck, FetchPause, FetchCompare, FetchPick, FetchLoad, Local, bucketVars, Fetching
  <2>2. cat \in {"fetched", "other"}
    BY <1>0, <2>1, Zenon DEF ControlInv, CatPC, Fetching, Returning, Opening
  <2> QED
    BY <1>0, <1>1, <2>1, <2>2, Zenon DEF ControlInv, AccountInv, Opening, Fetching
<1>7. CASE FetchStore
  <2>1. pc \in Fetching /\ pc' = "idle" /\ UNCHANGED <<jobs, made, id>>
    BY <1>0, <1>7, Zenon DEF FetchStore, Fetching
  <2>2. held'[id] = held[id] + r /\ ret' = r /\ r >= 1
    BY <1>0, <1>7, Zenon DEF FetchStore, CatIInv, IInv, LoadedInv
  <2>3. cat \in {"fetched", "other"}
    BY <1>0, <2>1, Zenon DEF ControlInv, CatPC, Fetching, Returning, Opening
  <2> QED
    BY <1>0, <1>1, <2>1, <2>2, <2>3 DEF ControlInv, AccountInv, Opening, Fetching
<1>8. CASE ReturnStore
  <2>1. pc = "addStore" /\ pc' = "clipCompare" /\ UNCHANGED <<jobs, made, id, n>>
    BY <1>0, <1>8, Zenon DEF ReturnStore
  <2>2. held'[id] = held[id] - n
    BY <1>0, <1>8, Zenon DEF ReturnStore
  <2>3. cat \in {"write", "other"}
    BY <1>0, <2>1, Zenon DEF ControlInv, CatPC, Fetching, Returning, Opening
  <2> QED
    BY <1>0, <1>1, <2>1, <2>2, <2>3 DEF ControlInv, AccountInv, Opening, Returning, Clipping
<1>9. CASE ClipCompare \/ ClipPick \/ ClipStore
  <2>1. pc \in Clipping /\ pc' \in Clipping \cup {"idle"} /\ UNCHANGED <<jobs, held, made, id, n>>
    BY <1>0, <1>9, Zenon DEF ClipCompare, ClipPick, ClipStore, Local, bucketVars, Clipping
  <2>2. cat \in {"write", "other"}
    BY <1>0, <2>1, Zenon DEF ControlInv, CatPC, Fetching, Returning, Opening, Clipping
  <2> QED
    BY <1>0, <1>1, <2>1, <2>2, Zenon DEF ControlInv, AccountInv, Opening, Returning, Clipping
<1> QED
  BY <1>2, <1>3, <1>4, <1>5, <1>6, <1>7, <1>8, <1>9 DEF LibStep

\* A call of the other program, which writes nothing.
LEMMA CatOtherStep ==
  ASSUME CatIInv, OtherCall PROVE ControlInv' /\ AccountInv'
<1>1. cat = "other" /\ out = <<>> /\ Len(out) = 0 /\ UNCHANGED <<cat, out>>
  BY DEF CatIInv, ControlInv, OtherCall, catVars
<1>2. made' = made /\ made \in [Slot -> Nat] /\ id \in Slot /\ id' \in Slot /\ pc' # "publish"
  BY Zenon DEF CatIInv, IInv, TypeOK, OtherCall, Call, InitLoad, FetchCall, ReturnLoad, DestroyUnlink, bucketVars
<1> QED
  BY <1>1, <1>2 DEF ControlInv, AccountInv

\* The calls of main are calls that a program may make, and keep the invariant
\* of the bucket.
LEMMA CatBegin ==
  ASSUME CatIInv, Start \/ Fetch \/ Read \/ Destroy, UNCHANGED calls
  PROVE  IInv'
<1>0. IInv /\ calls' \in 0 .. MaxCalls /\ id \in Slot /\ ret \in Int
  BY Zenon DEF CatIInv, IInv, TypeOK
<1>1. CASE Start
  BY <1>0, <1>1, BeginStep, Zenon DEF Start, Begin
<1>2. CASE Fetch
  <2>1. CASE ret >= 0 /\ FetchCall(id, BUF_SIZE)
    <3>1. jobs[id]
      BY <1>2, <2>1, Zenon DEF Fetch, FetchCall, CatIInv, ControlInv
    <3>2. Begin
      BY <1>0, <2>1, <3>1, CatAssumption, Zenon DEF Begin
    <3> QED
      BY <1>0, <3>2, BeginStep, Zenon
  <2>2. CASE UNCHANGED bucketLibVars
    BY <1>0, <2>2 DEF IInv, TypeOK, NoDanglingJob, NeverOverdraws, CallInv, LoadedInv, token,
                bucketLibVars, signalVars, bucketVars, localVars
  <2> QED
    BY <1>2, <2>1, <2>2, Zenon DEF Fetch
<1>3. CASE Read
  <2>1. PICK k \in 1 .. BUF_SIZE : k <= ret /\ ReturnLoad(id, ret - k)
    BY <1>3, Zenon DEF Read
  <2>2. ret - k \in Nat
    BY <1>0, <2>1, CatAssumption
  <2>3. jobs[id]
    BY <1>3, Zenon DEF Read, CatIInv, ControlInv
  <2>4. Begin
    BY <1>0, <2>1, <2>2, <2>3, Zenon DEF Begin
  <2> QED
    BY <1>0, <2>4, BeginStep, Zenon
<1>4. CASE Destroy
  <2>1. jobs[id] /\ DestroyUnlink(id)
    BY <1>4, Zenon DEF Destroy, CatIInv, ControlInv
  <2>2. Begin
    BY <1>0, <2>1, Zenon DEF Begin
  <2> QED
    BY <1>0, <2>2, BeginStep
<1> QED
  BY <1>1, <1>2, <1>3, <1>4, Zenon

\* A step of main outside the library leaves the bucket as it is.
LEMMA CatOutside ==
  ASSUME CatIInv, UNCHANGED calls,
         Fetched \/ ReadFails \/ ReadEnd \/ ReadOverrun \/ Write \/ WriteFails
  PROVE  IInv' /\ UNCHANGED bucketLibVars
<1>1. UNCHANGED bucketLibVars
  BY Zenon DEF Fetched, ReadFails, ReadEnd, ReadOverrun, Write, WriteFails
<1> QED
  BY <1>1, SMTT(30) DEF CatIInv, IInv, TypeOK, NoDanglingJob, NeverOverdraws, CallInv, LoadedInv, token,
              bucketLibVars, signalVars, bucketVars, localVars

\* A sequence that counts from 1, continued.
LEMMA CountingOn ==
  ASSUME NEW s \in Seq(Nat), s = [k \in 1 .. Len(s) |-> k],
         NEW m \in Nat, NEW t, t = [j \in 1 .. m |-> Len(s) + j]
  PROVE  s \o t = [k \in 1 .. Len(s \o t) |-> k] /\ Len(s \o t) = Len(s) + m
<1>1. t \in Seq(Nat) /\ Len(t) = m
  OBVIOUS
<1>2. s \o t \in Seq(Nat) /\ Len(s \o t) = Len(s) + m
  BY <1>1
<1>3. \A k \in 1 .. Len(s \o t) : (s \o t)[k] = k
  <2> SUFFICES ASSUME NEW k \in 1 .. Len(s) + m PROVE (s \o t)[k] = k
    BY <1>2, Zenon
  <2>1. (s \o t)[k] = IF k <= Len(s) THEN s[k] ELSE t[k - Len(s)]
    BY <1>1
  <2>2. CASE k <= Len(s)
    BY <2>1, <2>2
  <2>3. CASE k > Len(s)
    BY <2>1, <2>3
  <2> QED
    BY <2>2, <2>3
<1>4. s \o t = [k \in 1 .. Len(s \o t) |-> (s \o t)[k]]
  BY <1>2
<1> QED
  BY <1>2, <1>3, <1>4, Zenon

\* The steps of main that only move on: calls, and answers that change nothing.
LEMMA CatMoves ==
  ASSUME CatIInv, IInv',
         Start \/ Fetch \/ Fetched \/ ReadFails \/ ReadEnd \/ ReadOverrun \/ WriteFails \/ Destroy
  PROVE  CatTypeOK' /\ ControlInv' /\ OrderInv' /\ AccountInv'
<1>0. /\ TypeOK /\ ControlInv /\ OrderInv /\ AccountInv /\ cat \in CatPC
      /\ id \in Slot /\ ret \in Int /\ pos \in Nat /\ sz \in Nat
      /\ held \in [Slot -> Int] /\ made \in [Slot -> Nat] /\ jobs \in [Slot -> BOOLEAN]
  BY CatTypes, Zenon
<1>1. Len(out) \in Nat
  BY CatTypes, Zenon
<1>2. UNCHANGED <<pos, buf, sz, cur, out, short>> /\ cat' \in CatPC
  BY <1>0, Zenon DEF Start, Fetch, Fetched, ReadFails, ReadEnd, ReadOverrun, WriteFails, Destroy, CatPC
<1>3. CatTypeOK'
  <2>1. faults' \in 0 .. MaxFaults
    BY CatAssumption, SMTT(30) DEF CatIInv, CatTypeOK, Start, Fetch, Fetched, ReadFails, ReadEnd,
       ReadOverrun, WriteFails, Destroy
  <2>2. TypeOK'
    BY Zenon DEF IInv
  <2> QED
    BY <1>2, <2>1, <2>2, Zenon DEF CatIInv, CatTypeOK
<1>4. CASE Start
  <2>1. cat' = "fetch" /\ pc' \in Opening \ {"publish"} /\ UNCHANGED <<jobs, held, made, id, ret>>
    BY <1>4, Zenon DEF Start, InitLoad, bucketVars, Opening
  <2>2. cat = "start"
    BY <1>4, Zenon DEF Start
  <2> QED
    BY <1>0, <1>1, <1>2, <1>3, <2>1, <2>2, Zenon
       DEF ControlInv, OrderInv, AccountInv, Opening, Fetching, Returning, Clipping
<1>5. CASE Fetch
  <2>1. \/ cat' = "fetched" /\ pc' = "check" /\ ret >= 0
        \/ cat' = "failed" /\ pc' = pc
    BY <1>5, Zenon DEF Fetch, FetchCall, bucketLibVars, localVars
  <2>2. cat = "fetch" /\ pc = "idle" /\ UNCHANGED <<jobs, held, made, id, ret>>
    BY <1>5, Zenon DEF Fetch, FetchCall, bucketLibVars, bucketVars, localVars
  <2> QED
    BY <1>0, <1>1, <1>2, <1>3, <2>1, <2>2, Zenon
       DEF ControlInv, OrderInv, AccountInv, Opening, Fetching, Returning, Clipping
<1>6. CASE Fetched \/ ReadFails \/ ReadEnd \/ ReadOverrun \/ WriteFails
  <2>1. pc = "idle" /\ UNCHANGED <<pc, jobs, held, made, id, ret>>
    BY <1>6, Zenon DEF Fetched, ReadFails, ReadEnd, ReadOverrun, WriteFails, bucketLibVars, bucketVars, localVars
  <2>2. \/ cat = "fetched" /\ cat' = "fetch"
        \/ cat = "fetched" /\ cat' = "read"
        \/ cat = "read" /\ cat' \in {"fetch", "failed", "undefined"}
        \/ cat = "read" /\ cat' = "destroy" /\ pos = FILE_LEN
        \/ cat = "write" /\ cat' \in {"write", "failed"}
    BY <1>6, Zenon DEF Fetched, ReadFails, ReadEnd, ReadOverrun, WriteFails
  <2>3. ControlInv'
    BY <1>0, <1>2, <2>1, <2>2, Zenon DEF ControlInv, Opening
  <2>4. OrderInv'
    BY <1>0, <1>1, <1>2, <2>2, Zenon DEF OrderInv
  <2>5. AccountInv'
    BY <1>0, <1>1, <1>2, <2>1, <2>2, SMTT(30) DEF AccountInv, Fetching, Clipping
  <2> QED
    BY <1>3, <2>3, <2>4, <2>5
<1>7. CASE Destroy
  <2>1. cat = "destroy" /\ cat' = "done" /\ pc' = "free" /\ UNCHANGED <<held, made, id>>
    BY <1>7, Zenon DEF Destroy, DestroyUnlink
  <2> QED
    BY <1>0, <1>1, <1>2, <1>3, <2>1 DEF ControlInv, OrderInv, AccountInv, Opening
<1> QED
  BY <1>4, <1>5, <1>6, <1>7, Zenon

\* The read of k bytes: the tokens for them are kept, the others go back.
LEMMA CatRead ==
  ASSUME CatIInv, IInv', Read
  PROVE  CatTypeOK' /\ ControlInv' /\ OrderInv' /\ AccountInv'
<1>0. /\ ControlInv /\ OrderInv /\ AccountInv
      /\ id \in Slot /\ ret \in Int /\ pos \in Nat
      /\ held \in [Slot -> Int] /\ made \in [Slot -> Nat]
      /\ buf \in [1 .. BUF_SIZE -> 0 .. FILE_LEN]
  BY CatTypes, Zenon
<1>1. Len(out) \in Nat
  BY CatTypes, Zenon
<1>2. PICK k \in 1 .. BUF_SIZE :
        /\ k <= ret /\ pos + k <= FILE_LEN
        /\ buf' = [j \in 1 .. BUF_SIZE |-> IF j <= k THEN pos + j ELSE buf[j]]
        /\ sz' = k /\ pos' = pos + k
        /\ ReturnLoad(id, ret - k)
  BY Zenon DEF Read
<1>3. cat = "read" /\ cat' = "write" /\ cur' = 0 /\ UNCHANGED <<out, faults, short>>
  BY Zenon DEF Read
<1>4. /\ pc = "idle" /\ pc' = "addStore" /\ n' = ret - k /\ id' = id
      /\ UNCHANGED <<jobs, held, made>>
  BY <1>2, Zenon DEF ReturnLoad, bucketVars
<1>5. CatTypeOK'
  <2>1. buf' \in [1 .. BUF_SIZE -> 0 .. FILE_LEN]
    BY <1>0, <1>2, CatAssumption
  <2>2. TypeOK' /\ cat' \in CatPC
    BY <1>3, Zenon DEF IInv, CatPC
  <2>3. pos' \in 0 .. FILE_LEN /\ sz' \in 0 .. BUF_SIZE /\ cur' \in Nat
    BY <1>0, <1>2, <1>3, CatAssumption
  <2> QED
    BY <1>3, <2>1, <2>2, <2>3, Zenon DEF CatIInv, CatTypeOK
<1>6. ControlInv'
  BY <1>0, <1>3, <1>4 DEF ControlInv, Returning, Opening
<1>7. OrderInv'
  <2>1. ~short => /\ out = [i \in 1 .. Len(out) |-> i]
                  /\ Len(out) = pos
    BY <1>0, <1>3, Zenon DEF OrderInv
  <2>2. \A j \in 1 .. k : buf'[j] = pos + j
    BY <1>2, CatAssumption
  <2> QED
    BY <1>0, <1>1, <1>2, <1>3, <2>1, <2>2, CatAssumption, Zenon DEF OrderInv
<1>8. AccountInv'
  <2>1. ~short => Len(out) <= made[id] /\ Len(out) + ret <= held[id]
    BY <1>0, <1>3, Zenon DEF AccountInv
  <2> QED
    BY <1>0, <1>1, <1>2, <1>3, <1>4, <2>1, CatAssumption DEF AccountInv, Clipping
<1> QED
  BY <1>5, <1>6, <1>7, <1>8, Zenon

\* write() of the first k bytes of what is left in buf: a complete one continues
\* the output, and was paid for.
LEMMA CatWrite ==
  ASSUME CatIInv, IInv', UNCHANGED bucketLibVars, Write
  PROVE  CatTypeOK' /\ ControlInv' /\ OrderInv' /\ AccountInv'
<1>0. /\ ControlInv /\ OrderInv /\ AccountInv
      /\ id \in Slot /\ ret \in Int /\ pos \in Nat /\ sz \in Nat
      /\ held \in [Slot -> Int] /\ made \in [Slot -> Nat]
      /\ buf \in [1 .. BUF_SIZE -> 0 .. FILE_LEN]
      /\ out \in Seq(0 .. FILE_LEN) /\ Len(out) \in Nat
  BY CatTypes, Zenon
<1>1. sz \in 0 .. BUF_SIZE /\ cur \in Nat /\ faults \in 0 .. MaxFaults /\ short \in BOOLEAN
  BY Zenon DEF CatIInv, CatTypeOK
<1> DEFINE t(k) == [j \in 1 .. k |-> IF cur + j <= BUF_SIZE THEN buf[cur + j] ELSE 0]
<1>2. PICK k \in 1 .. sz :
        /\ k < sz => faults < MaxFaults
        /\ faults' = (IF k < sz THEN faults + 1 ELSE faults)
        /\ short' = (short \/ k < sz)
        /\ out' = out \o t(k)
        /\ cur' = cur + k
        /\ cat' = IF cur + k = sz THEN "fetch" ELSE "write"
  BY Zenon DEF Write
<1>3. cat = "write" /\ pc = "idle" /\ UNCHANGED <<pc, jobs, held, made, id, ret, pos, buf, sz>>
  BY Zenon DEF Write, bucketLibVars, bucketVars, localVars
<1>4. t(k) \in Seq(0 .. FILE_LEN) /\ Len(t(k)) = k
  <2>1. \A j \in 1 .. k : t(k)[j] \in 0 .. FILE_LEN
    BY <1>0, <1>1, <1>2, CatAssumption
  <2> QED
    BY <1>0, <1>2, <2>1
<1>5. out' \in Seq(0 .. FILE_LEN) /\ Len(out') = Len(out) + k
  BY <1>0, <1>2, <1>4
<1>6. CatTypeOK'
  <2>1. faults' \in 0 .. MaxFaults
    BY <1>1, <1>2, CatAssumption
  <2>2. short' \in BOOLEAN
    BY <1>1, <1>2, Zenon
  <2>3. cat' \in CatPC /\ cur' \in Nat
    BY <1>0, <1>1, <1>2 DEF CatPC
  <2>4. TypeOK'
    BY Zenon DEF IInv
  <2>5. pos \in 0 .. FILE_LEN
    BY Zenon DEF CatIInv, CatTypeOK
  <2> QED
    BY <1>0, <1>1, <1>3, <1>5, <2>1, <2>2, <2>3, <2>4, <2>5, Zenon DEF CatTypeOK
<1>7. ControlInv'
  BY <1>0, <1>2, <1>3, Zenon DEF ControlInv, Returning, Opening
<1>8. CASE ~short'
  <2>1. ~short /\ k = sz
    <3>1. ~short /\ ~(k < sz)
      BY <1>2, <1>8, Zenon
    <3> QED
      BY <1>0, <3>1
  <2>2. /\ out = [i \in 1 .. Len(out) |-> i]
        /\ cur = 0 /\ Len(out) + sz = pos
        /\ \A j \in 1 .. sz : buf[j] = Len(out) + j
    BY <1>0, <1>3, <2>1, Zenon DEF OrderInv
  <2>3. cat' = "fetch"
    BY <1>2, <2>1, <2>2
  <2>4. t(k) = [j \in 1 .. k |-> Len(out) + j]
    <3>1. \A j \in 1 .. k : cur + j <= BUF_SIZE /\ cur + j = j
      BY <1>0, <1>1, <2>1, <2>2, CatAssumption
    <3>2. \A j \in 1 .. k : (IF cur + j <= BUF_SIZE THEN buf[cur + j] ELSE 0) = Len(out) + j
      BY <2>1, <2>2, <3>1, Zenon
    <3> QED
      BY <3>2, Zenon
  <2>5. out' = [i \in 1 .. Len(out') |-> i] /\ Len(out') = pos
    <3>1. out \in Seq(Nat)
      BY <1>0, <2>2
    <3>2. k \in Nat
      BY <1>0, <2>1, Zenon
    <3>3. out' = out \o t(k)
      BY <1>2, Zenon
    <3> QED
      BY <1>5, <2>1, <2>2, <2>4, <3>1, <3>2, <3>3, CountingOn
  <2>6. OrderInv'
    BY <1>3, <2>3, <2>5, Zenon DEF OrderInv
  <2>7. Len(out) + sz <= held[id]
    BY <1>0, <1>3, <2>1, Zenon DEF AccountInv
  <2>8. held[id] <= made[id]
    <3>1. live[id] /\ bucket[id].token \in Int
      BY <1>0, <1>3, Zenon DEF CatIInv, ControlInv, IInv, TypeOK, NoDanglingJob, Bucket
    <3>2. bucket[id].token >= 0 /\ bucket[id].token + held[id] <= made[id]
      BY <1>0, <3>1, Zenon DEF CatIInv, IInv, NeverOverdraws
    <3> QED
      BY <1>0, <3>1, <3>2, SMTT(30)
  <2>9. AccountInv'
    BY <1>0, <1>3, <1>5, <2>1, <2>3, <2>7, <2>8, SMTT(30) DEF AccountInv
  <2> QED
    BY <1>6, <1>7, <2>6, <2>9, Zenon
<1>9. CASE short'
  BY <1>6, <1>7, <1>9, Zenon DEF OrderInv, AccountInv
<1> QED
  BY <1>8, <1>9, Zenon

\* Every step of slow_cat keeps the invariant.
LEMMA CatStepInv == CatIInv /\ [CatNext]_allVars => CatIInv'
<1> SUFFICES ASSUME CatIInv, [CatNext]_allVars PROVE CatIInv'
  OBVIOUS
<1>0. IInv
  BY Zenon DEF CatIInv
<1>1. CASE Program /\ LibStep /\ UNCHANGED catVars
  <2>1. IInv'
    BY <1>0, <1>1, LocalStep, StoreStep, InitDestroyStep, Zenon DEF Program, LibStep
  <2>2. CatTypeOK' /\ OrderInv'
    BY <1>1, <2>1, BucketOrder, Zenon DEF IInv
  <2> QED
    BY <1>1, <2>1, <2>2, CatLibStep, Zenon DEF CatIInv
<1>2. CASE Tick \/ ForeignTick
  <2>1. IInv'
    BY <1>0, <1>2, SignalStep, Zenon DEF Tick, ForeignTick
  <2>2. (Alarm \/ ForeignAlarm) /\ UNCHANGED catVars
    BY <1>2, Zenon DEF Tick, ForeignTick
  <2>3. CatTypeOK' /\ OrderInv'
    BY <2>1, <2>2, BucketOrder, Zenon DEF IInv
  <2> QED
    BY <2>1, <2>2, <2>3, CatSignalStep, Zenon DEF CatIInv
<1>3. CASE OtherCall
  <2>1. IInv'
    BY <1>0, <1>3, CallStep, Zenon DEF OtherCall
  <2>2. CatTypeOK' /\ OrderInv'
    BY <1>3, <2>1, BucketOrder, Zenon DEF IInv, OtherCall
  <2> QED
    BY <1>3, <2>1, <2>2, CatOtherStep, Zenon DEF CatIInv
<1>4. CASE Program /\ CatStep
  <2>0. UNCHANGED calls
    BY <1>4, Zenon DEF Program
  <2>1. CASE Start \/ Fetch \/ Destroy
    <3>1. IInv'
      BY <2>0, <2>1, CatBegin, Zenon
    <3> QED
      BY <2>1, <3>1, CatMoves, Zenon DEF CatIInv
  <2>2. CASE Read
    <3>1. IInv'
      BY <2>0, <2>2, CatBegin, Zenon
    <3> QED
      BY <2>2, <3>1, CatRead, Zenon DEF CatIInv
  <2>3. CASE Fetched \/ ReadFails \/ ReadEnd \/ ReadOverrun \/ WriteFails
    <3>1. IInv'
      BY <2>0, <2>3, CatOutside, Zenon
    <3> QED
      BY <2>3, <3>1, CatMoves, Zenon DEF CatIInv
  <2>4. CASE Write
    <3>1. IInv' /\ UNCHANGED bucketLibVars
      BY <2>0, <2>4, CatOutside, Zenon
    <3> QED
      BY <2>4, <3>1, CatWrite, Zenon DEF CatIInv
  <2> QED
    BY <1>4, <2>1, <2>2, <2>3, <2>4, Zenon DEF CatStep
<1>5. CASE UNCHANGED allVars
  <2>1. IInv'
    BY <1>0, <1>5, StepInv, Zenon DEF allVars
  <2>2. CatTypeOK' /\ OrderInv'
    BY <1>5, <2>1, BucketOrder DEF IInv, allVars
  <2>3. ControlInv' /\ AccountInv'
    BY <1>5, Zenon DEF CatIInv, ControlInv, AccountInv, allVars, vars, bucketLibVars, bucketVars, localVars, catVars
  <2> QED
    BY <2>1, <2>2, <2>3, Zenon DEF CatIInv
<1> QED
  BY <1>1, <1>2, <1>3, <1>4, <1>5, Zenon DEF CatNext, Program

\* The inductive invariant holds in every reachable state of slow_cat.
THEOREM CatInvariance == CatSpec => []CatIInv
<1>1. CatInit => CatIInv
  BY CatInitInv
<1>2. CatIInv /\ [CatNext]_allVars => CatIInv'
  BY CatStepInv
<1> QED
  BY <1>1, <1>2, PTL DEF CatSpec

\* What slow_cat has written is a prefix of the file, and all of it at the end,
\* unless a write was short.
THEOREM PrintsFileHolds == CatSpec => []PrintsFile
<1>1. CatIInv => PrintsFile
  BY Zenon DEF CatIInv, OrderInv, PrintsFile
<1> QED
  BY <1>1, CatInvariance, PTL

\* slow_cat writes no byte without a token that a tick of its alarm made, unless a
\* write was short or another process sent SIGALRM.
THEOREM RateLimitedHolds == CatSpec => []RateLimited
<1>1. CatIInv => RateLimited
  BY Zenon DEF CatIInv, AccountInv, RateLimited
<1> QED
  BY <1>1, CatInvariance, PTL

\* Under slow_cat, as under any other program, the handler follows no dangling
\* pointer and no bucket is overdrawn.
THEOREM CatKeepsBuckets == CatSpec => [](NoDanglingJob /\ NeverOverdraws)
<1>1. CatIInv => NoDanglingJob /\ NeverOverdraws
  BY Zenon DEF CatIInv, IInv
<1> QED
  BY <1>1, CatInvariance, PTL

\* The fetch of slow_cat returns with at least one token.
THEOREM CatFetchGivesTokens == CatSpec => FetchGivesTokens
<1>1. CatIInv /\ [CatNext]_allVars
        => [pc = "subStore" /\ pc' = "idle" => held'[id] > held[id]]_vars
  <2> SUFFICES ASSUME CatIInv, [CatNext]_allVars, pc = "subStore", pc' = "idle"
               PROVE held'[id] > held[id]
    OBVIOUS
  <2>1. CatNext
    BY Zenon DEF allVars, vars, bucketLibVars, localVars
  <2>2. ~(Call \/ CatStep \/ Alarm \/ ForeignAlarm)
    BY Zenon DEF Call, InitLoad, FetchCall, ReturnLoad, DestroyUnlink, Alarm, ForeignAlarm, handle,
           terminate, CatStep, Start, Fetch, Fetched, ReadFails, ReadEnd, Read, ReadOverrun,
           Write, WriteFails, Destroy
  <2>3. LibStep
    BY <2>1, <2>2, Zenon DEF CatNext, Program, Tick, ForeignTick, OtherCall
  <2>4. FetchStore
    BY <2>3, Zenon DEF LibStep, InitSignal, InitFails, InitFields, InitPublish, DestroyFree,
           FetchCheck, FetchPause, FetchCompare, FetchPick, FetchLoad, ReturnStore, ClipCompare,
           ClipPick, ClipStore
  <2> QED
    BY <2>4 DEF FetchStore, CatIInv, IInv, TypeOK, LoadedInv
<1> QED
  BY <1>1, CatInvariance, PTL DEF CatSpec, FetchGivesTokens
=============================================================================
