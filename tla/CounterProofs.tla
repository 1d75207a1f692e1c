--------------------------- MODULE CounterProofs ----------------------------
(***************************************************************************)
(* Proofs about counters that are loaded and stored in two steps: count++  *)
(* of several workers, and token-- with a handler that counts up.          *)
(*                                                                         *)
(* LockedCounter, for every finite number of workers: they exclude each    *)
(* other, and no update is lost unless flock.c damages the number.         *)
(*                                                                         *)
(* FlowCat, for any file, rate and stock of tokens: both cats print in     *)
(* order and at most what the alarms have paid for.                        *)
(***************************************************************************)
EXTENDS FlowCat, LockedCounter, FiniteSetTheorems, TLAPS

-----------------------------------------------------------------------------
(* LockedCounter *)

\* A worker inside holds the lock, and only flock.c damages the number.
LockInv ==
  /\ \A w \in Workers :
       /\ Inside(w) => lock = 0
       /\ step[w] = "close" => program = "flock"
  /\ program # "flock" => intact

\* Who has added has stored, and, without a failing call, the other way round.
AddedInv ==
  \A w \in Workers :
    /\ w \in added => step[w] \in {"unlock", "close", "done", "failed"}
    /\ failures = 0 /\ step[w] \in {"unlock", "close", "done"} => w \in added

\* While the number is intact, what a worker inside has loaded is still the
\* count, and the count is ahead of its start by the workers that have added.
CountInv ==
  /\ start \in Nat
  /\ intact => \A w \in Workers : step[w] = "store" => reg[w] = count
  /\ intact => count = start + Cardinality(added)

EndInv ==
  \A w \in Workers :
    /\ failures = 0 => step[w] \notin {"missing", "failed"}
    /\ main = "done" => step[w] \in {"done", "failed"}

LockedIInv == LockedTypeOK /\ Exclusive /\ LockInv /\ AddedInv /\ CountInv /\ EndInv

\* Before anybody has run, the invariant holds.
LEMMA LockedInitIInv == LockedInit => LockedIInv
<1> SUFFICES ASSUME LockedInit PROVE LockedIInv
  OBVIOUS
<1>1. LockedTypeOK /\ start \in Nat
  BY CounterAssumption DEF LockedInit, LockedTypeOK
<1>2. Exclusive /\ LockInv /\ AddedInv /\ EndInv
  BY DEF LockedInit, Exclusive, LockInv, AddedInv, EndInv, Inside
<1>3. Cardinality(added) = 0
  BY FS_EmptySet DEF LockedInit
<1>4. CountInv
  BY <1>1, <1>3 DEF LockedInit, CountInv
<1> QED
  BY <1>1, <1>2, <1>4, Zenon DEF LockedIInv

\* A step that leaves the count and those who have added alone, and lets no
\* worker load anything but the count, leaves the tally alone.
LEMMA TallySame ==
  ASSUME UNCHANGED <<start, count, added>>, CountInv, intact' => intact,
         intact' => \A w \in Workers : step'[w] = "store" => reg'[w] = count
  PROVE  CountInv'
<1>1. Cardinality(added') = Cardinality(added)
  OBVIOUS
<1> QED
  BY <1>1 DEF CountInv

\* Every step of main and of a worker preserves the invariant.
LEMMA LockedStepIInv == LockedIInv /\ [LockedNext]_lockedVars => LockedIInv'
<1> SUFFICES ASSUME LockedIInv, [LockedNext]_lockedVars PROVE LockedIInv'
  OBVIOUS
<1> USE DEF LockedIInv
<1>1. ASSUME NEW w \in Workers, Spawn(w) PROVE LockedIInv'
  <2>1. LockedTypeOK'
    BY <1>1, Zenon DEF LockedTypeOK, Spawn, Goto
  <2>2. Exclusive' /\ LockInv' /\ AddedInv' /\ EndInv'
    BY <1>1 DEF LockedTypeOK, Spawn, Goto, Exclusive, LockInv, AddedInv, EndInv, Inside
  <2>3. CountInv'
    BY <1>1, TallySame DEF LockedTypeOK, Spawn, Goto, CountInv
  <2> QED
    BY <2>1, <2>2, <2>3, Zenon
<1>2. ASSUME NEW w \in Workers, SpawnFails(w) PROVE LockedIInv'
  <2>1. LockedTypeOK'
    BY <1>2, CounterAssumption DEF LockedTypeOK, SpawnFails, Goto, SomeFailure
  <2>2. Exclusive' /\ LockInv'
    BY <1>2, Zenon DEF LockedTypeOK, SpawnFails, Goto, Exclusive, LockInv, Inside
  <2>3. AddedInv' /\ EndInv'
    BY <1>2, CounterAssumption DEF LockedTypeOK, SpawnFails, Goto, SomeFailure, AddedInv, EndInv
  <2>4. CountInv'
    BY <1>2, TallySame DEF LockedTypeOK, SpawnFails, Goto, CountInv
  <2> QED
    BY <2>1, <2>2, <2>3, <2>4, Zenon
<1>3. ASSUME SpawnEnd \/ Join PROVE LockedIInv'
  <2>1. LockedTypeOK'
    BY <1>3 DEF LockedTypeOK, SpawnEnd, Join
  <2>2. Exclusive' /\ LockInv' /\ AddedInv'
    BY <1>3, Zenon DEF SpawnEnd, Join, Exclusive, LockInv, AddedInv, Inside
  <2>3. EndInv'
    BY <1>3 DEF LockedTypeOK, SpawnEnd, Join, EndInv, Created
  <2>4. CountInv'
    <3>1. UNCHANGED <<start, count, added, intact, reg, step>>
      BY <1>3, Zenon DEF SpawnEnd, Join
    <3> QED
      BY <3>1, TallySame DEF CountInv
  <2> QED
    BY <2>1, <2>2, <2>3, <2>4, Zenon
<1>4. ASSUME NEW w \in Workers, Acquire(w) PROVE LockedIInv'
  <2>1. LockedTypeOK'
    BY <1>4 DEF LockedTypeOK, Acquire, Goto
  <2>2. Exclusive' /\ LockInv' /\ AddedInv' /\ EndInv'
    BY <1>4 DEF LockedTypeOK, Acquire, Goto, Exclusive, LockInv, AddedInv, EndInv, Inside
  <2>3. CountInv'
    BY <1>4, TallySame, Zenon DEF LockedTypeOK, Acquire, Goto, CountInv
  <2> QED
    BY <2>1, <2>2, <2>3
<1>5. ASSUME NEW w \in Workers, Load(w) PROVE LockedIInv'
  <2>1. PICK n \in {count} \cup {10 * count + d : d \in IF program = "flock" THEN StrayDigits ELSE {}} :
          /\ reg' = [reg EXCEPT ![w] = n]
          /\ intact' = (intact /\ n = count)
    BY <1>5, Zenon DEF Load
  <2>2. n \in Nat /\ (program # "flock" => n = count)
    BY <2>1, CounterAssumption DEF LockedTypeOK
  <2>3. LockedTypeOK'
    BY <1>5, <2>1, <2>2, Zenon DEF LockedTypeOK, Load, Goto
  <2>4. Exclusive' /\ LockInv' /\ AddedInv' /\ EndInv'
    BY <1>5, <2>1, <2>2, Zenon DEF LockedTypeOK, Load, Goto, Exclusive, LockInv, AddedInv, EndInv, Inside
  <2>5. intact' => \A v \in Workers : step'[v] = "store" => reg'[v] = count
    BY <1>5, <2>1, Zenon DEF LockedTypeOK, Load, Goto, CountInv
  <2>6. UNCHANGED <<start, count, added>> /\ (intact' => intact)
    BY <1>5, <2>1, Zenon DEF Load
  <2>7. CountInv'
    BY <2>5, <2>6, TallySame, Zenon
  <2> QED
    BY <2>3, <2>4, <2>7, Zenon
<1>6. ASSUME NEW w \in Workers, Store(w) PROVE LockedIInv'
  <2>1. LockedTypeOK'
    BY <1>6 DEF LockedTypeOK, Store, Goto
  <2>2. Exclusive' /\ LockInv' /\ AddedInv' /\ EndInv'
    BY <1>6, Zenon DEF LockedTypeOK, Store, Goto, Exclusive, LockInv, AddedInv, EndInv, Inside
  <2>3. added' = added \cup {w} /\ w \notin added
    BY <1>6 DEF Store, AddedInv
  <2>4. IsFiniteSet(added)
    BY CounterAssumption, FS_Subset, Zenon DEF LockedTypeOK
  <2>5. Cardinality(added') = Cardinality(added) + 1
    BY <2>3, <2>4, FS_AddElement, Zenon
  <2>6. Cardinality(added) \in Nat
    BY <2>4, FS_CardinalityType, Zenon
  <2>7. \A v \in Workers : step'[v] # "store"
    BY <1>6, Zenon DEF LockedTypeOK, Store, Goto, Exclusive, Inside
  <2>8. intact => count' = count + 1
    BY <1>6 DEF Store, CountInv
  <2>9. start' = start /\ intact' = intact
    BY <1>6, Zenon DEF Store
  <2>10. CountInv'
    BY <2>5, <2>6, <2>7, <2>8, <2>9 DEF CountInv
  <2> QED
    BY <2>1, <2>2, <2>10
<1>7. ASSUME NEW w \in Workers, StoreCut(w) PROVE LockedIInv'
  <2>1. count' \in Nat
    BY <1>7, Zenon DEF StoreCut, CutWrites
  <2>2. failures \in Nat /\ failures' = failures + 1 /\ failures' \in 0 .. MaxFailures
    BY <1>7, CounterAssumption DEF StoreCut, SomeFailure, LockedTypeOK
  <2>3. failures' # 0
    BY <2>2
  <2>4. LockedTypeOK'
    BY <1>7, <2>1, <2>2, Zenon DEF LockedTypeOK, StoreCut, Goto
  <2>5. Exclusive' /\ LockInv' /\ AddedInv' /\ EndInv'
    BY <1>7, <2>3, Zenon DEF LockedTypeOK, StoreCut, Goto, Exclusive, LockInv, AddedInv, EndInv, Inside
  <2>6. \A v \in Workers : step'[v] # "store"
    BY <1>7, Zenon DEF LockedTypeOK, StoreCut, Goto, Exclusive, Inside
  <2>7. ASSUME count' = count PROVE CountInv'
    <3>1. UNCHANGED <<start, count, added>> /\ (intact' => intact)
      BY <1>7, <2>7, Zenon DEF StoreCut
    <3> QED
      BY <2>6, <3>1, TallySame, Zenon
  <2>8. ASSUME count' # count PROVE CountInv'
    <3>1. ~intact' /\ start' = start
      BY <1>7, <2>8, Zenon DEF StoreCut
    <3>2. start' \in Nat
      BY <3>1, Zenon DEF CountInv
    <3> QED
      BY <3>1, <3>2, Zenon DEF CountInv
  <2> QED
    BY <2>4, <2>5, <2>7, <2>8, Zenon
<1>8. ASSUME NEW w \in Workers, Release(w) \/ CloseFile(w) PROVE LockedIInv'
  <2>1. LockedTypeOK'
    BY <1>8 DEF LockedTypeOK, Release, CloseFile, Goto, LockInv, Inside
  <2>2. Exclusive' /\ LockInv'
    BY <1>8 DEF LockedTypeOK, Release, CloseFile, Goto, Exclusive, LockInv, Inside
  <2>3. AddedInv' /\ EndInv'
    BY <1>8, Zenon DEF LockedTypeOK, Release, CloseFile, Goto, AddedInv, EndInv
  <2>4. CountInv'
    <3>1. UNCHANGED <<start, count, added, intact, reg>>
      BY <1>8, Zenon DEF Release, CloseFile
    <3>2. \A v \in Workers : step'[v] = "store" => step[v] = "store"
      BY <1>8, Zenon DEF LockedTypeOK, Release, CloseFile, Goto
    <3> QED
      BY <3>1, <3>2, TallySame DEF CountInv
  <2> QED
    BY <2>1, <2>2, <2>3, <2>4, Zenon
<1>9. ASSUME NEW w \in Workers, WorkerFails(w) PROVE LockedIInv'
  <2>0. step[w] \in {"lock", "load", "unlock"}
    BY <1>9, CounterAssumption DEF WorkerFails, Fallible, LockedTypeOK
  <2>1. LockedTypeOK'
    BY <1>9, <2>0, CounterAssumption DEF LockedTypeOK, WorkerFails, SomeFailure, Goto, LockInv, Inside
  <2>2. Exclusive' /\ LockInv'
    BY <1>9, <2>0 DEF LockedTypeOK, WorkerFails, Goto, Exclusive, LockInv, Inside
  <2>3. AddedInv' /\ EndInv'
    BY <1>9, <2>0, CounterAssumption DEF LockedTypeOK, WorkerFails, SomeFailure, Goto, AddedInv, EndInv
  <2>4. CountInv'
    BY <1>9, TallySame, Zenon DEF LockedTypeOK, WorkerFails, Goto, CountInv
  <2> QED
    BY <2>1, <2>2, <2>3, <2>4, Zenon
<1>10. ASSUME UNCHANGED lockedVars PROVE LockedIInv'
  <2>1. LockedTypeOK' /\ Exclusive' /\ LockInv' /\ AddedInv' /\ EndInv'
    BY <1>10, Zenon DEF lockedVars, LockedTypeOK, Exclusive, LockInv, AddedInv, EndInv, Inside
  <2>2. CountInv'
    BY <1>10, TallySame, Zenon DEF lockedVars, CountInv
  <2> QED
    BY <2>1, <2>2, Zenon
<1>11. ASSUME SetupFails PROVE LockedIInv'
  <2>1. LockedTypeOK' /\ Exclusive' /\ LockInv' /\ AddedInv' /\ EndInv'
    BY <1>11, CounterAssumption
    DEF SetupFails, SomeFailure, LockedTypeOK, Exclusive, LockInv, AddedInv, EndInv, Inside
  <2>2. CountInv'
    BY <1>11, TallySame, Zenon DEF SetupFails, CountInv
  <2> QED
    BY <2>1, <2>2, Zenon
<1> QED
  BY <1>1, <1>2, <1>3, <1>4, <1>5, <1>6, <1>7, <1>8, <1>9, <1>10, <1>11, Zenon
  DEF LockedNext, MainStep, Worker, Proceed

\* The invariant holds in every state of the three programs.
THEOREM LockedInvariance == LockedSpec => []LockedIInv
  BY LockedInitIInv, LockedStepIInv, PTL DEF LockedSpec

\* Every variable of the three programs keeps its type; in particular the
\* semaphore is never above 1.
THEOREM LockedTypeCorrect == LockedSpec => []LockedTypeOK
<1>1. LockedIInv => LockedTypeOK
  BY DEF LockedIInv
<1> QED
  BY <1>1, LockedInvariance, PTL

\* At most one worker is between its lock and its unlock, also when calls fail.
THEOREM ExclusiveHolds == LockedSpec => []Exclusive
<1>1. LockedIInv => Exclusive
  BY DEF LockedIInv
<1> QED
  BY <1>1, LockedInvariance, PTL

\* A program that ends has counted exactly the workers that have stored, and all
\* of them if no call failed; only flock.c can have damaged the number.
THEOREM CountsAllHolds == LockedSpec => []CountsAll
<1>1. LockedIInv => CountsAll
  <2> SUFFICES ASSUME LockedIInv, main = "done", program # "flock" \/ intact
               PROVE  /\ count = start + Cardinality(added)
                      /\ failures = 0 => added = Workers
    BY DEF CountsAll
  <2>1. intact
    BY DEF LockedIInv, LockInv
  <2>2. failures = 0 => added = Workers
    BY DEF LockedIInv, LockedTypeOK, AddedInv, EndInv
  <2> QED
    BY <2>1, <2>2 DEF LockedIInv, CountInv
<1> QED
  BY <1>1, LockedInvariance, PTL

\* The load and the store of every worker implement one atomic addition, and a
\* failing call of one worker takes nothing from the others; in flock.c until
\* the number is misread or written in part.
THEOREM Refinement == LockedSpec => ImplementsCounter
<1>1. LockedInit => Counter!CounterInit
  BY CounterAssumption DEF LockedInit, Counter!CounterInit
<1>2. LockedIInv /\ [LockedNext]_lockedVars
        => [Counter!CounterNext]_<<program, count, added, intact>>
  <2> SUFFICES ASSUME LockedIInv, [LockedNext]_lockedVars
               PROVE  [Counter!CounterNext]_<<program, count, added, intact>>
    OBVIOUS
  <2>1. ASSUME NEW w \in Workers, Store(w), intact PROVE Counter!CounterNext
    <3>1. added' = added \cup {w} /\ w \notin added /\ UNCHANGED <<program, intact>>
      BY <2>1 DEF LockedIInv, Store, AddedInv
    <3>2. count' = count + 1
      BY <2>1, Zenon DEF Store, LockedIInv, CountInv
    <3> QED
      BY <3>1, <3>2, Zenon DEF Counter!CounterNext, Counter!Increment
  <2>2. ASSUME NEW w \in Workers, Load(w), intact
        PROVE  UNCHANGED <<program, count, added, intact>> \/ Counter!CounterNext
    <3>1. UNCHANGED <<program, count, added>>
      BY <2>2, Zenon DEF Load
    <3>2. PICK n \in {count} \cup {10 * count + d : d \in IF program = "flock" THEN StrayDigits ELSE {}} :
            intact' = (intact /\ n = count)
      BY <2>2, Zenon DEF Load
    <3>3. n = count => intact' = intact
      BY <2>2, <3>2, Zenon DEF LockedIInv, LockedTypeOK
    <3>4. n # count => program = "flock" /\ ~intact'
      BY <3>2, Zenon
    <3> QED
      BY <3>1, <3>3, <3>4, Zenon DEF Counter!CounterNext, Counter!Damaged
  <2>3. ASSUME NEW w \in Workers, StoreCut(w), intact
        PROVE  UNCHANGED <<program, count, added, intact>> \/ Counter!CounterNext
    <3>1. UNCHANGED <<program, added>> /\ program = "flock" /\ intact' = (intact /\ count' = count)
      BY <2>3, Zenon DEF StoreCut
    <3>2. count' = count => intact' = intact
      BY <2>3, <3>1, Zenon DEF LockedIInv, LockedTypeOK
    <3>3. count' # count => ~intact'
      BY <3>1, Zenon
    <3> QED
      BY <3>1, <3>2, <3>3, Zenon DEF Counter!CounterNext, Counter!Damaged
  <2>4. ASSUME NEW w \in Workers,
               \/ Spawn(w) \/ SpawnFails(w) \/ Acquire(w)
               \/ Release(w) \/ CloseFile(w) \/ WorkerFails(w)
        PROVE  UNCHANGED <<program, count, added, intact>>
    BY <2>4, Zenon DEF Spawn, SpawnFails, Acquire, Release, CloseFile, WorkerFails
  <2>5. ASSUME SetupFails \/ SpawnEnd \/ Join \/ UNCHANGED lockedVars
        PROVE  UNCHANGED <<program, count, added, intact>>
    BY <2>5, Zenon DEF SetupFails, SpawnEnd, Join, lockedVars
  <2>6. ASSUME NEW w \in Workers, Store(w) \/ Load(w) \/ StoreCut(w), ~intact PROVE Counter!CounterNext
    <3>1. program = "flock" /\ program' = program
      BY <2>6, Zenon DEF Store, Load, StoreCut, LockedIInv, LockInv
    <3>2. ~intact'
      BY <2>6, Zenon DEF Store, Load, StoreCut
    <3> QED
      BY <3>1, <3>2, Zenon DEF Counter!CounterNext, Counter!Damaged
  <2> QED
    BY <2>1, <2>2, <2>3, <2>4, <2>5, <2>6, Zenon DEF LockedNext, MainStep, Worker, Proceed
<1> QED
  BY <1>1, <1>2, LockedInvariance, PTL DEF LockedSpec, ImplementsCounter, Counter!CounterSpec

-----------------------------------------------------------------------------
(* FlowCat *)

\* cat.c does everything but the waiting in its handler.
FlowControlInv == variant = "cat" => pc \in {"open", "toPause", "paused", "rearm", "failed"}

\* What token.c has printed, and then what is in its buffer, is the beginning of
\* the file; at the end it is all of it.
FlowOrderInv ==
  variant = "token" =>
    /\ \A k \in 1 .. Len(out) : out[k] = k
    /\ pc \in {"load", "store", "write"} =>
         /\ Len(out) + sz = pos
         /\ \A k \in 1 .. sz : buf[cur + k] = Len(out) + k
    /\ pc \in {"load", "store"} /\ sz = 0 => pos = FILE_LEN
    /\ pc \notin {"load", "store", "write", "failed"} => Len(out) = pos
    /\ pc = "done" => pos = FILE_LEN

\* What cat.c has printed was read, in its order.
FlowCatInv ==
  /\ \A k, l \in 1 .. Len(out) : k < l => out[k] < out[l]
  /\ \A k \in 1 .. Len(out) : out[k] <= pos
  /\ Len(out) <= pos

\* token-- finds a token, also when alarms come between its load and its store.
FlowTokenInv ==
  /\ pc \in {"read", "load"} => token >= 1
  /\ pc = "store" => tmp >= 1 /\ tmp <= token

\* The alarms that pay for what was read: in token.c those whose token was taken,
\* where the token of a read is taken after it.
Paid ==
  IF variant = "cat" THEN made
  ELSE IF pc = "load" THEN made - token + 1
  ELSE IF pc = "store" THEN made - tmp + 1
  ELSE made - token

FlowAccountInv == pos <= CPS * Paid

FlowIInv ==
  TypeOK /\ FlowControlInv /\ FlowOrderInv /\ FlowCatInv /\ FlowTokenInv /\ FlowAccountInv

\* The initial states of both cats satisfy the invariant.
LEMMA FlowInitInv == Init => FlowIInv
<1> SUFFICES ASSUME Init PROVE FlowIInv
  OBVIOUS
<1>1. out = <<>> /\ Len(out) = 0 /\ pos = 0 /\ token = 0 /\ made = 0 /\ pc = "open"
  BY DEF Init
<1>2. TypeOK
  <2>1. timer \in BOOLEAN
    BY Zenon DEF Init
  <2> QED
    BY <2>1, FlowAssumption DEF Init, TypeOK, PC
<1>3. FlowControlInv /\ FlowOrderInv /\ FlowCatInv /\ FlowTokenInv
  BY <1>1 DEF FlowControlInv, FlowOrderInv, FlowCatInv, FlowTokenInv
<1>4. FlowAccountInv
  BY <1>1, FlowAssumption DEF FlowAccountInv, Paid
<1> QED
  BY <1>2, <1>3, <1>4, Zenon DEF FlowIInv

\* What the invariant says of each variable.
LEMMA FlowTypes ==
  ASSUME FlowIInv
  PROVE  /\ TypeOK /\ FlowControlInv /\ FlowOrderInv /\ FlowCatInv /\ FlowTokenInv
         /\ FlowAccountInv
         /\ variant \in {"token", "cat"} /\ pc \in PC
         /\ token \in Nat /\ tmp \in Nat /\ pos \in Nat /\ cur \in Nat /\ sz \in Nat
         /\ made \in Nat /\ Paid \in Int /\ CPS \in Nat /\ FILE_LEN \in Nat
         /\ out \in Seq(1 .. FILE_LEN) /\ Len(out) \in Nat
         /\ buf \in [1 .. CPS -> 0 .. FILE_LEN]
BY FlowAssumption DEF FlowIInv, TypeOK, Paid

\* The bytes that a number of alarms pays for.
LEMMA Scale ==
  ASSUME NEW c \in Nat, NEW a \in Int, NEW b \in Int, a <= b
  PROVE  c * a \in Int /\ c * b \in Int /\ c * a <= c * b /\ c * (a + 1) = c * a + c
OBVIOUS

\* main goes on without reading or writing.
LEMMA FlowMoves ==
  ASSUME FlowIInv,
         \/ Open \/ OpenFails \/ Pause \/ Rearm
         \/ Check \/ ReadFails \/ WriteFails
  PROVE  FlowIInv'
<1> USE DEF Open, OpenFails, Pause, Rearm, Check, ReadFails,
        WriteFails, SomeFault, catUnchanged, bufVars
<1>0. /\ TypeOK /\ FlowControlInv /\ FlowOrderInv /\ FlowCatInv /\ FlowTokenInv
      /\ FlowAccountInv /\ variant \in {"token", "cat"} /\ token \in Nat /\ pc \in PC
  BY FlowTypes, Zenon
<1>1. UNCHANGED <<variant, token, tmp, pos, buf, cur, sz, out, made>>
  OBVIOUS
<1>2. \/ pc = "open" /\ pc' = "check" /\ variant = "token"
      \/ pc = "open" /\ pc' = "toPause" /\ variant # "token"
      \/ pc \in {"open", "read", "write"} /\ pc' = "failed"
      \/ pc = "toPause" /\ pc' = "paused"
      \/ pc = "rearm" /\ pc' = "toPause"
      \/ pc = "check" /\ pc' = "toPause"
      \/ pc = "check" /\ pc' = "read" /\ token >= 1
      \/ pc = "read" /\ pc' = "check"
      \/ pc = "write" /\ pc' = "write"
  BY <1>0, SMTT(30)
<1>3. TypeOK'
  <2>1. timer' \in BOOLEAN
    BY <1>0, ZenonT(40) DEF TypeOK
  <2>2. faults' \in 0 .. MaxFaults
    BY <1>0, SMTT(30), FlowAssumption DEF TypeOK
  <2>3. pc' \in PC
    BY <1>2, Zenon DEF PC
  <2> QED
    BY <1>0, <1>1, <2>1, <2>2, <2>3, Zenon DEF TypeOK
<1> HIDE DEF Open, OpenFails, Pause, Rearm, Check, ReadFails,
        WriteFails, SomeFault, catUnchanged
<1>4. FlowControlInv' /\ FlowTokenInv'
  BY <1>0, <1>1, <1>2, Zenon DEF FlowControlInv, FlowTokenInv
<1>5. FlowOrderInv'
  BY <1>0, <1>1, <1>2, Zenon DEF FlowOrderInv
<1>6. FlowCatInv'
  BY <1>0, <1>1, Zenon DEF FlowCatInv
<1>7. FlowAccountInv'
  BY <1>0, <1>1, <1>2, Zenon DEF FlowAccountInv, Paid
<1> QED
  BY <1>3, <1>4, <1>5, <1>6, <1>7, Zenon DEF FlowIInv

\* read() of token.c: the bytes go into buf, and a token is there to pay for them.
LEMMA FlowRead == ASSUME FlowIInv, Read PROVE FlowIInv'
<1>0. /\ TypeOK /\ FlowControlInv /\ FlowOrderInv /\ FlowCatInv /\ FlowTokenInv
      /\ FlowAccountInv
      /\ variant \in {"token", "cat"} /\ token \in Nat /\ pos \in Nat /\ made \in Nat
      /\ CPS \in Nat /\ FILE_LEN \in Nat /\ Len(out) \in Nat
      /\ buf \in [1 .. CPS -> 0 .. FILE_LEN]
  BY FlowTypes, Zenon
<1>1. PICK k \in Sizes : /\ buf' = [q \in 1 .. CPS |-> IF q <= k THEN pos + q ELSE buf[q]]
                              /\ sz' = k /\ cur' = 0 /\ pos' = pos + k
  BY Zenon DEF Read
<1>2. k \in 0 .. CPS /\ pos + k <= FILE_LEN /\ (k = 0 => pos = FILE_LEN)
  BY <1>1, Zenon DEF Sizes
<1>3. pc = "read" /\ pc' = "load" /\ UNCHANGED <<variant, timer, token, tmp, out, made, faults>>
  BY Zenon DEF Read
<1>4. variant = "token"
  BY <1>0, <1>3, Zenon DEF FlowControlInv
<1>5. TypeOK'
  <2>1. buf' \in [1 .. CPS -> 0 .. FILE_LEN]
    BY <1>0, <1>1, <1>2, SMTT(30)
  <2> QED
    BY <1>0, <1>1, <1>2, <1>3, <2>1 DEF TypeOK, PC
<1>6. FlowOrderInv'
  <2>1. Len(out) = pos
    BY <1>0, <1>3, <1>4, Zenon DEF FlowOrderInv
  <2>2. \A q \in 1 .. k : buf'[cur' + q] = pos + q
    BY <1>0, <1>1, <1>2
  <2> QED
    BY <1>0, <1>1, <1>2, <1>3, <1>4, <2>1, <2>2, SMTT(30) DEF FlowOrderInv
<1>7. FlowControlInv' /\ FlowTokenInv'
  BY <1>0, <1>3, <1>4, Zenon DEF FlowControlInv, FlowTokenInv
<1>8. FlowCatInv'
  <2>1. \A q \in 1 .. Len(out) : out[q] \in Nat
    BY <1>0 DEF TypeOK
  <2> QED
    BY <1>0, <1>1, <1>2, <1>3, <2>1, SMTT(30) DEF FlowCatInv
<1>9. FlowAccountInv'
  <2>1. pos <= CPS * (made - token)
    BY <1>0, <1>3, <1>4, Zenon DEF FlowAccountInv, Paid
  <2>2. Paid' = made - token + 1
    BY <1>3, <1>4, Zenon DEF Paid
  <2>3. CPS * (made - token + 1) = CPS * (made - token) + CPS /\ CPS * (made - token) \in Int
    BY <1>0, Scale
  <2> QED
    BY <1>0, <1>1, <1>2, <1>3, <2>1, <2>2, <2>3, SMTT(30) DEF FlowAccountInv
<1> QED
  BY <1>5, <1>6, <1>7, <1>8, <1>9, Zenon DEF FlowIInv

\* token--: it takes the token of the read, whatever alarms come in between.
LEMMA FlowDecrement ==
  ASSUME FlowIInv, TokenLoad \/ TokenStore PROVE FlowIInv'
<1>0. /\ TypeOK /\ FlowControlInv /\ FlowOrderInv /\ FlowCatInv /\ FlowTokenInv
      /\ FlowAccountInv
      /\ variant \in {"token", "cat"} /\ token \in Nat /\ tmp \in Nat /\ made \in Nat
  BY FlowTypes, Zenon
<1>1. CASE TokenLoad
  <2>1. /\ pc = "load" /\ pc' = "store" /\ tmp' = token
        /\ UNCHANGED <<variant, timer, token, pos, buf, cur, sz, out, made, faults>>
    BY <1>1, Zenon DEF TokenLoad, bufVars
  <2>2. TypeOK'
    BY <1>0, <2>1, Zenon DEF TypeOK, PC
  <2>3. FlowControlInv' /\ FlowTokenInv'
    BY <1>0, <2>1 DEF FlowControlInv, FlowTokenInv
  <2>4. FlowOrderInv' /\ FlowCatInv'
    BY <1>0, <2>1, Zenon DEF FlowOrderInv, FlowCatInv
  <2>5. FlowAccountInv'
    BY <1>0, <2>1, Zenon DEF FlowAccountInv, Paid
  <2> QED
    BY <2>2, <2>3, <2>4, <2>5, Zenon DEF FlowIInv
<1>2. CASE TokenStore
  <2>1. /\ pc = "store" /\ pc' = (IF sz = 0 THEN "done" ELSE "write")
        /\ token' = (tmp - 1) % UINT
        /\ UNCHANGED <<variant, timer, tmp, pos, buf, cur, sz, out, made, faults>>
    BY <1>2, Zenon DEF TokenStore, bufVars
  <2>2. tmp >= 1 /\ tmp <= TOKEN_MAX /\ variant = "token"
    BY <1>0, <2>1 DEF FlowTokenInv, FlowControlInv, TypeOK
  <2>3. token' = tmp - 1
    <3>1. tmp - 1 \in 0 .. UINT - 1 /\ UINT \in Nat
      BY <1>0, <2>2, FlowAssumption
    <3> QED
      BY <2>1, <3>1
  <2>4. TypeOK'
    BY <1>0, <2>1, <2>2, <2>3, FlowAssumption DEF TypeOK, PC
  <2>5. FlowControlInv' /\ FlowTokenInv'
    BY <2>1, <2>2, Zenon DEF FlowControlInv, FlowTokenInv
  <2>6. FlowOrderInv'
    BY <1>0, <2>1, <2>2, FlowTypes DEF FlowOrderInv
  <2>7. FlowCatInv'
    BY <1>0, <2>1, Zenon DEF FlowCatInv
  <2>8. FlowAccountInv'
    BY <1>0, <2>1, <2>2, <2>3 DEF FlowAccountInv, Paid
  <2> QED
    BY <2>4, <2>5, <2>6, <2>7, <2>8, Zenon DEF FlowIInv
<1> QED
  BY <1>1, <1>2, Zenon

\* Facts about sequences: a function on 1 .. m is one; what is in a concatenation
\* and in a piece of a sequence.
LEMMA FunctionIsSeq ==
  ASSUME NEW S, NEW m \in Nat, NEW f \in [1 .. m -> S] PROVE f \in Seq(S) /\ Len(f) = m
OBVIOUS

\* The bytes of a concatenation.
LEMMA Joined ==
  ASSUME NEW S, NEW s \in Seq(S), NEW t \in Seq(S)
  PROVE  /\ s \o t \in Seq(S) /\ Len(s \o t) = Len(s) + Len(t)
         /\ \A q \in 1 .. Len(s) : (s \o t)[q] = s[q]
         /\ \A q \in 1 .. Len(t) : (s \o t)[Len(s) + q] = t[q]
OBVIOUS

\* A piece of a sequence.
LEMMA Piece ==
  ASSUME NEW S, NEW s \in Seq(S), NEW a \in Nat, NEW b \in Nat, a + b <= Len(s)
  PROVE  /\ SubSeq(s, a + 1, a + b) \in Seq(S) /\ Len(SubSeq(s, a + 1, a + b)) = b
         /\ \A q \in 1 .. b : SubSeq(s, a + 1, a + b)[q] = s[a + q]
OBVIOUS

\* An index of a concatenation lies in one of its parts.
LEMMA Split ==
  ASSUME NEW a \in Nat, NEW b \in Nat, NEW q \in 1 .. a + b
  PROVE  q \in 1 .. a \/ \E l \in 1 .. b : q = a + l
<1>1. CASE q <= a
  BY <1>1
<1>2. CASE q > a
  <2>1. q - a \in 1 .. b /\ q = a + (q - a)
    BY <1>2
  <2> QED
    BY <2>1, Zenon
<1> QED
  BY <1>1, <1>2

\* write() of the next bytes of buf, perhaps of fewer than are left.
LEMMA FlowWrite == ASSUME FlowIInv, Write PROVE FlowIInv'
<1>0. /\ TypeOK /\ FlowControlInv /\ FlowOrderInv /\ FlowCatInv /\ FlowTokenInv
      /\ FlowAccountInv
      /\ variant \in {"token", "cat"} /\ cur \in Nat /\ sz \in Nat /\ pos \in Nat /\ CPS \in Nat
      /\ FILE_LEN \in Nat /\ out \in Seq(1 .. FILE_LEN) /\ Len(out) \in Nat
      /\ buf \in [1 .. CPS -> 0 .. FILE_LEN]
  BY FlowTypes
<1>1. PICK r \in 1 .. sz : /\ out' = out \o SubSeq(buf, cur + 1, cur + r)
                           /\ cur' = cur + r /\ sz' = sz - r
                           /\ pc' = IF sz = r THEN "check" ELSE "write"
  BY Zenon DEF Write
<1>2. pc = "write" /\ UNCHANGED <<variant, timer, token, tmp, pos, buf, made, faults>>
  BY Zenon DEF Write
<1>3. variant = "token"
  BY <1>0, <1>2, Zenon DEF FlowControlInv
<1>4. /\ \A q \in 1 .. Len(out) : out[q] = q
      /\ Len(out) + sz = pos
      /\ \A q \in 1 .. sz : buf[cur + q] = Len(out) + q
  BY <1>0, <1>2, <1>3, Zenon DEF FlowOrderInv
<1>5. cur + sz <= CPS /\ pos <= FILE_LEN
  BY <1>0 DEF TypeOK
<1> DEFINE t == SubSeq(buf, cur + 1, cur + r)
<1>6. t \in Seq(1 .. FILE_LEN) /\ Len(t) = r /\ \A q \in 1 .. r : t[q] = Len(out) + q
  <2>1. buf \in Seq(0 .. FILE_LEN) /\ Len(buf) = CPS
    BY <1>0, FunctionIsSeq, Zenon
  <2>2. r \in Nat /\ r <= sz
    BY <1>0, <1>1
  <2>3. t \in Seq(0 .. FILE_LEN) /\ Len(t) = r /\ \A q \in 1 .. r : t[q] = buf[cur + q]
    <3>1. cur + r <= Len(buf)
      BY <1>0, <1>5, <2>1, <2>2, SMTT(30)
    <3> QED
      <4> HIDE DEF t
      <4>1. ASSUME NEW x \in Nat, NEW y \in Nat, x + y <= Len(buf)
            PROVE  /\ SubSeq(buf, x + 1, x + y) \in Seq(0 .. FILE_LEN)
                   /\ Len(SubSeq(buf, x + 1, x + y)) = y
                   /\ \A q \in 1 .. y : SubSeq(buf, x + 1, x + y)[q] = buf[x + q]
        <5>1. buf \in Seq(0 .. FILE_LEN)
          BY <2>1, Zenon
        <5> QED
          BY <4>1, <5>1, Piece, ZenonT(40)
      <4>2. cur \in Nat /\ r \in Nat
        BY <1>0, <2>2, Zenon
      <4> QED
        BY <3>1, <4>1, <4>2, Zenon DEF t
  <2> HIDE DEF t
  <2>4. \A q \in 1 .. r : q \in 1 .. sz /\ Len(out) + q \in 1 .. FILE_LEN
    BY <1>0, <1>4, <1>5, <2>2
  <2>5. \A q \in 1 .. r : t[q] = Len(out) + q /\ t[q] \in 1 .. FILE_LEN
    BY <1>4, <2>3, <2>4, Zenon
  <2>6. t \in [1 .. r -> 1 .. FILE_LEN]
    BY <2>2, <2>3, <2>5
  <2> QED
    BY <2>2, <2>5, <2>6, FunctionIsSeq, Zenon
<1> HIDE DEF t
<1>7. /\ out' \in Seq(1 .. FILE_LEN) /\ Len(out') = Len(out) + r
      /\ \A q \in 1 .. Len(out') : out'[q] = q
  <2>0. r \in Nat
    BY <1>0, <1>1
  <2>1. out' = out \o t
    BY <1>1, Zenon DEF t
  <2>4. Len(out) \in Nat /\ out \in Seq(1 .. FILE_LEN)
    BY <1>0, Zenon
  <2>2. /\ out' \in Seq(1 .. FILE_LEN) /\ Len(out') = Len(out) + r
        /\ \A q \in 1 .. Len(out) : out'[q] = out[q]
        /\ \A q \in 1 .. r : out'[Len(out) + q] = t[q]
    <3>1. /\ out \o t \in Seq(1 .. FILE_LEN) /\ Len(out \o t) = Len(out) + Len(t)
          /\ \A q \in 1 .. Len(out) : (out \o t)[q] = out[q]
          /\ \A q \in 1 .. Len(t) : (out \o t)[Len(out) + q] = t[q]
      <4>1. t \in Seq(1 .. FILE_LEN)
        BY <1>6, Zenon
      <4> QED
        BY <2>4, <4>1, Joined
    <3> QED
      BY <1>6, <2>1, <3>1, ZenonT(40)
  <2>3. ASSUME NEW q \in 1 .. Len(out) + r PROVE out'[q] = q
    <3>1. CASE q \in 1 .. Len(out)
      BY <1>4, <2>2, <3>1, Zenon
    <3>2. CASE \E l \in 1 .. r : q = Len(out) + l
      BY <1>6, <2>2, <3>2, Zenon
    <3> QED
      BY <2>0, <2>4, <3>1, <3>2, Split, ZenonT(40)
  <2> QED
    BY <2>2, <2>3, Zenon
<1>8. TypeOK'
  <2>1. cur' \in 0 .. CPS /\ sz' \in 0 .. CPS - cur'
    BY <1>0, <1>1, <1>5, SMTT(30)
  <2> QED
    BY <1>0, <1>1, <1>2, <1>7, <2>1, Zenon DEF TypeOK, PC
<1>9. FlowOrderInv'
  <2>0. r \in Nat /\ 1 <= r /\ r <= sz
    BY <1>0, <1>1
  <2>1. ASSUME NEW q \in 1 .. sz - r PROVE buf[cur + r + q] = Len(out) + r + q
    <3>1. r + q \in 1 .. sz /\ cur + r + q = cur + (r + q) /\ Len(out) + r + q = Len(out) + (r + q)
      BY <1>0, <2>0
    <3> QED
      BY <1>4, <3>1, Zenon
  <2>2. Len(out') + sz' = pos' /\ (sz = r => Len(out') = pos')
    <3>1. Len(out') = Len(out) + r /\ sz' = sz - r /\ pos' = pos /\ Len(out) + sz = pos
      BY <1>1, <1>2, <1>4, <1>7, Zenon
    <3>2. Len(out) \in Nat /\ sz \in Nat /\ pos \in Nat
      BY <1>0, Zenon
    <3>3. Len(out') + sz' = pos'
      BY <2>0, <3>1, <3>2
    <3>4. sz = r => Len(out') = pos'
      BY <2>0, <3>1, <3>2, Zenon
    <3> QED
      BY <2>0, <3>3, <3>4, Zenon
  <2>3. \A q \in 1 .. sz' : buf'[cur' + q] = Len(out') + q
    BY <1>1, <1>2, <1>7, <2>1, Zenon
  <2>4. (pc' = "check" /\ sz = r) \/ pc' = "write"
    BY <1>1, Zenon
  <2> QED
    BY <1>7, <2>2, <2>3, <2>4, Zenon DEF FlowOrderInv
<1>10. FlowCatInv'
  <2>1. r \in Nat /\ r <= sz /\ Len(out') \in Nat /\ Len(out') <= pos'
    BY <1>0, <1>1, <1>2, <1>4, <1>7, SMTT(30)
  <2> QED
    BY <1>0, <1>2, <1>7, <2>1, SMTT(30) DEF FlowCatInv
<1>11. FlowControlInv' /\ FlowTokenInv'
  BY <1>1, <1>2, <1>3, Zenon DEF FlowControlInv, FlowTokenInv
<1>12. FlowAccountInv'
  BY <1>0, <1>1, <1>2, Zenon DEF FlowAccountInv, Paid
<1> QED
  BY <1>8, <1>9, <1>10, <1>11, <1>12, Zenon DEF FlowIInv

\* The handler of token.c makes at most one token.
LEMMA FlowAlarm ==
  ASSUME FlowIInv, variant = "token", on_alarm PROVE FlowIInv'
<1>0. /\ TypeOK /\ FlowOrderInv /\ FlowCatInv /\ FlowTokenInv /\ FlowAccountInv
      /\ token \in Nat /\ tmp \in Nat /\ pos \in Nat /\ made \in Nat /\ CPS \in Nat
  BY FlowTypes, Zenon
<1>1. /\ timer' = TRUE /\ UNCHANGED <<variant, tmp, pos, buf, cur, sz, out, faults>>
      /\ \/ token' = token /\ made' = made
         \/ token < TOKEN_MAX /\ token' = token + 1 /\ made' = made + 1
      /\ pc' = IF pc = "paused" THEN "check" ELSE pc
  <2>1. /\ timer' = TRUE /\ UNCHANGED <<variant, tmp, pos, buf, cur, sz, out, faults>>
        /\ pc' = IF pc = "paused" THEN "check" ELSE pc
    BY Zenon DEF on_alarm, bufVars
  <2>2. /\ token' = IF token >= TOKEN_MAX THEN token ELSE token + 1
        /\ made' = IF token >= TOKEN_MAX THEN made ELSE made + 1
    BY Zenon DEF on_alarm
  <2>3. token \in Nat /\ TOKEN_MAX \in Nat
    BY <1>0, FlowAssumption, Zenon
  <2> QED
    BY <2>1, <2>2, <2>3
<1>2. TypeOK'
  BY <1>0, <1>1, FlowAssumption DEF TypeOK, PC
<1>3. FlowControlInv' /\ FlowTokenInv'
  BY <1>0, <1>1, SMTT(30) DEF FlowControlInv, FlowTokenInv
<1>4. FlowOrderInv' /\ FlowCatInv'
  BY <1>0, <1>1, Zenon DEF FlowOrderInv, FlowCatInv
<1>5. FlowAccountInv'
  <2>1. Paid' >= Paid /\ Paid \in Int /\ Paid' \in Int
    BY <1>0, <1>1 DEF Paid
  <2>2. CPS * Paid <= CPS * Paid' /\ CPS * Paid \in Int /\ CPS * Paid' \in Int
    BY <1>0, <2>1, Scale, Zenon
  <2>3. CPS' = CPS /\ pos <= CPS * Paid
    BY <1>0, Zenon DEF FlowAccountInv
  <2> QED
    BY <1>0, <1>1, <2>2, <2>3, SMTT(30) DEF FlowAccountInv
<1> QED
  BY <1>2, <1>3, <1>4, <1>5, Zenon DEF FlowIInv

\* Bytes in the order of the file, none after the a-th.
Rising(u, a) ==
  /\ \A q \in 1 .. Len(u) : u[q] <= a
  /\ \A p, q \in 1 .. Len(u) : p < q => u[p] < u[q]

\* What is read goes on increasing after what was printed.
LEMMA GoesOn ==
  ASSUME NEW L \in Nat, NEW a \in Nat, NEW b \in Nat, a <= b, b <= L,
         NEW u \in Seq(1 .. L), Rising(u, a),
         NEW m \in Nat, NEW s \in [1 .. m -> a + 1 .. b], Rising(s, b)
  PROVE  u \o s \in Seq(1 .. L) /\ Len(u \o s) = Len(u) + m /\ Rising(u \o s, b)
<1>1. s \in Seq(1 .. L) /\ Len(s) = m
  <2>1. s \in [1 .. m -> 1 .. L]
    OBVIOUS
  <2> QED
    BY <2>1, FunctionIsSeq, Zenon
<1> DEFINE t == u \o s
<1>2. /\ t \in Seq(1 .. L) /\ Len(t) = Len(u) + m
      /\ \A q \in 1 .. Len(u) : t[q] = u[q]
      /\ \A q \in 1 .. m : t[Len(u) + q] = s[q]
  <2>1. /\ t \in Seq(1 .. L) /\ Len(t) = Len(u) + Len(s)
        /\ \A q \in 1 .. Len(u) : t[q] = u[q]
        /\ \A q \in 1 .. Len(s) : t[Len(u) + q] = s[q]
    <3>1. s \in Seq(1 .. L)
      BY <1>1, Zenon
    <3> QED
      BY <3>1, Joined, SMT
  <2> QED
    BY <1>1, <2>1, Zenon
<1>3. Len(u) \in Nat /\ \A q \in 1 .. Len(u) : u[q] \in Nat /\ u[q] <= a
  BY DEF Rising
<1>4. \A q \in 1 .. m : s[q] \in Nat /\ a < s[q] /\ s[q] <= b
  OBVIOUS
<1> HIDE DEF t
<1>5. ASSUME NEW q \in 1 .. Len(u) + m PROVE t[q] <= b
  <2>1. CASE q \in 1 .. Len(u)
    <3>1. t[q] \in Nat /\ t[q] <= a
      BY <1>2, <1>3, <2>1, Zenon
    <3> QED
      BY <3>1
  <2>2. CASE \E l \in 1 .. m : q = Len(u) + l
    BY <1>2, <1>4, <2>2, Zenon
  <2> QED
    BY <1>3, <2>1, <2>2, Split, Zenon
<1>6. ASSUME NEW p \in 1 .. Len(u) + m, NEW q \in 1 .. Len(u) + m, p < q
      PROVE t[p] < t[q]
  <2>1. CASE p \in 1 .. Len(u) /\ q \in 1 .. Len(u)
    BY <1>2, <1>6, <2>1, Zenon DEF Rising
  <2>2. CASE p \in 1 .. Len(u) /\ \E l \in 1 .. m : q = Len(u) + l
    <3>1. PICK l \in 1 .. m : q = Len(u) + l
      BY <2>2, Zenon
    <3>2. t[p] = u[p] /\ t[q] = s[l]
      BY <1>2, <2>2, <3>1, Zenon
    <3>3. u[p] \in Nat /\ u[p] <= a /\ s[l] \in Nat /\ a < s[l]
      BY <1>3, <1>4, <2>2, Zenon
    <3> QED
      BY <3>2, <3>3, SMTT(30)
  <2>3. CASE (\E l \in 1 .. m : p = Len(u) + l) /\ (\E l \in 1 .. m : q = Len(u) + l)
    <3>1. PICK c \in 1 .. m : p = Len(u) + c
      BY <2>3, Zenon
    <3>2. PICK d \in 1 .. m : q = Len(u) + d
      BY <2>3, Zenon
    <3>3. c < d
      BY <1>3, <1>6, <3>1, <3>2, SMTT(30)
    <3> QED
      BY <1>1, <1>2, <3>1, <3>2, <3>3, Zenon DEF Rising
  <2>4. CASE (\E l \in 1 .. m : p = Len(u) + l) /\ q \in 1 .. Len(u)
    BY <1>3, <1>6, <2>4
  <2>5. p \in 1 .. Len(u) \/ \E l \in 1 .. m : p = Len(u) + l
    BY <1>3, Split, Zenon
  <2>6. q \in 1 .. Len(u) \/ \E l \in 1 .. m : q = Len(u) + l
    BY <1>3, Split, Zenon
  <2> QED
    BY <2>1, <2>2, <2>3, <2>4, <2>5, <2>6, ZenonT(40)
<1> QED
  BY <1>2, <1>5, <1>6, Zenon DEF t, Rising

\* The instance counts as this module does.
LEMMA SameCount == \A S : Cardinality(S) = Cardinality(S)
BY Zenon DEF Cardinality, Cardinality, IsFiniteSet, IsFiniteSet

\* What the handler of cat.c prints of k bytes.
LEMMA PrintedIs ==
  ASSUME NEW k, NEW skipped, NEW s \in Printed(k, skipped)
  PROVE  /\ s \in [1 .. k - Cardinality(skipped) -> pos + 1 .. pos + k]
         /\ \A p, q \in 1 .. k - Cardinality(skipped) : p < q => s[p] < s[q]
<1> DEFINE m == k - Cardinality(skipped)
<1>1. s \in {u \in [1 .. m -> (pos + 1 .. pos + k) \ skipped] :
               \A p, q \in DOMAIN u : p < q => u[p] < u[q]}
  BY SameCount, Zenon DEF Printed
<1> HIDE DEF m
<1>2. DOMAIN s = 1 .. m /\ s \in [1 .. m -> pos + 1 .. pos + k]
  BY <1>1, Zenon
<1>3. \A p, q \in DOMAIN s : p < q => s[p] < s[q]
  BY <1>1, Zenon
<1> QED
  BY <1>2, <1>3 DEF m

\* The number of bytes left out.
LEMMA SkippedIs ==
  ASSUME NEW a \in Nat, NEW k \in Nat, NEW skipped \in SUBSET (a + 1 .. a + k)
  PROVE  Cardinality(skipped) \in Nat /\ Cardinality(skipped) <= k
<1>1. IsFiniteSet(a + 1 .. a + k) /\ Cardinality(a + 1 .. a + k) = k
  <2>1. ASSUME NEW c \in Int, NEW d \in Int, d - c + 1 = k
        PROVE IsFiniteSet(c .. d) /\ Cardinality(c .. d) = k
    <3>1. IsFiniteSet(c .. d) /\ Cardinality(c .. d) = IF c > d THEN 0 ELSE d - c + 1
      BY FS_Interval, Zenon
    <3> QED
      BY <2>1, <3>1
  <2>2. a + 1 \in Int /\ a + k \in Int /\ (a + k) - (a + 1) + 1 = k
    OBVIOUS
  <2> QED
    BY <2>1, <2>2, Zenon
<1>2. IsFiniteSet(skipped) /\ Cardinality(skipped) <= Cardinality(a + 1 .. a + k)
  BY <1>1, FS_Subset, Zenon
<1>3. Cardinality(skipped) \in Nat
  BY <1>2, FS_CardinalityType, ZenonT(40)
<1> QED
  BY <1>1, <1>2, <1>3, Zenon


\* The handler of cat.c has read k bytes and printed some of them.
LEMMA FlowPrints ==
  ASSUME FlowIInv, variant = "cat",
         NEW k \in Sizes, NEW m \in Nat, m <= k,
         NEW s \in [1 .. m -> pos + 1 .. pos + k],
         \A p, q \in 1 .. m : p < q => s[p] < s[q],
         pos' = pos + k, out' = out \o s,
         made' = made + 1 \/ (k = 0 /\ made' = made),
         timer' = FALSE, faults' \in 0 .. MaxFaults,
         pc' \in {IF pc = "paused" THEN "rearm" ELSE pc, "failed"},
         UNCHANGED <<variant, token, tmp, buf, cur, sz>>
  PROVE  FlowIInv'
<1>0. /\ TypeOK /\ FlowControlInv /\ FlowCatInv /\ FlowAccountInv
      /\ pos \in Nat /\ made \in Nat /\ CPS \in Nat /\ FILE_LEN \in Nat
      /\ out \in Seq(1 .. FILE_LEN) /\ Len(out) \in Nat /\ pc \in PC
  BY FlowTypes, Zenon
<1>1. k \in Nat /\ k <= CPS /\ pos + k <= FILE_LEN
  BY <1>0 DEF Sizes
<1>2. out' \in Seq(1 .. FILE_LEN) /\ Len(out') = Len(out) + m /\ Rising(out', pos + k)
  <2>1. Rising(out, pos)
    BY <1>0, Zenon DEF FlowCatInv, Rising
  <2>2. pos + k \in Nat /\ pos <= pos + k /\ pos \in Nat /\ FILE_LEN \in Nat
        /\ out \in Seq(1 .. FILE_LEN)
    BY <1>0, <1>1
  <2>3. out \o s \in Seq(1 .. FILE_LEN) /\ Len(out \o s) = Len(out) + m /\ Rising(out \o s, pos + k)
    <3>1. Rising(s, pos + k)
      <4>1. Len(s) = m
        BY FunctionIsSeq, Zenon
      <4>2. \A q \in 1 .. m : s[q] <= pos + k
        BY <2>2
      <4> QED
        BY <4>1, <4>2, Zenon DEF Rising
    <3>2. ASSUME NEW L \in Nat, NEW a \in Nat, NEW b \in Nat, a <= b, b <= L,
                 NEW u \in Seq(1 .. L), Rising(u, a), s \in [1 .. m -> a + 1 .. b], Rising(s, b)
          PROVE  u \o s \in Seq(1 .. L) /\ Len(u \o s) = Len(u) + m /\ Rising(u \o s, b)
      BY <3>2, GoesOn, Zenon
    <3> QED
      BY <1>1, <2>1, <2>2, <3>1, <3>2, Zenon
  <2> QED
    BY <2>3, Zenon
<1>3. TypeOK'
  <2>1. timer' \in BOOLEAN
    BY Zenon
  <2> QED
    BY <1>0, <1>1, <1>2, <2>1, SMTT(30) DEF TypeOK, PC
<1>4. FlowControlInv' /\ FlowTokenInv'
  BY <1>0, Zenon DEF FlowControlInv, FlowTokenInv
<1>5. FlowOrderInv'
  BY DEF FlowOrderInv
<1>6. FlowCatInv'
  <2>1. Len(out') <= pos'
    BY <1>0, <1>1, <1>2, SMTT(30) DEF FlowCatInv
  <2> QED
    BY <1>2, <2>1, Zenon DEF FlowCatInv, Rising
<1>7. FlowAccountInv'
  <2>1. pos <= CPS * made
    BY <1>0, Zenon DEF FlowAccountInv, Paid
  <2>2. CPS * (made + 1) = CPS * made + CPS /\ CPS * made \in Int
    BY <1>0, Scale, SMTT(30)
  <2>3. pos' <= CPS * made'
    BY <1>0, <1>1, <2>1, <2>2, SMTT(30)
  <2> QED
    BY <2>3, Zenon DEF FlowAccountInv, Paid
<1> QED
  BY <1>3, <1>4, <1>5, <1>6, <1>7, Zenon DEF FlowIInv

\* The handler of cat.c, whether or not a call in it fails.
LEMMA FlowHandler ==
  ASSUME FlowIInv, variant = "cat", ~Ended,
         handle \/ handleReadFails \/ handlePrintFails
  PROVE  FlowIInv'
<1>0. pos \in Nat /\ CPS \in Nat /\ faults \in Nat /\ MaxFaults \in Nat
  BY FlowTypes, FlowAssumption DEF TypeOK
<1>1. CASE handle
  <2>1. /\ timer' = FALSE /\ pc' = IF pc = "paused" THEN "rearm" ELSE pc
        /\ UNCHANGED <<variant, token, tmp, buf, cur, sz>>
    BY <1>1, Zenon DEF handle, catUnchanged, bufVars
  <2>2. PICK k \in Sizes :
          /\ pos' = pos + k
          /\ made' = IF k = 0 THEN made ELSE made + 1
          /\ \E skipped \in SUBSET (pos + 1 .. pos + k) :
               /\ faults + Cardinality(skipped) <= MaxFaults
               /\ faults' = faults + Cardinality(skipped)
               /\ \E s \in Printed(k, skipped) : out' = out \o s
    BY <1>1, SameCount, Zenon DEF handle
  <2>3. PICK skipped \in SUBSET (pos + 1 .. pos + k) :
          /\ faults + Cardinality(skipped) <= MaxFaults
          /\ faults' = faults + Cardinality(skipped)
          /\ \E s \in Printed(k, skipped) : out' = out \o s
    BY <2>2, Zenon
  <2>4. PICK s \in Printed(k, skipped) : out' = out \o s
    BY <2>3, Zenon
  <2>5. k \in Nat
    BY <1>0 DEF Sizes
  <2>6. Cardinality(skipped) \in Nat /\ Cardinality(skipped) <= k
    BY <1>0, <2>5, SkippedIs, Zenon
  <2> DEFINE m == k - Cardinality(skipped)
  <2>7. m \in Nat /\ m <= k
    BY <2>5, <2>6
  <2>8. /\ s \in [1 .. m -> pos + 1 .. pos + k]
        /\ \A p, q \in 1 .. m : p < q => s[p] < s[q]
    BY PrintedIs, Zenon
  <2>9. faults' \in 0 .. MaxFaults
    BY <1>0, <2>3, <2>6
  <2>10. pc' \in {IF pc = "paused" THEN "rearm" ELSE pc, "failed"}
    BY <2>1, Zenon
  <2>11. made' = made + 1 \/ (k = 0 /\ made' = made)
    BY <2>2, Zenon
  <2>12. pos' = pos + k
    BY <2>2, Zenon
  <2> HIDE DEF m
  <2> QED
    BY <2>1, <2>4, <2>7, <2>8, <2>9, <2>10, <2>11, <2>12, FlowPrints, ZenonT(40)
<1>2. CASE handlePrintFails
  <2>1. /\ timer' = FALSE /\ pc' = "failed" /\ made' = made + 1
        /\ UNCHANGED <<variant, token, tmp, buf, cur, sz>>
    BY <1>2, Zenon DEF handlePrintFails, catUnchanged, bufVars
  <2>k. PICK k \in Sizes : \E l \in 1 .. k : \E skipped \in SUBSET (pos + 1 .. pos + l - 1) :
          /\ faults + Cardinality(skipped) + 1 <= MaxFaults
          /\ faults' = faults + Cardinality(skipped) + 1
          /\ pos' = pos + k
          /\ \E s \in Printed(l - 1, skipped) : out' = out \o s
    BY <1>2, SameCount, Zenon DEF handlePrintFails
  <2>l. PICK l \in 1 .. k : \E skipped \in SUBSET (pos + 1 .. pos + l - 1) :
          /\ faults + Cardinality(skipped) + 1 <= MaxFaults
          /\ faults' = faults + Cardinality(skipped) + 1
          /\ pos' = pos + k
          /\ \E s \in Printed(l - 1, skipped) : out' = out \o s
    BY <2>k, Zenon
  <2>2. PICK skipped \in SUBSET (pos + 1 .. pos + l - 1) :
          /\ faults + Cardinality(skipped) + 1 <= MaxFaults
          /\ faults' = faults + Cardinality(skipped) + 1
          /\ pos' = pos + k
          /\ \E s \in Printed(l - 1, skipped) : out' = out \o s
    BY <2>l, Zenon
  <2>3. k \in Nat /\ l - 1 \in Nat /\ l - 1 <= k /\ pos + l - 1 = pos + (l - 1)
    BY <1>0 DEF Sizes
  <2>4. PICK s \in Printed(l - 1, skipped) : out' = out \o s
    BY <2>2, Zenon
  <2>6. Cardinality(skipped) \in Nat /\ Cardinality(skipped) <= l - 1
    BY <1>0, <2>3, SkippedIs, Zenon
  <2> DEFINE m == l - 1 - Cardinality(skipped)
  <2>7. m \in Nat /\ m <= k
    BY <2>3, <2>6
  <2>8. /\ s \in [1 .. m -> pos + 1 .. pos + (l - 1)]
        /\ \A p, q \in 1 .. m : p < q => s[p] < s[q]
    BY PrintedIs, Zenon
  <2>9. faults' \in 0 .. MaxFaults
    BY <1>0, <2>2, <2>6, SMTT(30)
  <2> HIDE DEF m
  <2>10. s \in [1 .. m -> pos + 1 .. pos + k]
    BY <1>0, <2>3, <2>8, SMTT(30)
  <2>11. pc' \in {IF pc = "paused" THEN "rearm" ELSE pc, "failed"}
    BY <2>1, Zenon
  <2>12. pos' = pos + k
    BY <2>2, Zenon
  <2> QED
    BY <2>1, <2>4, <2>7, <2>8, <2>9, <2>10, <2>11, <2>12, FlowPrints, ZenonT(40)
<1>3. CASE handleReadFails
  <2>1. /\ timer' = FALSE /\ faults' \in 0 .. MaxFaults
        /\ pc' \in {IF pc = "paused" THEN "rearm" ELSE pc, "failed"}
        /\ UNCHANGED <<variant, token, tmp, buf, cur, sz, pos, out, made>>
    BY <1>0, <1>3 DEF handleReadFails, catUnchanged, bufVars, SomeFault
  <2>2. /\ TypeOK /\ FlowControlInv /\ FlowCatInv /\ FlowAccountInv /\ pc \in PC
    BY FlowTypes
  <2>3. TypeOK'
    BY <2>1, <2>2, Zenon DEF TypeOK, PC
  <2>4. FlowControlInv' /\ FlowTokenInv'
    BY <2>1, <2>2, Zenon DEF FlowControlInv, FlowTokenInv
  <2>5. FlowOrderInv' /\ FlowCatInv' /\ FlowAccountInv'
    BY <2>1, <2>2, Zenon DEF FlowOrderInv, FlowCatInv, FlowAccountInv, Paid
  <2> QED
    BY <2>3, <2>4, <2>5, Zenon DEF FlowIInv
<1> QED
  BY <1>1, <1>2, <1>3, Zenon


\* Every step of main and every alarm keeps the invariant.
LEMMA FlowStepInv == FlowIInv /\ [Next]_vars => FlowIInv'
<1> SUFFICES ASSUME FlowIInv, [Next]_vars PROVE FlowIInv'
  OBVIOUS
<1>1. CASE Main
  BY <1>1, FlowMoves, FlowRead, FlowDecrement, FlowWrite, Zenon DEF Main
<1>2. CASE Tick
  BY <1>2, FlowAlarm, FlowHandler, ZenonT(40) DEF Tick
<1>3. CASE UNCHANGED vars
  <2>1. UNCHANGED <<variant, pc, timer, token, tmp, pos, buf, cur, sz, out, made, faults>>
    BY <1>3, Zenon DEF vars, bufVars
  <2> QED
    BY <2>1, Zenon DEF FlowIInv, TypeOK, FlowControlInv, FlowOrderInv, FlowCatInv, FlowTokenInv,
                FlowAccountInv, Paid
<1> QED
  BY <1>1, <1>2, <1>3, Zenon DEF Next

\* The invariant holds in all reachable states.
LEMMA FlowInvariance == Spec => []FlowIInv
<1>1. Init => FlowIInv
  BY FlowInitInv, Zenon
<1>2. FlowIInv /\ [Next]_vars => FlowIInv'
  BY FlowStepInv, Zenon
<1> QED
  BY <1>1, <1>2, PTL DEF Spec

\* token.c and cat.c print the file in order and nothing twice; token.c leaves
\* nothing out, and all of it is printed when the program returns: for every file,
\* every CPS and any number of failing calls.
THEOREM PrintsInOrderHolds ==
  Spec => []PrintsInOrder
<1>1. ASSUME FlowIInv PROVE PrintsInOrder
  <2>1. FlowControlInv /\ FlowOrderInv /\ FlowCatInv /\ variant \in {"token", "cat"}
    BY <1>1, FlowTypes, Zenon
  <2>2. pc = "done" => Len(out) = FILE_LEN
    BY <2>1, Zenon DEF FlowControlInv, FlowOrderInv
  <2> QED
    BY <2>1, <2>2, Zenon DEF FlowOrderInv, FlowCatInv, PrintsInOrder
<1>2. FlowIInv => PrintsInOrder
  BY <1>1, Zenon
<1> QED
  BY <1>2, FlowInvariance, PTL

\* At most CPS bytes are printed for every alarm that made a token or a read, and
\* token stays in its range, although alarms come between the load and the store
\* of token--.
THEOREM FlowRateLimitedHolds ==
  Spec => []RateLimited
<1>1. ASSUME FlowIInv PROVE RateLimited
  <2>1. /\ TypeOK /\ FlowCatInv /\ FlowAccountInv /\ FlowTokenInv
        /\ token \in Nat /\ tmp \in Nat /\ made \in Nat /\ CPS \in Nat /\ Paid \in Int
        /\ pos \in Nat /\ Len(out) \in Nat
    BY <1>1, FlowTypes, Zenon
  <2>2. Paid <= made
    BY <2>1 DEF FlowTokenInv, Paid
  <2>3. CPS * Paid <= CPS * made /\ CPS * Paid \in Int /\ CPS * made \in Int
    BY <2>1, <2>2, Scale, SMTT(30)
  <2>4. Len(out) <= pos /\ pos <= CPS * Paid
    BY <2>1 DEF FlowCatInv, FlowAccountInv
  <2> QED
    BY <2>1, <2>3, <2>4, SMTT(30) DEF RateLimited
<1>2. FlowIInv => RateLimited
  BY <1>1
<1> QED
  BY <1>2, FlowInvariance, PTL
=============================================================================
