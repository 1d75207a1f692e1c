# A verification of the concurrent programs of apue-pratice

The repository is a collection of small C programs written while working through
*Advanced Programming in the UNIX Environment*. Most of the files show one system
call. The programs worth verifying are those in which several things happen at
once: threads that share a table, a signal handler that shares memory with the
program it interrupts, a state machine that serves several descriptors, processes
that share a file, a queue or a piece of memory; and the sequential ones whose calls
may do less than they were asked for or see the file system change. This project models those in TLA+, checks the models with TLC
and proves the central invariants with TLAPS. Paths below are relative to `src/`.

## The parts and how they interact

| part | code | modules | what happens at once |
|---|---|---|---|
| thread pool | `thread/thread_pool.c` | `ThreadPool`, implements `TaskPool`; `ThreadPoolProofs` | main and any number of workers |
| token bucket | `signal/mytbf.c` | `TokenBucket`, `SlowCatProofs` | program and SIGALRM handler |
| slow_cat | `signal/slow_cat.c` | `SlowCat`, on top of `TokenBucket`; `SlowCatProofs` | the same, with `read` and `write` |
| any timer | `signal/anytimer.c` | `AnyTimer`, `SignalProofs` | program and SIGALRM handler |
| I/O relays | `adio/select.c`, `poll.c`, `epoll.c` | `Relay`, `RelayProofs` | several pairs of descriptors and their peers |
| locked counters | `thread/mutex.c`, `ipc/sem_arr.c`, `adio/flock.c` | `LockedCounter`, implements `SharedCounter`; `CounterProofs` | main and any number of threads or processes |
| flow-control cats | `signal/token.c`, `signal/cat.c` | `FlowCat`, `CounterProofs` | program and SIGALRM handler |
| signal masks | `signal/int.c`, `suspend.c`, `suspend1.c` | `SignalRounds`, `SignalProofs` | program and SIGINT, SIGTSTP |
| sockets and IPC | `socket/socket_tcp.c`, `socket_udp.c`, `udp_echo.c`, `ipc/pipe.c`, `msg.c`, `shm.c`, `adio/mmap_share.c` | `Messages`, `MessagesProofs` | a sender, a receiver and what lies between them |
| copy and edit | `fileio/mycpy.c`, `trunc_ln_10.c`, `stdio/mycpy.c`, `mycpy1.c` | `FileCopy`, `FileCopyProofs` | sequential: short and failing calls, kills |
| disk usage | `fs/du.c` | `DiskUsage`, `SequentialProofs` | a recursion and processes that change the tree |
| HTTP client | `socket/http_client.c` | `HttpClient`, `SequentialProofs` | sequential: an automaton over the response |

`slow_cat` is the only program that is linked against another part, the token
bucket, and the only composition of two parts. The other parts share no state.
`MCxxx` modules instantiate `xxx` for TLC.

### ThreadPool

The state is `struct thread_pool_st` (`initialized`, `tasks`, `waits`, `mtx`), the
locals of every worker (`pc`, `tid`, `job`) and those of main (`main`, `slot`,
`added`, `ids`, `waited`). `runs` and `spurious` are history.

- A step is what lies between two blocking calls. `task_mtx` is no variable: only
  `tp_add_task` blocks while holding it, so it is taken exactly when main is at
  `"store"`. Every other section under it is one step.
- `tp_add_task` is `AddFind`, `AddStore`, `AddBroadcast`, with its two `exit(1)` as
  `AddFail`. `tp_wait_task` is `WaitLock`, `WaitUnlock`. `tp_close` is
  `CloseCancel`, `CloseDestroyMtx`, `CloseDestroyCond`.
- `thread_pool_routine` is `LockMtx`, `FindTask`/`FindNone`, `CondWait`,
  `Reacquire`; `run_task_lock` is `PopTask`, `UnlockMtx`, `Execute`, `UnlockWait`.
- Of glibc the model has what the code relies on: `pthread_cond_wait` as the
  cancellation point of an idle worker, the mutex that a cancelled waiter takes
  again and keeps (`Unwind`), `EBUSY` and `EINVAL` of a mutex that is being or has
  been destroyed, `pthread_cond_destroy` waiting for waiters, a `waits[]` mutex
  unlocked by another thread than the one that locked it, spurious wake-ups.
- The `initialized` flag is read from an uninitialised local; `StackFlags` gives
  the values it may have. If it happens to be set, `tp_init` does nothing and the
  program goes to `"undefined"` at the first `tp_add_task`.
- `pthread_create` reports an error by a positive number, and `tp_init` tests for a negative
  one: up to `MaxMissing` threads may not exist without anybody noticing (`Created`). The pool
  works with the others; `tp_close` then cancels an indeterminate `pthread_t`, after which
  nothing is said.

`TaskPool` is what the caller relies on: each task is submitted, started, finished
once and in that order, and a wait gets through only after the end.

### TokenBucket and SlowCat

`jobs`, `live` and `bucket` are the table of buckets, `inited`, `timer` and `caught`
the state of the signal, `pc` and the locals a call in progress. Every load and
every store of `p->token` is a step of its own, since the handler may come in
between: `p->token -= r` is `FetchLoad`, `FetchStore`, and `MIN` reads its smaller
argument twice (`FetchCompare`, `FetchPick`). The handler (`handle`) is one step,
because nothing interrupts it. `held` and `made` are history: the tokens the
program has and those the handler has put in. `ForeignAlarm` is a SIGALRM sent by
another process. `README.md:800` of the repository says that flow control should not
respond to it; the handler does, and `foreign` counts these signals.

`SlowCat` extends the module with main: `Start`, `Fetch`, `Fetched`, `Read`,
`ReadFails`, `ReadEnd`, `Write`, `WriteFails`, `Destroy`. A byte is its position in
the file. `ReadOverrun` is a `read` that is given more room than `buf` has, which
needs a refill between the two reads of `MIN`; nothing is said about the program
after it. After a short write slow_cat goes on with the full length; the properties
are stated up to the first one (`short`). Where `cat` is `"other"` the caller is not slow_cat but
any program that creates, uses, refills and destroys buckets (`OtherCall`), so one
state space holds the library on its own and below slow_cat.

### AnyTimer

A job is the number of the `at_add_job` that made it and stands for its `struct
task`. `at_add_job` is `AddCall`, `AddSignal`, `AddAlarm`, `AddScan` (one turn of
`getf_free_pos`), `AddMalloc`/`AddNoMemory`, `AddStore`; `at_cancel_job` is
`CancelCall`, `CancelFree`, `CancelFreed`, `CancelUnlink`; `at_wait` is `WaitCall`,
`WaitCheck`, `WaitPause`. `malloc` and `free` are intervals (`pc` is `"malloc"` or
`"free"`): a handler that frees a task inside one of them may do well or end in
`"undefined"` (`README.md:654` says such calls do not belong in a handler). So does
a use of a freed struct. The caller is any program that uses the ids it was given;
`signal/at_test.c` is one of them. `late` is history: the ticks that an `at_wait` has slept
through since its job ended.

### Relay

The three programs have one state machine; `variant` tells them apart where they
differ: `poll.c` and `epoll.c` stop after `limits` turns, a FIFO without writer is
readable for `select` and a hang-up for the others, `epoll_ctl` refuses regular
files, `epoll.c` tests `EPOLLIN` also in `STATE_WRITE`, and treats a failing `read`
or `write` differently. `Open` and `OpenFails` are the start of main, `Wait` the first half of `pipe_push`, one of `Break`,
`Skip`, `Read`, `ReadFails`, `Write`, `WriteFails` the body of its loop for one pair,
`PushEnd` its return. A write may be short; the programs count what was written in `off`
and do not use it, so that the buffer is then written from its start (`Advance` keeps
that arithmetic). `out` is the destination up to the first short write of the pair. `Produce`, `Close` and `Drain` are the other ends of the FIFOs.

### LockedCounter

`lock` is the mutex, the semaphore or the lock of the whole file. The increment is
`Load` and `Store`. In `flock.c` `lockf(F_ULOCK)` comes after the write and works from
the file offset, so it unlocks only what is past the number: the next process gets
in at `CloseFile`, not at `Release`.

Any call whose failure is reported may fail: `SetupFails` is a `semget` or `semctl`, `SpawnFails` a `fork`
or `pthread_create`, `WorkerFails` a `semop` for P or V, or the `open`, one of the `lockf` or the `read` of a
child of `flock.c`, which then exits and thereby gives up its lock. Two mishaps of `flock.c` are
not reported. `StoreCut` is a `write` that fails or ends early: `CutWrites` gives the numbers that
the file can hold when some of the new digits have been written over the old ones. `Load` may
misread, since `buf` is neither initialised nor terminated and `atoi` goes on with digits behind
what was read; one stray digit (`StrayDigits`) stands for any, as nothing is claimed about the
number afterwards. Two history variables keep track: `added` is the workers whose store was
done, `intact` says that no number was misread or changed by a cut write.

`SharedCounter` is a counter to which each worker adds one in a single step. It promises this of
`flock.c` only until the number is damaged (`Damaged`), and of the other two without exception.

### FlowCat

`token.c` and `cat.c` print at most `CPS` bytes for an alarm. In `token.c` the handler
(`on_alarm`) restarts the alarm and raises `token`; main is `Check`, `Pause`, `Read`,
`TokenLoad` and `TokenStore` (`token--`, with `UINT` values before it wraps) and `Write`. In
`cat.c` the handler reads and prints (`handle`, `handleReadFails`, `handlePrintFails`) and main
restarts the one-shot alarm after `pause` has returned (`Rearm`). `made` is history: the alarms
that gave the program something to print.

### HttpClient

A response is a sequence of carriage returns, newlines and other bytes. `Args`, `Connect` and
`OpenOut` are the setup with its early exits, `ReadByte` one turn of the loop, `Eof` its end.
`NextStatus` is the chain of `if`s on `status`, and `EmptyLine` the one that sets `body` and
skips the byte. `saved` is the set of positions written to the file. The reference definitions
(`Run`, `HasRNR`, `EndsEmpty`) say the same of a position without a status: what can be picked
from the line ends just before it.

### SignalRounds

`blocked`, `handler` and `pending` are what the kernel keeps of SIGINT, all of them
inherited or set: `RoundsInit` allows any mask and disposition. `Arrive` is a signal, `Deliver` its
delivery, which comes before the next step of the program when the signal is not
blocked. The steps of main are its calls: `Block`, `Star`, `NewLine`, `Unblock`, `Pause`
(`suspend.c`), `SigSuspend` (`suspend1.c`, mask and wait in one), and at the end `Restore`,
`Unhandle`, `Return`. `Open` and `Grab` are the two calls by which `suspend1.c` gets a mask without
SIGINT. `Suspend` is SIGTSTP, whose handler exits.

### Messages

Seven programs have a sender that repeats a message and a receiver that prints what its buffer
holds after each call. `program` tells them apart: `chan` is a stream of cells (`tcp`, `pipe`), a
sequence of messages (`udp`, `echo`, `msg`) or memory (`shm`, `mmap`). A message consists of `CELLS`
cells that are numbered through, so a cell shows which message it comes from.

- Set-up: `Listen`, `Connect`, `Accept`, `OpenSocket`, `Start` (the call before `fork` or
  `pthread_create`), `Attach` (`create_mq`, `create_shm`: what is under the key, or a new one).
  `key` and `at` tell the queue under the key from the one a process has got, since a queue
  can be removed and created again in between. An earlier run may have left a message.
- Sending: `SendStream`, `SendDatagram`, `SendQueue`, `StoreCell`. Receiving: `ReceiveStream`
  (any part of what has arrived), `StreamEnd`, `ReceiveDatagram` (any datagram, also again),
  `ReceiveQueue`, `LoadCell`. Memory is written and read cell by cell, without a lock.
- Faults: `SetupFails`, `SendFails`, `ReceiveFails` (the servers do not look at the result
  and print their buffer again), `Lose`, `Kill`; `PeerGone` is SIGPIPE, `QueueGone` the error of
  `msgsnd` and `msgrcv` in a queue that was removed, `RemoveQueue` the `msgctl` at the end.

### FileCopy

`mycpy.c` of `fileio` is `Read`, `Write`; `stdio/mycpy.c` is `FgetcFputc`; `mycpy1.c` is `FreadFwrite`;
`trunc_ln_10.c` is `Read`, `Keep` (one turn of the loop over the bytes of a `read`), `Reopen`, `Back`. A byte 255 is `EOF` once it is stored in a `char`. `OutputLost` is a stdio
call that fails and is not looked at (`silent`); `Kill` loses what stdio has not written.

### DiskUsage

A tree has the entries 1 to `N`; `calls` is the stack of calls that loop over a directory, each
with the entries it has still to visit. `Lstat`, `List`, `NextEntry`, `Fails` are the steps of `du` and
`du_by_glob`, `Change` is another process that creates or removes an entry; a `readdir` under way may
notice it or not. `Matched` is the directories that a path means when it is taken for a pattern, `Globbed` is what `glob` finds for `path/*` and `path/.*`, where `path` itself may
contain a directory called `*`; `GlobBlind` is a `glob` that could not read the directory.

## What the runs check

Each passing run checks the safety properties and the liveness of one part together,
under the fairness given below.

| run | instance | distinct states |
|---|---|---|
| `pool` | 3 workers, 3 slots, 4 tasks, 1 spurious wake-up, 1 thread that may be missing, both values of the flag | 165 114 |
| `slow_cat` | 2 buckets, 4 calls, rates 1 and 2, at most 3 tokens, 1 foreign SIGALRM; a file of 3 bytes, a buffer of 2, 1 failing call | 483 984 |
| `timer` | 2 entries, 3 jobs of 0 to 2 seconds | 90 260 |
| `relay` | 2 pairs of 2 bytes, each files or FIFOs, 3 programs, a buffer of 2, short writes, 1 failing call or exceptional condition | 393 093 |
| `counter` | 4 workers, 3 programs, a file with 0 or 7, 2 stray digits, 1 failing call | 374 924 |
| `flow_cat` | a file of 5 bytes, 2 per alarm, at most 2 tokens, 2 failing calls, both programs | 7 523 |
| `http` | every response of up to 8 bytes | 216 511 |
| `rounds` | 3 programs, 3 lines of 2 stars, 5 signals, any inherited mask and disposition | 10 707 |
| `messages` | 7 programs, 3 messages of 3 cells, room for 2, 1 left from an earlier run, 2 faults | 96 005 |
| `copy` | 4 programs, every file of up to 5 bytes of 3 kinds, a buffer of 2, line 2, 1 fault | 92 973 |
| `du` | both recursions, every tree of 4 entries with the names `a`, `.b`, `*`, 1 change, 1 fault | 967 032 |

**pool.** `FoundTaskStays`: the slot a worker found is not emptied before it pops it,
although `task_mtx` is given up in between. `WaitsTrackTasks`: `waits[i]` is locked
exactly while the task of slot `i` is pending or running or main is between the two
calls of `tp_wait_task`. `AwaitedHasRun`: a wait that returned was for a task that has run,
although slots are reused while main still has to wait for their first task.
`QuietAtClose`: no task is cancelled half way. `Terminates`: with two workers or three no lost
broadcast keeps main waiting, and main does not block for ever, neither on `waits[i]` inside the
`task_mtx` section nor in `pthread_cond_destroy`. `ImplementsTaskPool`: refinement; in
particular no task runs twice.

**slow_cat.** Of the bucket, under any program: `NoDanglingJob`: the handler never follows an
entry whose struct is not filled in or was freed. `NeverOverdraws`: ticks can be lost between
a load and a store, but no interleaving creates tokens or makes `p->token` negative.
`FetchGivesTokens`: a fetch returns at least one token. `FetchReturns`: a tick between the test
and `pause()` wakes nobody, the next one does. Of slow_cat: `PrintsFile`, `RateLimited`,
`Finishes`: the file is printed in order, all of it, with no byte that the timer did not make
a token for, and the program ends. `PrintsFile` and `RateLimited` are claimed up to the first
short write, and `RateLimited` only as long as no other process has sent a SIGALRM, because the
code does not keep what `README.md:800` asks for.

**timer.** `FiresOnTime`: a job fires at the tick its `sec` names. `EntriesHoldJobs`: no job is
lost or stored twice while the handler empties entries under the search, and a freed struct
is reachable only between two lines of `at_cancel_job`. `WaitReturns`: `at_wait` returns if no
job with `sec = 0` is pending. `WaitsForItsJob`: once its job has ended it sleeps through one
more tick at most, unless the id, which is an index, was given to a later job.

**relay.** `CopiesSource`: up to the first short write of a pair nothing is reordered, repeated
or reported as copied when it is not, also after a failing read has been stored as a length
of -1. `EndsAlone`: in `select.c` a pair comes to its end though other writers never write.

**counter.** `Exclusive`: the lock excludes, also when calls fail. `CountsAll`: a program that comes to
its end has counted exactly the workers that have stored, which are all if no call failed.
`ImplementsCounter`: each load and store is one atomic addition, and a worker whose call or whose
`write` fails takes nothing from the others. Of `flock.c` both are claimed only as long as no number
was misread or cut (`intact`); after that it can hold any number. `MainEnds`: main ends.

**flow_cat.** `PrintsInOrder`: the file comes in order and nothing twice, and all of it in
`token.c`, through short writes and interrupted calls. `RateLimited`: at most `CPS` bytes for an
alarm, although alarms fall inside `token--`, and `token` neither wraps nor passes
`TOKEN_MAX`. `Finishes`: `token.c` ends; `cat.c` comes to the end of the file
unless its only alarm went off before the `pause` (`Missed`), in which case it sleeps for ever.

**http.** `StatusMeansRun`: `status` is the longest part of `\r\n\r` that can be picked from the
line ends just read. `BodySaved`: the file holds every byte received after the head and no
other ("body is after \r\n\r\n", `http_client.c:67`), up to the first newline of the body that
the automaton takes for the end of an empty line (one at the very beginning of the body is
another); this newline is dropped, and the comment not kept from there on. `HeadSkipped`: whatever the body contains, nothing of a
well-formed head is saved, and the body begins right after it.

**rounds.** `LinesWhole`: no handler runs inside a line. `GuardedNeverKills`: a SIGINT that arrives
under the handler does not end the process, also if it is pending when mask and handler are put
back. `SignalStartsLine`: a SIGINT typed during a line starts the next one; `suspend.c` alone may
answer it before its `pause()` and then wait (`Missed`), as its comment says.

**messages.** `StreamIntact`: what comes out of a connection, a pipe or a queue is what went in,
though reads cut it anywhere and the queue may be removed and created again between the two
`msgget`. `RecordsWhole`: a receiver of fixed-size messages prints whole ones and, where the
channel keeps the order, none out of turn, though it prints its buffer again after errors and
at the end; over TCP up to the first short read. `NeverBackwards`: text printed while it is being
replaced mixes at most neighbouring messages, in one direction, and never shows an older cell
than before. `EndsWithPeer`: where the code provides for it (an established connection, a pipe
without reader, a queue that both had and one has removed), a process ends after the other.

**copy.** `CopiesWanted`: the destination is always a prefix of what is wanted, and all of it at
the end, unless an unchecked call has lost something. Wanted is the whole file, or the whole file
without the line; the two programs that compare a `char` with `EOF` may end without an error in
front of a byte 255, which the property names as its exception (`StoppedAtFF`). `OriginalKept`:
`trunc_ln_10.c` does not touch the file before everything but the line is in the temporary one.
The line is found byte by byte across buffers and compared with a definition by counting newlines.

**du.** `CountsOnce`: an entry that stays is counted exactly once, whatever comes and goes beside it,
if no name is a pattern. `Ends`: the program ends, for all names.

One run shows where the code does not do what a comment says of it.

| run | property | what happens |
|---|---|---|
| `pool_one_thread` | `EveryTaskRuns` | the broadcast is sent without `mtx` and can fall between search and wait; a single worker then sleeps for ever beside a task |

The definitions under "Faulty variants" in each module are single steps with a plausible
mistake in them; no specification uses them. Each one, put in place of the step it is a
variant of, makes TLC report a violation of one property of the passing run, which shows
that the property depends on that step.

### Bounds

- *pool*: more tasks than slots, so that slots are reused and the table can be full; three
  workers, so that one can search, one run and one wait. A task needs only one slot and
  one worker, and `ThreadPoolProofs` covers every size. One thread may be missing
  (`MaxMissing`), so that two are left, which `Terminates` needs: a single worker can miss a
  broadcast, as `pool_one_thread` shows. The safety properties are proved for any number of
  missing threads.
- *slow_cat*: `MaxToken` stops the handler from filling a bucket for ever: a tick
  past it adds nothing. It is above what one fetch can ask for, so empty, partial and
  full answers occur. `MaxCalls` allows creating, fetching, returning and destroying.
  slow_cat needs several rounds for 3 bytes with a buffer of 2; `MaxOut` leaves room for
  the bytes that a wrong loop would print.
- *timer*: three jobs in two entries, so that an entry is reused and the table can be full.
  A counter at `MinSec` stays there; it can only be reached by a job that never fires.
- *relay*: two pairs, so that one can wait for the other; a FIFO gives its two bytes together or
  one by one. `Limits` is 5 instead of 20, so that `poll.c` comes to the end of a source in some
  behaviours and stops too early in others. `MaxOff` stops an `off` that has passed `len`; it is beyond every value that is
  compared. `RelayProofs` covers every size.
- *counter*: four workers and one failing call at any place, the two of `flock.c` that are not
  reported included. A file that starts with 7 gets a second digit, so that a cut write can leave
  an old digit behind a new one; a stray 0 and a stray 3 give different wrong numbers. Proved for
  any number of workers and failures, any start and any stray digits.
- *flow_cat*: several reads for a file, the last one short; the bucket gets full and empty;
  two failing calls, so that an interrupted call can be interrupted again. The safety properties
  are proved for any size.
- *http*: eight bytes hold a well-formed head and three bytes of body, or every shorter and malformed
  start of one; proved for any length.
- *rounds*: the first, a middle and the last line, and more signals than lines; proved for any number.
- *messages*: three cells, so that a reader can be between two others; more messages than fit, so
  that the sender blocks or datagrams are dropped; two faults, so that one can follow another.
  `MaxPrints` stops the receivers that never end. The safety properties are proved for any size.
- *copy*: five bytes are enough for a first, a deleted and a later line and for three buffers, so
  that a line goes across the end of a buffer. `LINE` is 2 instead of 10; proved for any file, buffer
  and line.
- *du*: four entries give a chain of depth three and a directory called `*` beside another with a
  child in each. `CountsOnce` is proved for trees of any size and any number of changes.

Symmetry is not used: most runs check liveness, and the elements of the others (bytes, entries)
are not alike. Deadlock is checked for the
pool, whose end is an explicit step (`Over`). In the other parts a program that has
ended, or an idle caller that makes no more calls, has no step.

### Fairness

- Threads and processes are scheduled: weak fairness of main and of every worker. This is
  what a preemptive scheduler gives. No strong fairness of a lock is needed: every worker
  of the counters takes it once, and the idle workers of the pool wait on the condition
  variable between two rounds.
  Failing calls are never forced: fairness is of the steps that proceed, so a call that
  blocks may block for ever and nothing is rescued by an error.
- A running `alarm(1)` goes off: weak fairness of the tick. The callers make no promise:
  a program need not call the library again, but it proceeds inside a call. The same
  holds of `token.c` and `cat.c`, whose alarms are the only source of progress.
- In the relays the process runs and the readers of FIFOs make room; nothing is assumed of
  the writers, which is what `EndsAlone` is about.
- `Messages`: sender and receiver are each scheduled, `SignalRounds`: the program runs and the
  kernel delivers, `DiskUsage`: the process runs. Nobody need send a signal, no call
  need fail, no datagram need arrive, and the tree need not change. `FileCopy` has no
  liveness property and no fairness.

## What is proved

TLAPS checks these theorems for every value of the constants that satisfies the named
assumption of the module. Every invariant, every action property and both refinements that a run
checks is among them. A proof module extends the parts it is about. Three of them cover two
parts, which is why `LockedCounter`, `SignalRounds` and `DiskUsage` carry their own names for their
specifications (`LockedSpec`, `RoundsSpec`, `UsageSpec`) and variables.

**`ThreadPoolProofs`** (`PoolAssumption`: at least one slot and one task, `Nobody` and
`Destroyed` are no threads). `TypeCorrect`, `FoundTaskStaysHolds`, `WaitsTrackTasksHolds`,
`RunsOnceHolds`, `AwaitedHasRunHolds`, `QuietAtCloseHolds`, and `Refinement` (the pool
implements `TaskPool`). None of the properties is inductive. The inductive invariant
`IInv` follows a task on its way: a task in the table sits in the slot it was given, with
that slot's mutex locked (`TableInv`); a task in the hands of a worker has left an empty
slot whose mutex is still locked (`CarryInv`), so `AddStore` cannot reuse the slot until
the task is done and no two workers carry tasks of one slot (`OneCarrier`); a known task
has run or is in one of these places (`NoneLost`); a locked mutex has a reason
(`LockedInv`); what was waited for has run (`AwaitedInv`, `WaitInv`). Mutual exclusion by
`mtx` (`MtxInv`) is what keeps a found task in its slot (`FoundInv`). One lemma covers all
the steps that move no task; the others have a lemma each. The refinement maps a task to
its status; `AddStore`, `PopTask`, `Execute` and `WaitLock` are the steps of `TaskPool`, and
all others stutter.

**`SlowCatProofs`** (`BucketAssumption`: positive rates and requests; `CatAssumption`: a buffer of at
least one byte). Of the library under any caller: `NoDanglingJobHolds`, `NeverOverdrawsHolds`,
`FetchGivesTokensHolds` (an action property). The point of the invariant is `LoadedInv`: since the
handler only adds, a value loaded earlier is never more than what the bucket holds now, so what is
stored later is backed by tokens. Of slow_cat on top of it: `PrintsFileHolds`, `RateLimitedHolds`, and
`CatKeepsBuckets` and `CatFetchGivesTokens`, which carry the library's properties over to the
composition. `ControlInv` ties the place in main to the place inside the library; `OrderInv` says
that `buf` continues what was written; `AccountInv` that main holds a token for every byte it has
written or may write without asking for more, at every access inside a fetch or a return that the
handler can separate. A step of the library is one of `TokenBucket`'s, so its invariant is reused and
only the three conjuncts of slow_cat are new.

**`CounterProofs`, locked counters** (`CounterAssumption`: finitely many workers). `LockedTypeCorrect`,
`ExclusiveHolds`, `CountsAllHolds` and `Refinement` (to `SharedCounter`), all without a further
assumption. `LockInv` says that a worker inside holds the lock, `AddedInv` that a worker before its
store has not added and when one that is past it has, `CountInv` that while the number is intact the
value a worker has loaded is still current and the count is ahead of its start by the number of
workers that have added (the mutex and the semaphore cannot damage it), and `EndInv` that at the
end, without a failure, all workers have added.

**`SignalProofs`, signal masks** (`RoundsAssumption`). `GuardedNeverKillsHolds` and the action property
`LinesWholeHolds`, for any number of lines, stars and signals. `MaskInv`: SIGINT is blocked inside a
line; `GuardInv`: once the handler is removed, a signal that came under it is pending only if the
inherited mask blocks it, and will then not be delivered.

**`CounterProofs`, flow-control cats** (`FlowAssumption`). `PrintsInOrderHolds`, `FlowRateLimitedHolds`, for any
file, `CPS` and `TOKEN_MAX`. `FlowOrderInv` and `FlowCatInv` follow the bytes through buffer and short
writes. `FlowTokenInv`: a token is there when `token--` begins, and what it has loaded is not more than
what is there when it stores, so it never wraps. `FlowAccountInv` counts the alarms that pay for what
was read (`Paid`); in the middle of `token--` these are counted from the loaded value, because an
alarm that comes now is lost by the store.

**`SequentialProofs`, HTTP client** (`HttpAssumption`: responses are sequences of bytes).
`StatusMeansRunHolds`, `BodySavedHolds`, `HeadSkippedHolds`, for responses of any length. The
invariant joins `StatusMeansRun` and `SavedExactly` (what is saved is what follows the first empty
line, without the byte that ends it or a later one: what the loop does, not what it should do) with `BodyMeansEmpty` (`body` is set exactly if an empty line has
ended). `RunStep` and `HasStep` say how the reference definitions change from one position to
the next, and the step follows the cases of the byte; `HeadSkipped` follows because no
position inside a head ends an empty line (`NoEmptyLineBefore`) and its last one does
(`EmptyLineAtEnd`), and `BodySaved` because a body without an empty line has no byte to leave out.

**`SequentialProofs`, disk usage** (`UsageAssumption`). `CountsOnceHolds`, for trees of any size and shape and
any number of changes. The tree is numbered so that a directory comes before what is in it
(`TreeInv`), and an entry that stays lies in a directory that stays (`SteadyInv`). The loops on the
stack are over ever deeper directories, each over entries of its own (`LoopsInv`); so an entry is
before the program in one place at most: in one loop, called, or not listed yet. `Once` says that it
has not been added while it is, `ToCome` that it has been added or is. When the stack is empty the
first entry that stays and has not been added would have to be unlisted, but its directory, which
comes before it, has been added and listed (`AllAdded`, by the least number principle). For
`du_by_glob` a path without a pattern matches only itself: `Matched` is a recursive function, so its
defining equation is proved first, and then that it has one value (`MatchedIs`), by the least
entry that would differ.

**`FileCopyProofs`** (`CopyAssumption`: a buffer and a line number of at least one). `CopiesWantedHolds`,
`OriginalKeptHolds`, for files over any bytes and of any length. `Handled` is the number of bytes of
the source that are done with; a copy is that beginning of the source (`StraightInv`). For
`trunc_ln_10.c`, `LinesInv` says that `line` is the number of the line that the next byte is in, and that
`tmp` is the bytes handled without those of `LINE` (`LinesCut`): nothing cut out while `line` is smaller, one
gap afterwards. At the end of the source this is `WithoutLine`, which is defined by counting, so the
lemmas about the cardinality of the bytes before, in and after a line carry the proof.
`DetourInv` then follows `tmp` back into the file up to a byte 255, and `EofStops`, by the least number
principle, says that a copy which ended there has all of it or has stopped in front of such a byte.

**`SignalProofs`, any timer** (`TimerAssumption`). `FiresOnTimeHolds`, `EntriesHoldJobsHolds`,
`WaitsForItsJobHolds`, for any number of entries and jobs and any seconds. The invariant ties the
table to the jobs in both directions: a pending job is in the entry that is its id, with as many
seconds left as it has not aged (`PendingInv`), and an entry holds a pending job with a live struct,
except for the one that `at_cancel_job` has just freed (`StoredInv`, `CancelInv`). The entry chosen by
`getf_free_pos` stays free until the store although ticks come in between (`AddInv`). Of two jobs with
one id the earlier has ended (`OrderInv`), which gives `WaitInv`: while no later job has the id, a tick
is slept through after the end of the job only if it came between test and `pause`. A tick is a lemma
(`HandleStep`), since it changes every job at once. That no alarm goes off before the handler is
installed (`CaughtInv`) is proved beside it.

**`RelayProofs`** (`RelayAssumption`). `CopiesSourceHolds`, for any number of pairs, bytes and faults and
any buffer. While no write of a pair was short, its destination is behind what was read by exactly
the buffer that is being written (`CopyInv`); what the wait has reported of a source is still so when
the loop comes to it, since nobody else reads it (`ReadyInv`), so a read that returns 0 means the
end. Each step of a pair has a lemma, and `OthersKept` says that it leaves the other pairs alone.

**`MessagesProofs`** (`MessagesAssumption`). `StreamIntactHolds`, `RecordsWholeHolds`, `NeverBackwardsHolds`,
for messages of any length, any room in the channel and any number of faults. One conjunct of the
invariant for each kind of channel. `StreamInv`: the cells on their way follow those received; while
no read was short, what was received is whole messages and the buffer is the last of them.
`DatagramInv`: what is on its way was sent. `QueueInv`: the messages in the queue follow those
received. This is not inductive by itself, since a queue can be removed and another one created
under the key: only the process that comes second creates the second queue, the first one is not in
it, so the queue that the receiver is in is in order or stays empty. `MemoryInv`: every cell of the
memory is of the last whole message or of the next, the buffer is never ahead of the memory and the
last print never ahead of the buffer; this is why a cell that is loaded later can be at most one
message behind. `PrintInv`: what was printed last is the buffer.

## What is only model-checked

Liveness (`EveryTaskRuns`, `Terminates`, `FetchReturns`, `Finishes`, `MainEnds`, `WaitReturns`, `EndsAlone`,
`SignalStartsLine`, `EndsWithPeer`, `Ends`) is out of reach of the proof system and stays with TLC.
`FileCopy` has no liveness property. Nothing else is left to TLC alone: no invariant and no action
property of a run is without a theorem. What a run adds to these is a check of the model itself: that
its actions happen, and that the property fails when a step is changed.

Seen while modelling, without a run of its own:

- Locks and signals: `flock.c` counts wrongly when `buf` happens to hold digits behind the number
  (`adio/flock.c:44`) and when its unchecked `write` fails or ends early (`adio/flock.c:55`); `CountsAll`
  excludes only these. A SIGALRM of another process makes tokens, though `README.md:800` says
  of flow control that it should not respond to it (`RateLimited` excludes only this and a short
  write). `thread_pool.c` and `mutex.c` do not see that a thread was not created. `mytbf_load` starts
  the alarm before it installs the handler. The handler of the token bucket adds `cps` without
  looking at `burst`, which `signal/mytbf.h:5` calls "the upper bound of token". A job with `sec = 0`
  never fires. `at_wait` with the id of a job that has fired waits for the job that has the entry
  now (`signal/anytimer.c:88`; `WaitsForItsJob` excludes only this case). `cat.c` sleeps for ever after
  an alarm that comes before its `pause`. The worker of `thread/cancel.c` disables cancellation, so
  that main waits for it for ever.
- Short calls: `slow_cat.c` continues a short write with the full length. The relays count `off` and do
  not use it (`adio/select.c:163`; `CopiesSource` excludes only this case); a `write` of theirs that
  returns -1 moves `off` back. `poll.c` stops after 20 turns with data left, and writes 2n entries into
  a table of n; a FIFO that hangs up with data left is an error for `epoll.c`, which registers
  `EPOLLOUT` and tests `EPOLLIN`, so that it never writes.
- Messages: the search for the empty line goes on in the body of an HTTP response, and a
  newline is lost from a body that starts with one or holds an empty line, though
  `socket/http_client.c:67` says "body is after \r\n\r\n" (`BodySaved` excludes only this). The TCP server prints mixtures after a
  short read. The reader of `pipe.c` does not look for the end of the file and spins when the writer has
  gone. A process of `msg.c` that asks for the queue after the other has removed it creates another
  and waits in it for ever.
- Files: `stdio/mycpy.c` and `trunc_ln_10.c` stop at a byte 255, though `stdio/mycpy.c:2` says "copy file
  from source to destination" (`CopiesWanted` names this as its exception, `StoppedAtFF`). An error of `fgetc` or `fread` looks
  like the end of the file. A kill of `trunc_ln_10.c` after its `fopen(argv[1], "w")` loses what was
  not copied back. `du.c` uses `glob` when `DU_BY_GLOB` is set to anything but 1, and a directory
  whose name is a pattern is then counted with what it matches.

## What is not modelled

| part | code | why |
|---|---|---|
| timeout loop | `signal/timeout.c` | a flag set by the handler ends a loop: nothing can be ordered otherwise |
| signal examples | `signal/sig.c`, `alarm.c`, `pause.c`, `sigaction.c` | one call each; `sigaction.c` is the handler of the token bucket with a test of the sender |
| memory-mapped file | `adio/mmap.c` | prints a file: one loop |
| prime workers | `thread/prime.c`, `ps/prime.c` | one worker per number, no shared state that changes |
| thread life cycle | `thread/create.c`, `cancel.c`, `clean.c` | show what the thread library does, which a model would assume |
| processes, sessions | other `ps/*.c`, `terminal/*.c` | one call each: the model would consist of the system call |
| descriptors | `fileio/dup*.c`, `ab.c` | straight-line programs |
| stdio examples | other `stdio/*.c` | sequential printing |
| file system tools | other `fs/*.c` | format the result of one call |
| build, notes | `makefile`, `package.json`, `README.md` | no behaviour of the programs |

Within the modelled parts, printing and the parsing of arguments are left out, as are the
unit in which `du.c` prints its sum, `mytbf_unload` and `my_sleep` of the relays (never called). The
arithmetic of the tasks of the pool is reduced to the fact that they ran. What lies behind
the table of `poll.c` is assumed to be memory that nobody else uses. Addresses, socket
options and the wording of messages are abstracted in `Messages`, and `SIGPIPE` of a TCP sender comes
at its first write after the end of the receiver instead of its second. Nothing is said about
a relay's destination after a short write, or about slow_cat after one.

## Running it

    tlc -config MCThreadPool.cfg MCThreadPool
    tlapm ThreadPoolProofs.tla

and likewise for the others; `PROJECT.json` lists every run with its module and
configuration, the code lines behind each definition, and the hazards they are aimed at.
