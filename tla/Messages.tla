------------------------------ MODULE Messages ------------------------------
(***************************************************************************)
(* The programs with one sender and one receiver: socket/socket_tcp.c      *)
(* ("tcp"), socket/socket_udp.c ("udp"), socket/udp_echo.c ("echo"),       *)
(* ipc/pipe.c ("pipe"), ipc/msg.c ("msg"), ipc/shm.c ("shm") and           *)
(* adio/mmap_share.c ("mmap").  The sender repeats a message for ever, the *)
(* receiver prints what its buffer holds after every call; they differ in  *)
(* what lies between them.                                                 *)
(*                                                                         *)
(* A message is CELLS cells long (a cell stands for some bytes), and the   *)
(* cells of all messages are numbered through in the order in which they   *)
(* are sent, so that a cell tells its message and its place in it.  Cell 0 *)
(* is memory nobody has written.  What lies behind a message in a buffer,  *)
(* and the second between two messages, are left out.                      *)
(***************************************************************************)
EXTENDS Integers, Sequences

CONSTANTS
  Programs,     \* the programs to consider
  CELLS,        \* cells of a message
  Room,         \* messages a socket, pipe or queue holds
  Old,          \* messages an earlier run may have left under the same key
  MaxSent,      \* bound: messages sent
  MaxFaults,    \* bound: calls that fail, processes that are killed
  MaxPrints     \* bound: records printed by the receivers that never end

ASSUME MessagesAssumption ==
  /\ Programs \subseteq {"tcp", "udp", "echo", "pipe", "msg", "shm", "mmap"}
  /\ CELLS \in Nat \ {0} /\ Room \in Nat \ {0} /\ Old \in {0, 1}
  /\ MaxSent \in Nat /\ Old <= MaxSent /\ MaxFaults \in Nat /\ MaxPrints \in Nat

VARIABLES
  program,
  pc,           \* where the sender "snd" and the receiver "rcv" are
  key,          \* msg: the queue under the key, 0 if none; tcp: 1 once connected
  at,           \* msg: the queue each process has got the id of, 0 if none
  chan,         \* cells (tcp, pipe), messages (udp, echo, msg), the memory (shm, mmap)
  sent,         \* messages sent, those of an earlier run included
  wi, ri,       \* shm, mmap: the cell to be stored next, to be loaded next
  buf,          \* the receiver's buffer
  got,          \* history: the cells received from a stream or a queue
  printed,      \* the records printed
  faults,       \* history: calls failed, processes killed
  short         \* history: a read gave a part of a message (tcp, pipe)

vars == <<program, pc, key, at, chan, sent, wi, ri, buf, got, printed, faults, short>>

Proc == {"snd", "rcv"}
Other(p) == IF p = "snd" THEN "rcv" ELSE "snd"
Ended(p) == pc[p] \in {"done", "failed", "killed"}

Stream == program \in {"tcp", "pipe"}
Datagrams == program \in {"udp", "echo"}
Memory == program \in {"shm", "mmap"}

Message(n) == [i \in 1 .. CELLS |-> (n - 1) * CELLS + i]
Unset == [i \in 1 .. CELLS |-> 0]

\* The queue and the segment of System V IPC outlive the processes: an earlier
\* run may have left a message in them.
Init ==
  /\ program \in Programs
  /\ pc = [p \in Proc |-> "setup"]
  /\ sent \in (IF program \in {"msg", "shm"} THEN {0, Old} ELSE {0})
  /\ key = IF program = "msg" /\ sent > 0 THEN 1 ELSE 0
  /\ at = [p \in Proc |-> 0]
  /\ chan = IF Memory THEN IF sent > 0 THEN Message(1) ELSE Unset
            ELSE IF sent > 0 THEN <<Message(1)>> ELSE <<>>
  /\ wi = 1 /\ ri = 1
  /\ buf = Unset /\ got = <<>> /\ printed = <<>>
  /\ faults = 0 /\ short = FALSE

TypeOK ==
  /\ program \in Programs
  /\ pc \in [Proc -> {"setup", "accept", "send", "recv", "remove", "done", "failed", "killed"}]
  /\ key \in 0 .. 2 /\ at \in [Proc -> 0 .. 2]
  /\ sent \in 0 .. MaxSent /\ wi \in 1 .. CELLS /\ ri \in 1 .. CELLS
  /\ buf \in [1 .. CELLS -> 0 .. MaxSent * CELLS]
  /\ faults \in 0 .. MaxFaults /\ short \in BOOLEAN

Fault == faults < MaxFaults /\ faults' = faults + 1
Go(p, to) == pc' = [pc EXCEPT ![p] = to]
recvVars == <<buf, got, printed, short>>

-----------------------------------------------------------------------------
(* Faulty variants of single steps, used by no specification. *)

\* The rest of a message that was not asked for is dropped, as with datagrams.
TakeDrops(k) == chan' = SubSeq(chan, ((k + CELLS - 1) \div CELLS) * CELLS + 1, Len(chan))

\* The newest message is received first.
ReceiveQueueLast ==
  /\ program = "msg" /\ pc["rcv"] = "recv" /\ at["rcv"] = key /\ chan # <<>>
  /\ chan' = SubSeq(chan, 1, Len(chan) - 1)
  /\ buf' = chan[Len(chan)] /\ got' = got \o buf' /\ printed' = Append(printed, buf')
  /\ UNCHANGED <<program, pc, key, at, sent, wi, ri, faults, short>>

\* The last cell is kept in a register after the first print.
LoadCellCached ==
  /\ Memory /\ pc["rcv"] = "recv" /\ Len(printed) < MaxPrints
  /\ buf' = IF ri = CELLS /\ printed # <<>> THEN buf ELSE [buf EXCEPT ![ri] = chan[ri]]
  /\ ri' = IF ri = CELLS THEN 1 ELSE ri + 1
  /\ printed' = IF ri = CELLS THEN Append(printed, buf') ELSE printed
  /\ UNCHANGED <<program, pc, key, at, chan, sent, wi, got, faults, short>>

\* A read that returns 0 is not told from one that gave something.
StreamEndIgnored ==
  /\ program = "tcp" /\ pc["rcv"] = "recv" /\ chan = <<>> /\ Ended("snd")
  /\ Len(printed) < MaxPrints
  /\ printed' = Append(printed, buf)
  /\ UNCHANGED <<program, pc, key, at, chan, sent, wi, ri, buf, got, faults, short>>

-----------------------------------------------------------------------------
(* Setting up *)

setupUnchanged == UNCHANGED <<program, chan, sent, wi, ri, recvVars>>

\* socket_tcp.c: socket, bind and listen.
Listen ==
  /\ program = "tcp" /\ pc["rcv"] = "setup"
  /\ Go("rcv", "accept")
  /\ UNCHANGED <<key, at, faults>> /\ setupUnchanged

\* The kernel completes the connection of a listening socket before accept().
Connect ==
  /\ program = "tcp" /\ pc["snd"] = "setup" /\ pc["rcv"] = "accept"
  /\ key' = 1 /\ Go("snd", "send")
  /\ UNCHANGED <<at, faults>> /\ setupUnchanged

Accept ==
  /\ program = "tcp" /\ pc["rcv"] = "accept" /\ key = 1
  /\ Go("rcv", "recv")
  /\ UNCHANGED <<key, at, faults>> /\ setupUnchanged

\* socket_udp.c: socket, options (broadcast, multicast) and, for the server, bind.
OpenSocket(p) ==
  /\ program = "udp" /\ pc[p] = "setup"
  /\ Go(p, IF p = "snd" THEN "send" ELSE "recv")
  /\ UNCHANGED <<key, at, faults>> /\ setupUnchanged

\* pipe() or mmap() and then fork(); socket(), bind() and then pthread_create(),
\* whose failure goes unnoticed.
Start ==
  /\ program \in {"pipe", "mmap", "echo"} /\ pc["snd"] = "setup"
  /\ \/ pc' = [snd |-> "send", rcv |-> "recv"] /\ UNCHANGED faults
     \/ program = "echo" /\ Fault /\ pc' = [snd |-> "failed", rcv |-> "recv"]
  /\ pc["rcv"] = "setup"
  /\ UNCHANGED <<key, at>> /\ setupUnchanged

\* create_mq and create_shm: what is under the key, or else a new one.
Attach(p) ==
  /\ program \in {"msg", "shm"} /\ pc[p] = "setup"
  /\ Go(p, IF p = "snd" THEN "send" ELSE "recv")
  /\ IF program = "shm" THEN UNCHANGED <<key, at>>
     ELSE /\ key' = IF key > 0 THEN key ELSE at[Other(p)] + 1
          /\ at' = [at EXCEPT ![p] = key']
  /\ UNCHANGED faults /\ setupUnchanged

\* A call of the set-up fails (connect() also when nobody listens): exit(1), before
\* the fork of both processes.
SetupFails(p) ==
  /\ pc[p] \in {"setup", "accept"} /\ Fault
  /\ \/ program \in {"tcp", "udp", "msg", "shm"} /\ Go(p, "failed")
     \/ /\ program \in {"pipe", "mmap", "echo", "msg"} /\ pc[Other(p)] = "setup"
        /\ pc' = [q \in Proc |-> "failed"]
  /\ UNCHANGED <<key, at>> /\ setupUnchanged

-----------------------------------------------------------------------------
(* The sender's loop *)

Sending == pc["snd"] = "send" /\ sent < MaxSent
sendUnchanged == UNCHANGED <<program, key, at, ri, recvVars>>

\* write() blocks until the whole message has found room.
SendStream ==
  /\ Stream /\ Sending /\ ~Ended("rcv")
  /\ Len(chan) + CELLS <= Room * CELLS
  /\ chan' = chan \o Message(sent + 1) /\ sent' = sent + 1
  /\ UNCHANGED <<pc, wi, faults>> /\ sendUnchanged

\* Nobody will read: SIGPIPE ends the sender (for TCP at the second write).
PeerGone ==
  /\ Stream /\ pc["snd"] = "send" /\ Ended("rcv")
  /\ Go("snd", "killed")
  /\ UNCHANGED <<chan, sent, wi, faults>> /\ sendUnchanged

\* A datagram for which there is no socket or no room is dropped.
SendDatagram ==
  /\ Datagrams /\ Sending
  /\ chan' = IF pc["rcv"] = "recv" /\ Len(chan) < Room
               THEN Append(chan, Message(sent + 1)) ELSE chan
  /\ sent' = sent + 1
  /\ UNCHANGED <<pc, wi, faults>> /\ sendUnchanged

SendQueue ==
  /\ program = "msg" /\ Sending
  /\ at["snd"] = key /\ Len(chan) < Room
  /\ chan' = Append(chan, Message(sent + 1)) /\ sent' = sent + 1
  /\ UNCHANGED <<pc, wi, faults>> /\ sendUnchanged

\* snprintf stores the text cell by cell into memory that the receiver reads.
StoreCell ==
  /\ Memory /\ Sending
  /\ chan' = [chan EXCEPT ![wi] = Message(sent + 1)[wi]]
  /\ wi' = IF wi = CELLS THEN 1 ELSE wi + 1
  /\ sent' = IF wi = CELLS THEN sent + 1 ELSE sent
  /\ UNCHANGED <<pc, faults>> /\ sendUnchanged

\* exit(1), or break in msg.c; pipe.c and udp_echo.c do not look at the result.
SendFails ==
  /\ pc["snd"] = "send" /\ Fault
  /\ program \in {"tcp", "udp", "msg"}
  /\ Go("snd", IF program = "msg" THEN "remove" ELSE "failed")
  /\ UNCHANGED <<chan, sent, wi>> /\ sendUnchanged

-----------------------------------------------------------------------------
(* The receiver's loop *)

Receiving == pc["rcv"] = "recv"
recvUnchanged == UNCHANGED <<program, key, at, sent, wi>>

\* The first cells of a stream leave it.
Take(k) == chan' = SubSeq(chan, k + 1, Len(chan))

\* read() gives what has arrived, at most what the buffer holds.  socket_tcp.c
\* prints the whole struct, pipe.c writes what it has got.
ReceiveStream ==
  /\ Stream /\ Receiving
  /\ \E k \in 1 .. CELLS :
       /\ k <= Len(chan)
       /\ Take(k)
       /\ buf' = [i \in 1 .. CELLS |-> IF i <= k THEN chan[i] ELSE buf[i]]
       /\ got' = got \o SubSeq(chan, 1, k)
       /\ short' = (short \/ k < CELLS)
  /\ printed' = IF program = "tcp" THEN Append(printed, buf') ELSE printed
  /\ UNCHANGED <<pc, ri, faults>> /\ recvUnchanged

\* socket_tcp.c prints before it looks at the 0 that read() has returned.  (pipe.c
\* does not look at it: it reads and writes nothing for ever, which changes nothing.)
StreamEnd ==
  /\ program = "tcp" /\ Receiving /\ chan = <<>> /\ Ended("snd")
  /\ printed' = Append(printed, buf)
  /\ Go("rcv", "done")
  /\ UNCHANGED <<chan, ri, buf, got, faults, short>> /\ recvUnchanged

\* Datagram i is on its way no longer.
Leaves(i) == chan' = SubSeq(chan, 1, i - 1) \o SubSeq(chan, i + 1, Len(chan))

\* Datagrams of a network may overtake each other and arrive twice; the loopback
\* of udp_echo.c keeps the order.
ReceiveDatagram ==
  /\ Datagrams /\ Receiving /\ Len(printed) < MaxPrints
  /\ \E i \in DOMAIN chan :
       /\ program = "echo" => i = 1
       /\ buf' = chan[i] /\ printed' = Append(printed, chan[i])
       /\ \/ Leaves(i)
          \/ program = "udp" /\ chan' = chan
  /\ UNCHANGED <<pc, ri, got, faults, short>> /\ recvUnchanged

Lose ==
  /\ program = "udp"
  /\ \E i \in DOMAIN chan : Leaves(i)
  /\ UNCHANGED <<program, pc, key, at, sent, wi, ri, recvVars, faults>>

ReceiveQueue ==
  /\ program = "msg" /\ Receiving /\ at["rcv"] = key /\ chan # <<>>
  /\ chan' = Tail(chan)
  /\ buf' = Head(chan) /\ got' = got \o Head(chan) /\ printed' = Append(printed, Head(chan))
  /\ UNCHANGED <<pc, ri, faults, short>> /\ recvUnchanged

\* printf("%s", mem) reads the memory cell by cell.
LoadCell ==
  /\ Memory /\ Receiving /\ Len(printed) < MaxPrints
  /\ buf' = [buf EXCEPT ![ri] = chan[ri]]
  /\ ri' = IF ri = CELLS THEN 1 ELSE ri + 1
  /\ printed' = IF ri = CELLS THEN Append(printed, buf') ELSE printed
  /\ UNCHANGED <<pc, chan, got, faults, short>> /\ recvUnchanged

\* The sockets' servers do not look for errors and print what the buffer held
\* before; pipe.c and msg.c leave the loop.
ReceiveFails ==
  /\ Receiving /\ ~Memory /\ Fault
  /\ IF program \in {"tcp", "udp", "echo"}
       THEN printed' = Append(printed, buf) /\ UNCHANGED pc
       ELSE UNCHANGED printed /\ Go("rcv", IF program = "msg" THEN "remove" ELSE "done")
  /\ UNCHANGED <<chan, ri, buf, got, short>> /\ recvUnchanged

-----------------------------------------------------------------------------
(* The end of a message queue, and of a process *)

\* msgsnd and msgrcv fail once the queue is removed, also when they wait in it.
QueueGone(p) ==
  /\ program = "msg" /\ pc[p] \in {"send", "recv"} /\ at[p] # key
  /\ Go(p, "remove")
  /\ UNCHANGED <<program, key, at, chan, sent, wi, ri, recvVars, faults>>

\* msgctl(mq, IPC_RMID), which fails if the queue is gone, and exit(0).
RemoveQueue(p) ==
  /\ program = "msg" /\ pc[p] = "remove"
  /\ IF at[p] = key THEN key' = 0 /\ chan' = <<>> ELSE UNCHANGED <<key, chan>>
  /\ Go(p, "done")
  /\ UNCHANGED <<program, at, sent, wi, ri, recvVars, faults>>

\* A signal ends one of two processes; nothing is cleaned up.
Kill(p) ==
  /\ program # "echo" /\ ~Ended(p) /\ pc[p] # "setup" /\ Fault
  /\ Go(p, "killed")
  /\ UNCHANGED <<program, key, at, chan, sent, wi, ri, recvVars>>

-----------------------------------------------------------------------------
SenderStep ==
  \/ Connect \/ OpenSocket("snd") \/ Attach("snd") \/ SendStream \/ PeerGone \/ SendDatagram
  \/ SendQueue \/ StoreCell \/ QueueGone("snd") \/ RemoveQueue("snd")

ReceiverStep ==
  \/ Listen \/ Accept \/ OpenSocket("rcv") \/ Start \/ Attach("rcv") \/ ReceiveStream \/ StreamEnd
  \/ ReceiveDatagram \/ ReceiveQueue \/ LoadCell \/ QueueGone("rcv") \/ RemoveQueue("rcv")

Failure == SendFails \/ ReceiveFails \/ Lose \/ \E p \in Proc : SetupFails(p) \/ Kill(p)

Next == SenderStep \/ ReceiverStep \/ Failure

Spec == Init /\ [][Next]_vars

\* Both processes run; no call need fail.
FairSpec == Spec /\ WF_vars(SenderStep) /\ WF_vars(ReceiverStep)

-----------------------------------------------------------------------------
(* Properties *)

\* What comes out of a TCP connection, a pipe or a message queue is what went in,
\* from the first cell on, without a gap, a repetition or an exchange: however
\* read() cuts the stream, and although the queue may hold messages of an earlier
\* run and be removed and created again between the two processes' msgget.  The TCP
\* server that ends by itself has got everything.
StreamIntact ==
  /\ TypeOK
  /\ got = [k \in 1 .. Len(got) |-> k]
  /\ program = "tcp" /\ pc["rcv"] = "done" => Len(got) = sent * CELLS

\* The record printed after record r, when messages come in order.
Follows(r, next) == next = r \/ next[1] = r[CELLS] + 1

\* A receiver that takes fixed-size messages prints whole ones: as long as TCP
\* gives no part of one, every record printed is one message that was sent, never
\* a mixture, though failed receives and the end of the connection print the
\* buffer again; only when the first receives fail is it an unset buffer.  Over
\* TCP and the queue they are in order, and none is left out.
RecordsWhole ==
  program \in {"tcp", "udp", "echo", "msg"} /\ ~short =>
    \A k \in DOMAIN printed :
      /\ \/ \E n \in 1 .. sent : printed[k] = Message(n)
         \/ \A j \in 1 .. k : printed[j] = Unset
      /\ program \in {"tcp", "msg"} =>
           Follows(IF k = 1 THEN Unset ELSE printed[k - 1], printed[k])

\* The message a cell belongs to.
Version(c) == (c + CELLS - 1) \div CELLS

\* Without any lock, the text in shared memory can be printed while it is being
\* replaced.  Still no cell of it is more than one message behind the cells before
\* it, and no later print shows an older cell than an earlier one.
NeverBackwards ==
  Memory => \A k \in DOMAIN printed : \A i \in 1 .. CELLS :
    /\ \A j \in 1 .. i : Version(printed[k][i]) >= Version(printed[k][j]) - 1
    /\ k > 1 => printed[k][i] >= printed[k - 1][i]

\* The other process will notice that p has ended: over an established connection,
\* as the writer of a pipe without reader, or in the queue that p has removed.
Noticed(p) ==
  \/ program = "tcp" /\ key = 1
  \/ program = "pipe" /\ p = "rcv"
  \/ program = "msg" /\ pc[p] = "done" /\ at[p] = at[Other(p)]

\* One process does not stay behind alone where the code provides for it: when the
\* TCP client ends the server does too, the writer of a connection or pipe ends
\* after its reader, and whoever leaves the loop of msg.c takes the other along by
\* removing the queue they share.
EndsWithPeer ==
  \A p \in Proc : (Ended(p) /\ Noticed(p)) ~> Ended(Other(p))
=============================================================================
