--------------------------- MODULE MessagesProofs ---------------------------
(***************************************************************************)
(* Proofs about Messages: for messages of any length, channels of any size *)
(* and any number of failing calls, lost datagrams and kills, what the     *)
(* receivers of the seven programs get and print.                          *)
(***************************************************************************)
EXTENDS Messages, TLAPS

Record == [1 .. CELLS -> Nat]
PC == {"setup", "accept", "send", "recv", "remove", "done", "failed", "killed"}

\* s consists of the cells after cell a.
From(a, s) == s \in Seq(Nat) /\ \A k \in 1 .. Len(s) : s[k] = a + k

Typed ==
  /\ TypeOK
  /\ printed \in Seq(Record)
  /\ From(0, got)

\* The first m messages have been received, each by one call.
Received(m) ==
  Len(got) = m * CELLS /\ buf = IF m = 0 THEN Unset ELSE Message(m)

\* TCP and pipe: the cells on their way follow those received.
StreamInv ==
  Stream =>
    /\ From(Len(got), chan)
    /\ Len(got) + Len(chan) = sent * CELLS
    /\ program = "tcp" /\ pc["rcv"] = "done" => chan = <<>> /\ Ended("snd")
    /\ program = "tcp" /\ ~short => \E m \in 0 .. sent : Received(m)

\* UDP: what is on its way was sent.
DatagramInv == Datagrams => chan \in Seq({Message(n) : n \in 1 .. sent})

\* The messages in the queue follow those received.
InOrder ==
  \E m \in 0 .. sent : /\ Received(m) /\ Len(chan) = sent - m
                       /\ \A k \in 1 .. Len(chan) : chan[k] = Message(m + k)

\* Message queue.  A second queue is made only by the process that comes after the
\* other has removed the first, and the other is not in it: whatever the receiver
\* can reach is in order, or will never hold anything.
QueueInv ==
  program = "msg" =>
    /\ chan \in Seq(Record)
    /\ \A p \in Proc : /\ pc[p] = "setup" => at[p] = 0
                       /\ pc[p] \in {"send", "recv", "remove"} => at[p] > 0
                       /\ at[p] = 2 => at[Other(p)] = 1
                       /\ key = 2 => at[p] > 0
    /\ at["rcv"] = 0 => Received(0)
    /\ key = 0 => chan = <<>>
    /\ key = 0 /\ (\A p \in Proc : at[p] = 0) => sent = 0
    /\ key > 0 /\ at["rcv"] \in {0, key} => InOrder \/ (chan = <<>> /\ at["snd"] \notin {0, key})

\* Shared memory: the first wi - 1 cells are those of the next message.
MemoryInv ==
  Memory =>
    /\ chan \in Record
    /\ \A k \in 1 .. CELLS : chan[k] = IF k < wi THEN Message(sent + 1)[k]
                                      ELSE IF sent = 0 THEN 0 ELSE Message(sent)[k]
    /\ wi > 1 => sent < MaxSent
    /\ \A k \in 1 .. CELLS : /\ buf[k] <= chan[k] /\ Version(buf[k]) <= sent + 1
                             /\ printed # <<>> => printed[Len(printed)][k] <= buf[k]
    /\ \A k \in 1 .. ri - 1 : \A j \in 1 .. k : Version(buf[k]) >= Version(buf[j]) - 1
    /\ NeverBackwards

\* What is printed is the buffer, and the buffer is unset or a message.
PrintInv ==
  program \in {"tcp", "udp", "echo", "msg"} /\ ~short =>
    /\ buf = Unset \/ \E n \in 1 .. sent : buf = Message(n)
    /\ buf = IF printed = <<>> THEN Unset ELSE printed[Len(printed)]
    /\ buf = Unset => \A k \in 1 .. Len(printed) : printed[k] = Unset
    /\ RecordsWhole

IInv == Typed /\ StreamInv /\ DatagramInv /\ QueueInv /\ MemoryInv /\ PrintInv

-----------------------------------------------------------------------------
(* Cells and messages *)

LEMMA Cells ==
  ASSUME NEW n \in Nat
  PROVE  n * CELLS \in Nat /\ (n + 1) * CELLS = n * CELLS + CELLS
  BY MessagesAssumption

LEMMA CellsMono ==
  ASSUME NEW m \in Nat, NEW n \in Nat, m <= n
  PROVE  m * CELLS <= n * CELLS
  BY MessagesAssumption

\* Message n + 1 consists of the cells after those of n messages.
LEMMA NextMessage ==
  ASSUME NEW n \in Nat
  PROVE  /\ Message(n + 1) \in Record /\ Message(n + 1) \in Seq(Nat)
         /\ Len(Message(n + 1)) = CELLS
         /\ \A i \in 1 .. CELLS : Message(n + 1)[i] = n * CELLS + i
         /\ Message(n + 1) # Unset
<1>1. (n + 1) - 1 = n /\ n * CELLS \in Nat /\ CELLS \in Nat \ {0}
  BY Cells, MessagesAssumption
<1>2. Message(n + 1) = [i \in 1 .. CELLS |-> n * CELLS + i]
  BY <1>1 DEF Message
<1> HIDE DEF Message
<1> DEFINE b == n * CELLS
<1>3. b \in Nat /\ Message(n + 1) = [i \in 1 .. CELLS |-> b + i]
  BY <1>1, <1>2
<1> HIDE DEF b
<1>4. Message(n + 1)[1] # 0 /\ Unset[1] = 0
  BY <1>1, <1>3 DEF Unset
<1>5. Message(n + 1) \in Record
  BY <1>3 DEF Record
<1>6. Message(n + 1) \in Seq(Nat) /\ Len(Message(n + 1)) = CELLS
  BY <1>1, <1>3
<1>7. \A i \in 1 .. CELLS : Message(n + 1)[i] = b + i
  BY <1>3, Zenon
<1> QED
  BY <1>4, <1>5, <1>6, <1>7 DEF b

LEMMA VersionOf ==
  ASSUME NEW n \in Nat, NEW i \in 1 .. CELLS
  PROVE  Version(n * CELLS + i) = n + 1
<1>1. CELLS \in Nat \ {0} /\ n * CELLS \in Nat /\ (n + 1) * CELLS = n * CELLS + CELLS
  BY Cells, MessagesAssumption
<1>2. n * CELLS + i + CELLS - 1 = (n + 1) * CELLS + (i - 1)
  BY <1>1
<1>3. ((n + 1) * CELLS + (i - 1)) \div CELLS = n + 1
  BY <1>1
<1> QED
  BY <1>2, <1>3 DEF Version

LEMMA VersionOfZero == Version(0) = 0
<1>1. CELLS \in Nat \ {0} /\ 0 + CELLS - 1 = CELLS - 1
  BY MessagesAssumption
<1>2. (CELLS - 1) \div CELLS = 0
  BY <1>1
<1> QED
  BY <1>1, <1>2 DEF Version

-----------------------------------------------------------------------------
(* Runs of consecutive cells *)

LEMMA Joined ==
  ASSUME NEW a \in Nat, NEW s, NEW t, From(a, s), From(a + Len(s), t)
  PROVE  From(a, s \o t) /\ Len(s \o t) = Len(s) + Len(t)
<1>1. s \in Seq(Nat) /\ t \in Seq(Nat) /\ Len(s) \in Nat /\ Len(t) \in Nat
  BY DEF From
<1>2. /\ s \o t \in Seq(Nat) /\ Len(s \o t) = Len(s) + Len(t)
      /\ \A i \in 1 .. Len(s) + Len(t) : (s \o t)[i] = IF i <= Len(s) THEN s[i] ELSE t[i - Len(s)]
  BY <1>1
<1>3. ASSUME NEW k \in 1 .. Len(s) + Len(t) PROVE (s \o t)[k] = a + k
  <2>1. CASE k <= Len(s)
    BY <2>1, <1>1, <1>2 DEF From
  <2>2. CASE k > Len(s)
    <3>1. k - Len(s) \in 1 .. Len(t) /\ (s \o t)[k] = t[k - Len(s)]
      BY <2>2, <1>1, <1>2
    <3>2. t[k - Len(s)] = a + Len(s) + (k - Len(s))
      BY <3>1 DEF From
    <3> QED
      BY <3>1, <3>2, <1>1
  <2> QED
    BY <2>1, <2>2, <1>1
<1> QED
  BY <1>2, <1>3 DEF From

LEMMA Split ==
  ASSUME NEW a \in Nat, NEW s, From(a, s), NEW k \in 0 .. Len(s)
  PROVE  /\ From(a, SubSeq(s, 1, k)) /\ Len(SubSeq(s, 1, k)) = k
         /\ From(a + k, SubSeq(s, k + 1, Len(s))) /\ Len(SubSeq(s, k + 1, Len(s))) = Len(s) - k
<1>1. s \in Seq(Nat) /\ Len(s) \in Nat /\ k \in Nat /\ \A i \in 1 .. Len(s) : s[i] \in Nat
  BY DEF From
<1>2. /\ SubSeq(s, 1, k) \in Seq(Nat) /\ Len(SubSeq(s, 1, k)) = k
      /\ \A i \in 1 .. k : SubSeq(s, 1, k)[i] = s[i]
  BY <1>1
<1>3. /\ SubSeq(s, k + 1, Len(s)) \in Seq(Nat) /\ Len(SubSeq(s, k + 1, Len(s))) = Len(s) - k
      /\ \A i \in 1 .. Len(s) - k : SubSeq(s, k + 1, Len(s))[i] = s[k + i]
  BY <1>1
<1>4. \A i \in 1 .. k : s[i] = a + i
  BY <1>1 DEF From
<1>5. \A i \in 1 .. Len(s) - k : s[k + i] = a + k + i
  BY <1>1 DEF From
<1> QED
  BY <1>2, <1>3, <1>4, <1>5, Zenon DEF From

LEMMA LastCell ==
  ASSUME NEW n \in Nat \ {0}
  PROVE  Message(n) \in Record /\ Message(n)[CELLS] = n * CELLS /\ Message(n) # Unset
<1>1. PICK m \in Nat : n = m + 1
  <2>1. n - 1 \in Nat /\ n = (n - 1) + 1
    OBVIOUS
  <2> QED
    BY <2>1
<1>2. CELLS \in 1 .. CELLS
  BY MessagesAssumption
<1>3. Message(m + 1)[CELLS] = m * CELLS + CELLS /\ Message(m + 1) \in Record /\ Message(m + 1) # Unset
  BY <1>2, NextMessage, Zenon
<1>4. (m + 1) * CELLS = m * CELLS + CELLS
  BY Cells
<1> QED
  BY <1>1, <1>3, <1>4

\* A message that was sent is in the range of the buffer's cells.
LEMMA MessageTyped ==
  ASSUME NEW n \in Nat \ {0}, n <= MaxSent
  PROVE  Message(n) \in Record /\ Message(n) \in [1 .. CELLS -> 0 .. MaxSent * CELLS]
<1>1. PICK m \in Nat : n = m + 1
  <2>1. n - 1 \in Nat /\ n = (n - 1) + 1
    OBVIOUS
  <2> QED
    BY <2>1
<1>2. /\ MaxSent \in Nat /\ CELLS \in Nat /\ m * CELLS \in Nat /\ MaxSent * CELLS \in Nat
      /\ m * CELLS + CELLS = (m + 1) * CELLS
  BY Cells, MessagesAssumption
<1>3. m * CELLS + CELLS <= MaxSent * CELLS
  BY <1>1, <1>2, CellsMono
<1>4. Message(m + 1) \in Record /\ \A i \in 1 .. CELLS : Message(m + 1)[i] = m * CELLS + i
  BY NextMessage, Zenon
<1>5. \A i \in 1 .. CELLS : m * CELLS + i \in 0 .. MaxSent * CELLS
  BY <1>2, <1>3
<1> QED
  BY <1>1, <1>4, <1>5, Zenon DEF Record

LEMMA SameRecord ==
  ASSUME NEW r \in Record, NEW s \in Record, \A i \in 1 .. CELLS : r[i] = s[i]
  PROVE  r = s
<1>1. r = [i \in 1 .. CELLS |-> r[i]] /\ s = [i \in 1 .. CELLS |-> s[i]]
  BY DEF Record
<1> QED
  BY <1>1, Zenon

LEMMA MessageFrom ==
  ASSUME NEW n \in Nat
  PROVE  From(n * CELLS, Message(n + 1)) /\ Len(Message(n + 1)) = CELLS
  BY NextMessage, Zenon DEF From

-----------------------------------------------------------------------------
(* The initial states *)

LEMMA UnsetIsRecord == Unset \in Record /\ Unset \in [1 .. CELLS -> 0 .. MaxSent * CELLS]
<1>1. 0 \in 0 .. MaxSent * CELLS
  BY Cells, MessagesAssumption
<1> QED
  BY <1>1 DEF Unset, Record

LEMMA InitIInv == Init => IInv
<1> SUFFICES ASSUME Init PROVE IInv
  OBVIOUS
<1>1. sent \in 0 .. MaxSent /\ sent \in {0, 1} /\ CELLS \in Nat \ {0}
  BY MessagesAssumption DEF Init
<1>2. Message(1) \in Record /\ 0 * CELLS = 0 /\ \A k \in 1 .. CELLS : Message(1)[k] = k
  <2>1. 0 * CELLS = 0 /\ \A i \in 1 .. CELLS : (1 - 1) * CELLS + i = i
    BY <1>1
  <2>2. Message(1) = [i \in 1 .. CELLS |-> i]
    BY <2>1, <1>1 DEF Message
  <2> QED
    BY <2>1, <2>2, <1>1 DEF Record
<1>3. Typed
  <2>1. pc \in [Proc -> PC] /\ at \in [Proc -> 0 .. 2]
    BY DEF Init, PC
  <2>4. key \in 0 .. 2
    BY DEF Init
  <2>2. wi \in 1 .. CELLS /\ ri \in 1 .. CELLS /\ faults \in 0 .. MaxFaults
    BY <1>1, MessagesAssumption DEF Init
  <2>5. short \in BOOLEAN
    BY Zenon DEF Init
  <2>3. got = <<>> /\ printed = <<>> /\ buf = Unset /\ program \in Programs
    BY DEF Init
  <2> QED
    BY <2>1, <2>2, <2>3, <2>4, <2>5, <1>1, UnsetIsRecord DEF Typed, TypeOK, PC, From
<1>4. Received(0)
  BY <1>2 DEF Init, Received
<1>5. StreamInv
  <2> SUFFICES ASSUME Stream PROVE StreamInv
    BY DEF StreamInv
  <2>1. chan = <<>> /\ got = <<>> /\ sent = 0 /\ pc["rcv"] = "setup"
    BY DEF Init, Stream, Memory, Proc
  <2> QED
    BY <2>1, <1>2, <1>4 DEF StreamInv, From
<1>6. DatagramInv
  BY DEF Init, DatagramInv, Datagrams, Memory
<1>7. QueueInv
  <2> SUFFICES ASSUME program = "msg" PROVE QueueInv
    BY DEF QueueInv
  <2>1. chan = IF sent > 0 THEN <<Message(1)>> ELSE <<>>
    BY Zenon DEF Init, Memory
  <2>2. chan \in Seq(Record) /\ Len(chan) = sent /\ \A k \in 1 .. Len(chan) : chan[k] = Message(0 + k)
    BY <2>1, <1>1, <1>2
  <2>3. InOrder
    BY <2>2, <1>1, <1>4 DEF InOrder
  <2> QED
    BY <2>1, <2>2, <2>3, <1>1, <1>4 DEF QueueInv, Init, Proc
<1>8. MemoryInv
  <2> SUFFICES ASSUME Memory PROVE MemoryInv
    BY DEF MemoryInv
  <2>1. chan = (IF sent > 0 THEN Message(1) ELSE Unset) /\ buf = Unset /\ printed = <<>> /\ wi = 1 /\ ri = 1
    BY DEF Init
  <2>2. chan \in Record /\ \A k \in 1 .. CELLS : chan[k] = IF sent = 0 THEN 0 ELSE Message(sent)[k]
    BY <2>1, <1>1, <1>2, UnsetIsRecord DEF Unset
  <2>3. \A k \in 1 .. CELLS : buf[k] = 0 /\ Version(buf[k]) = 0
    BY <2>1, VersionOfZero DEF Unset
  <2>4. \A k \in 1 .. CELLS : buf[k] <= chan[k]
    BY <2>2, <2>3 DEF Record
  <2> QED
    BY <2>1, <2>2, <2>3, <2>4, <1>1 DEF MemoryInv, NeverBackwards
<1>9. PrintInv
  BY DEF Init, PrintInv, RecordsWhole
<1> QED
  BY <1>3, <1>5, <1>6, <1>7, <1>8, <1>9 DEF IInv

-----------------------------------------------------------------------------
(* Steps that only move the processes *)

\* A step that leaves the channel and the receiver's data alone.
LEMMA QuietStep ==
  ASSUME IInv, UNCHANGED <<program, key, at, chan, sent, wi, ri, recvVars>>,
         pc' \in [Proc -> PC], faults' \in 0 .. MaxFaults,
         program = "tcp" /\ pc'["rcv"] = "done" => pc["rcv"] = "done",
         Ended("snd") => Ended("snd")',
         \A p \in Proc : /\ pc'[p] = "setup" => pc[p] = "setup"
                         /\ program = "msg" /\ pc'[p] \in {"send", "recv", "remove"} => at[p] > 0
  PROVE  IInv'
<1>1. Typed'
  BY Zenon DEF IInv, Typed, TypeOK, PC, recvVars
<1>2. StreamInv'
  BY DEF IInv, StreamInv, Stream, Received, recvVars
<1>3. DatagramInv'
  BY Zenon DEF IInv, DatagramInv, Datagrams, recvVars
<1>4. QueueInv'
  BY Zenon DEF IInv, QueueInv, InOrder, Received, recvVars
<1>5. MemoryInv'
  BY Zenon DEF IInv, MemoryInv, Memory, NeverBackwards, recvVars
<1>6. PrintInv'
  BY Zenon DEF IInv, PrintInv, RecordsWhole, recvVars
<1> QED
  BY <1>1, <1>2, <1>3, <1>4, <1>5, <1>6, Zenon DEF IInv

LEMMA QuietActions ==
  ASSUME IInv, \/ Listen \/ Accept \/ Start \/ PeerGone \/ SendFails
               \/ \E p \in Proc : \/ OpenSocket(p) \/ SetupFails(p) \/ QueueGone(p) \/ Kill(p)
                                  \/ (Attach(p) /\ program = "shm")
  PROVE  IInv'
<1> USE DEF Fault, Go, setupUnchanged, sendUnchanged, recvVars, Ended, Proc, Other
<1>0. pc \in [Proc -> PC] /\ faults \in 0 .. MaxFaults /\ faults \in Nat /\ MaxFaults \in Nat
  BY MessagesAssumption DEF IInv, Typed, TypeOK, PC
<1>a. \A p \in Proc : program = "msg" /\ pc[p] \in {"send", "recv", "remove"} => at[p] > 0
  BY Zenon DEF IInv, QueueInv
<1>1. CASE Listen
  BY <1>0, <1>a, <1>1, QuietStep, Zenon DEF Listen, PC
<1>2. CASE Accept
  BY <1>0, <1>a, <1>2, QuietStep, Zenon DEF Accept, PC
<1>3. CASE Start
  BY <1>0, <1>a, <1>3, QuietStep DEF Start, PC
<1>4. CASE PeerGone
  BY <1>0, <1>a, <1>4, QuietStep, Zenon DEF PeerGone, Stream, PC
<1>5. CASE SendFails
  BY <1>0, <1>a, <1>5, QuietStep DEF SendFails, PC
<1>6. ASSUME NEW p \in Proc, OpenSocket(p) PROVE IInv'
  BY <1>0, <1>a, <1>6, QuietStep, Zenon DEF OpenSocket, PC
<1>7. ASSUME NEW p \in Proc, SetupFails(p) PROVE IInv'
  BY <1>0, <1>a, <1>7, QuietStep DEF SetupFails, PC
<1>8. ASSUME NEW p \in Proc, QueueGone(p) PROVE IInv'
  BY <1>0, <1>a, <1>8, QuietStep, Zenon DEF QueueGone, PC
<1>9. ASSUME NEW p \in Proc, Kill(p) PROVE IInv'
  BY <1>0, <1>a, <1>9, QuietStep DEF Kill, PC
<1>10. ASSUME NEW p \in Proc, Attach(p), program = "shm" PROVE IInv'
  BY <1>0, <1>a, <1>10, QuietStep, Zenon DEF Attach, PC
<1> QED
  BY <1>1, <1>2, <1>3, <1>4, <1>5, <1>6, <1>7, <1>8, <1>9, <1>10, Zenon

LEMMA ConnectStep ==
  ASSUME IInv, Connect PROVE IInv'
<1> USE DEF Connect, Go, setupUnchanged, recvVars
<1>1. Typed'
  BY DEF IInv, Typed, TypeOK, Proc
<1>2. StreamInv'
  BY Zenon DEF IInv, Typed, TypeOK, StreamInv, Stream, Received, Ended, Proc
<1>3. DatagramInv' /\ QueueInv' /\ MemoryInv'
  BY Zenon DEF DatagramInv, Datagrams, QueueInv, MemoryInv, Memory
<1>4. PrintInv'
  BY Zenon DEF IInv, PrintInv, RecordsWhole
<1> QED
  BY <1>1, <1>2, <1>3, <1>4, Zenon DEF IInv

-----------------------------------------------------------------------------
(* What is printed *)

LEMMA MoreSent ==
  ASSUME IInv, UNCHANGED <<program, buf, printed, short>>, sent' \in Nat, sent <= sent'
  PROVE  PrintInv'
<1>1. sent \in Nat /\ 1 .. sent \subseteq 1 .. sent'
  BY DEF IInv, Typed, TypeOK
<1> QED
  BY <1>1, Zenon DEF IInv, PrintInv, RecordsWhole

\* The buffer is printed, as it was or with another message.
LEMMA PrintStep ==
  ASSUME Typed, PrintInv, program \in {"tcp", "udp", "echo", "msg"}, ~short,
         UNCHANGED <<program, sent, short>>, buf' \in Record, printed' = Append(printed, buf'),
         \/ buf' = buf
         \/ /\ \E n \in 1 .. sent : buf' = Message(n)
            /\ program \in {"tcp", "msg"} => buf'[1] = buf[CELLS] + 1
  PROVE  PrintInv'
<1>1. printed \in Seq(Record) /\ sent \in Nat
  BY DEF Typed, TypeOK
<1>2. /\ Len(printed') = Len(printed) + 1 /\ printed' # <<>> /\ Len(printed) \in Nat
      /\ printed'[Len(printed) + 1] = buf'
      /\ \A k \in 1 .. Len(printed) : printed'[k] = printed[k]
      /\ printed' \in Seq(Record)
  BY <1>1
<1>3. buf = (IF printed = <<>> THEN Unset ELSE printed[Len(printed)])
  BY DEF PrintInv
<1>4. buf' = Unset => buf' = buf
  <2>1. \A n \in 1 .. sent : Message(n) # Unset
    BY <1>1, LastCell
  <2> QED
    BY <2>1
<1>5. buf' = Unset \/ \E n \in 1 .. sent : buf' = Message(n)
  BY DEF PrintInv
<1>6. buf' = Unset => \A k \in 1 .. Len(printed') : printed'[k] = Unset
  BY <1>2, <1>4 DEF PrintInv
<1>7. Follows(buf, buf') \/ program \notin {"tcp", "msg"}
  BY Zenon DEF Follows
<1>8. RecordsWhole'
  <2> SUFFICES ASSUME NEW k \in 1 .. Len(printed')
               PROVE  /\ \/ \E n \in 1 .. sent : printed'[k] = Message(n)
                         \/ \A j \in 1 .. k : printed'[j] = Unset
                      /\ program \in {"tcp", "msg"} =>
                           Follows(IF k = 1 THEN Unset ELSE printed'[k - 1], printed'[k])
    BY <1>2 DEF RecordsWhole, Follows
  <2>1. CASE k \in 1 .. Len(printed)
    <3>1. /\ \/ \E n \in 1 .. sent : printed[k] = Message(n)
             \/ \A j \in 1 .. k : printed[j] = Unset
          /\ program \in {"tcp", "msg"} =>
               Follows(IF k = 1 THEN Unset ELSE printed[k - 1], printed[k])
      <4>1. k \in DOMAIN printed /\ RecordsWhole
        BY <2>1, <1>1 DEF PrintInv
      <4> QED
        BY <4>1, Zenon DEF RecordsWhole
    <3>2. printed'[k] = printed[k] /\ (k # 1 => printed'[k - 1] = printed[k - 1])
      BY <2>1, <1>2
    <3>3. \A j \in 1 .. k : printed'[j] = printed[j]
      BY <2>1, <1>2
    <3> QED
      BY <3>1, <3>2, <3>3, Zenon
  <2>2. CASE k = Len(printed) + 1
    <3>1. printed'[k] = buf'
      BY <2>2, <1>2, Zenon
    <3>2. (IF k = 1 THEN Unset ELSE printed'[k - 1]) = buf
      <4>1. CASE printed = <<>>
        BY <4>1, <2>2, <1>3
      <4>2. CASE printed # <<>>
        <5>1. Len(printed) \in 1 .. Len(printed) /\ k # 1 /\ k - 1 = Len(printed)
          BY <4>2, <2>2, <1>1
        <5> QED
          BY <5>1, <4>2, <1>2, <1>3, Zenon
      <4> QED
        BY <4>1, <4>2, Zenon
    <3> QED
      BY <2>2, <3>1, <3>2, <1>2, <1>5, <1>6, <1>7, Zenon
  <2> QED
    BY <2>1, <2>2, <1>2
<1> QED
  BY <1>2, <1>5, <1>6, <1>8, Zenon DEF PrintInv

-----------------------------------------------------------------------------
(* TCP and pipe *)

LEMMA SendStreamStep ==
  ASSUME IInv, SendStream PROVE IInv'
<1> USE DEF SendStream, Sending, sendUnchanged, recvVars
<1>1. /\ Stream /\ CELLS \in Nat /\ sent \in Nat /\ sent < MaxSent /\ MaxSent \in Nat
      /\ From(0, got) /\ From(Len(got), chan) /\ Len(got) + Len(chan) = sent * CELLS
  BY MessagesAssumption DEF IInv, Typed, TypeOK, StreamInv
<1>2. Typed'
  BY <1>1 DEF IInv, Typed, TypeOK
<1>3. StreamInv'
  <2>1. Len(got) \in Nat /\ Len(chan) \in Nat
    BY <1>1 DEF From
  <2>2. From(Len(got) + Len(chan), Message(sent + 1)) /\ Len(Message(sent + 1)) = CELLS
    BY <1>1, MessageFrom, Zenon
  <2>3. From(Len(got), chan') /\ Len(chan') = Len(chan) + CELLS
    <3>1. chan' = chan \o Message(sent + 1)
      OBVIOUS
    <3>2. From(Len(got), chan)
      BY <1>1, Zenon
    <3>3. /\ From(Len(got), chan \o Message(sent + 1))
          /\ Len(chan \o Message(sent + 1)) = Len(chan) + Len(Message(sent + 1))
      <4> HIDE DEF SendStream, Sending, sendUnchanged, recvVars
      <4> QED
        BY <3>2, <2>1, <2>2, Joined
    <3> QED
      BY <3>1, <3>3, <2>2, Zenon
  <2>4. Len(got) + Len(chan') = sent' * CELLS
    <3>1. (sent + 1) * CELLS = sent * CELLS + CELLS /\ sent * CELLS \in Nat
      BY <1>1, Cells, Zenon
    <3>2. Len(got) + (Len(chan) + CELLS) = (Len(got) + Len(chan)) + CELLS
      BY <1>1, <2>1
    <3> QED
      BY <3>1, <3>2, <1>1, <2>3, Zenon
  <2>5. program = "tcp" /\ ~short => \E n \in 0 .. sent' : Received(n)'
    BY <1>1 DEF IInv, StreamInv, Received
  <2> QED
    BY <2>3, <2>4, <2>5, Zenon DEF StreamInv, Stream, Ended
<1>4. DatagramInv' /\ QueueInv' /\ MemoryInv'
  BY Zenon DEF Stream, DatagramInv, Datagrams, QueueInv, MemoryInv, Memory
<1>5. PrintInv'
  BY <1>1, MoreSent
<1> QED
  BY <1>2, <1>3, <1>4, <1>5, Zenon DEF IInv

\* Received messages were sent.
LEMMA ReceivedSent ==
  ASSUME NEW m \in Nat, NEW n \in Nat, (m + 1) * CELLS <= n * CELLS
  PROVE  m + 1 <= n
<1>1. m * CELLS \in Nat /\ n * CELLS \in Nat /\ CELLS \in Nat \ {0} /\ (m + 1) * CELLS = m * CELLS + CELLS
  BY Cells, MessagesAssumption
<1>2. n <= m => n * CELLS <= m * CELLS
  BY CellsMono, Zenon
<1> QED
  BY <1>1, <1>2

LEMMA ReceiveStreamStep ==
  ASSUME IInv, ReceiveStream PROVE IInv'
<1> USE DEF Receiving, recvUnchanged
<1>0. PICK k \in 1 .. CELLS :
        /\ k <= Len(chan) /\ Take(k)
        /\ buf' = [i \in 1 .. CELLS |-> IF i <= k THEN chan[i] ELSE buf[i]]
        /\ got' = got \o SubSeq(chan, 1, k)
        /\ short' = (short \/ k < CELLS)
  BY Zenon DEF ReceiveStream
<1>1. /\ Stream /\ pc["rcv"] = "recv" /\ UNCHANGED <<program, pc, key, at, sent, wi, ri, faults>>
      /\ printed' = IF program = "tcp" THEN Append(printed, buf') ELSE printed
  BY Zenon DEF ReceiveStream
<1>2. /\ printed \in Seq(Record) /\ short \in BOOLEAN /\ k \in Nat
      /\ CELLS \in Nat \ {0} /\ sent \in Nat /\ sent <= MaxSent /\ MaxSent \in Nat
      /\ buf \in [1 .. CELLS -> 0 .. MaxSent * CELLS]
  BY <1>1, MessagesAssumption DEF IInv, Typed, TypeOK
<1>3. /\ From(0, got) /\ From(Len(got), chan) /\ Len(got) + Len(chan) = sent * CELLS
      /\ Len(got) \in Nat /\ Len(chan) \in Nat /\ \A i \in 1 .. Len(chan) : chan[i] = Len(got) + i
  BY <1>1 DEF IInv, Typed, StreamInv, From
<1>4. /\ From(Len(got), SubSeq(chan, 1, k)) /\ Len(SubSeq(chan, 1, k)) = k
      /\ From(Len(got) + k, chan') /\ Len(chan') = Len(chan) - k
  BY <1>0, <1>2, <1>3, Split DEF Take
<1>5. From(0, got') /\ Len(got') = Len(got) + k
  <2>1. 0 + Len(got) = Len(got)
    BY <1>3
  <2> QED
    BY <2>1, <1>0, <1>3, <1>4, Joined
<1>6. buf' \in [1 .. CELLS -> 0 .. MaxSent * CELLS] /\ buf' \in Record
  <2>1. sent * CELLS <= MaxSent * CELLS /\ sent * CELLS \in Nat /\ MaxSent * CELLS \in Nat
    BY <1>2, Cells, CellsMono, Zenon
  <2>2. \A i \in 1 .. CELLS : i <= k => chan[i] \in 0 .. MaxSent * CELLS
    BY <2>1, <1>0, <1>3
  <2> QED
    BY <2>1, <2>2, <1>0, <1>2 DEF Record
<1>7. Typed'
  <2>1. printed' \in Seq(Record)
    BY <1>1, <1>2, <1>6
  <2>2. short' \in BOOLEAN
    BY <1>0, Zenon
  <2> QED
    BY <2>1, <2>2, <1>1, <1>5, <1>6, Zenon DEF IInv, Typed, TypeOK
<1>8. ASSUME program = "tcp", ~short' PROVE (\E m \in 0 .. sent : Received(m)') /\ PrintInv'
  <2>1. ~short /\ k = CELLS /\ short' = short
    <3>1. ~short /\ ~(k < CELLS)
      BY <1>0, <1>8, Zenon
    <3>2. short' = short
      BY <3>1, <1>0, <1>2, Zenon
    <3> QED
      BY <3>1, <3>2, <1>2
  <2>2. PICK m \in 0 .. sent : Received(m)
    BY <1>8, <1>1, <2>1, Zenon DEF IInv, StreamInv
  <2>3. m \in Nat /\ Len(got) = m * CELLS /\ (m + 1) * CELLS = m * CELLS + CELLS /\ m * CELLS \in Nat
    BY <2>2, <1>2, Cells DEF Received
  <2>4. Len(got') = (m + 1) * CELLS
    BY <2>1, <2>3, <1>5, Zenon
  <2>5. m + 1 \in 1 .. sent
    <3>1. (m + 1) * CELLS <= sent * CELLS
      BY <2>1, <2>3, <1>0, <1>3
    <3> QED
      BY <3>1, <2>3, <1>2, ReceivedSent
  <2>6. Message(m + 1) \in Record /\ \A i \in 1 .. CELLS : Message(m + 1)[i] = Len(got) + i
    BY <2>3, NextMessage, Zenon
  <2>7. buf' = Message(m + 1)
    <3>1. \A i \in 1 .. CELLS : buf'[i] = Message(m + 1)[i]
      BY <2>1, <2>6, <1>0, <1>3
    <3> QED
      BY <3>1, <2>6, <1>6, SameRecord, Zenon
  <2>8. Received(m + 1)'
    BY <2>3, <2>4, <2>7 DEF Received
  <2>9. buf'[1] = buf[CELLS] + 1
    <3>1. buf[CELLS] = m * CELLS
      <4>1. CASE m = 0
        BY <4>1, <2>2, <2>3, <1>2 DEF Received, Unset
      <4>2. CASE m # 0
        BY <4>2, <2>2, <2>3, LastCell, Zenon DEF Received
      <4> QED
        BY <4>1, <4>2, Zenon
    <3> QED
      BY <3>1, <2>3, <2>6, <2>7, <1>2
  <2>10. PrintInv'
    BY <2>1, <2>5, <2>7, <2>9, <1>1, <1>6, <1>8, PrintStep, Zenon DEF IInv
  <2> QED
    BY <2>5, <2>8, <2>10
<1>9. StreamInv'
  <2>1. (Len(got) + k) + (Len(chan) - k) = Len(got) + Len(chan)
    BY <1>2, <1>3
  <2>2. Len(got') + Len(chan') = sent * CELLS
    BY <2>1, <1>3, <1>4, <1>5, Zenon
  <2> QED
    BY <2>2, <1>1, <1>4, <1>5, <1>8, Zenon DEF StreamInv, Stream
<1>10. PrintInv'
  <2>1. CASE program = "tcp" /\ ~short'
    BY <2>1, <1>8, Zenon
  <2>2. CASE ~(program = "tcp" /\ ~short')
    BY <2>2, <1>1, Zenon DEF PrintInv, Stream
  <2> QED
    BY <2>1, <2>2, Zenon
<1>11. DatagramInv' /\ QueueInv' /\ MemoryInv'
  BY <1>1 DEF Stream, DatagramInv, Datagrams, QueueInv, MemoryInv, Memory
<1> QED
  BY <1>7, <1>9, <1>10, <1>11, Zenon DEF IInv

LEMMA BufIsRecord ==
  ASSUME Typed PROVE buf \in Record
<1>1. buf \in [1 .. CELLS -> 0 .. MaxSent * CELLS] /\ MaxSent * CELLS \in Nat
  BY Cells, MessagesAssumption, Zenon DEF Typed, TypeOK
<1> QED
  BY <1>1 DEF Record

\* The servers of the socket programs print the buffer again.
LEMMA PrintAgain ==
  ASSUME IInv, program \in {"tcp", "udp", "echo"},
         UNCHANGED <<program, key, at, chan, sent, wi, ri, buf, got, short>>,
         printed' = Append(printed, buf), pc' \in [Proc -> PC], faults' \in 0 .. MaxFaults,
         program = "tcp" /\ pc'["rcv"] = "done" => chan = <<>> /\ Ended("snd")'
  PROVE  IInv'
<1>1. buf \in Record
  BY BufIsRecord, Zenon DEF IInv
<1>2. Typed'
  <2>1. printed' \in Seq(Record)
    BY <1>1 DEF IInv, Typed
  <2> QED
    BY <2>1, Zenon DEF IInv, Typed, TypeOK, PC
<1>3. StreamInv'
  BY Zenon DEF IInv, StreamInv, Stream, Received
<1>4. DatagramInv' /\ QueueInv' /\ MemoryInv'
  BY Zenon DEF IInv, DatagramInv, Datagrams, QueueInv, MemoryInv, Memory
<1>5. PrintInv'
  <2>1. CASE short
    BY <2>1, Zenon DEF PrintInv
  <2>2. CASE ~short
    BY <2>2, <1>1, PrintStep, Zenon DEF IInv
  <2> QED
    BY <2>1, <2>2, Zenon
<1> QED
  BY <1>2, <1>3, <1>4, <1>5, Zenon DEF IInv

LEMMA StreamEndStep ==
  ASSUME IInv, StreamEnd PROVE IInv'
<1>1. pc \in [Proc -> PC] /\ faults \in 0 .. MaxFaults
  BY Zenon DEF IInv, Typed, TypeOK, PC
<1>2. pc' \in [Proc -> PC] /\ Ended("snd")'
  BY <1>1, Zenon DEF StreamEnd, Receiving, Go, PC, Proc, Ended
<1> QED
  BY <1>1, <1>2, PrintAgain, Zenon DEF StreamEnd, recvUnchanged

LEMMA ReceiveFailsStep ==
  ASSUME IInv, ReceiveFails PROVE IInv'
<1> USE DEF ReceiveFails, Receiving, recvUnchanged, Fault
<1>1. pc \in [Proc -> PC] /\ faults' \in 0 .. MaxFaults
  BY MessagesAssumption DEF IInv, Typed, TypeOK, PC
<1>2. CASE program \in {"tcp", "udp", "echo"}
  BY <1>1, <1>2, PrintAgain, Zenon
<1>3. CASE program \notin {"tcp", "udp", "echo"}
  <2>1. program = "msg" => at["rcv"] > 0
    BY Zenon DEF IInv, QueueInv, Proc
  <2>2. \A p \in Proc : program = "msg" /\ pc[p] \in {"send", "recv", "remove"} => at[p] > 0
    BY Zenon DEF IInv, QueueInv
  <2>3. UNCHANGED recvVars /\ pc' \in [Proc -> PC]
    BY <1>1, <1>3, Zenon DEF Go, PC, Proc, recvVars
  <2> QED
    BY <1>1, <1>3, <2>1, <2>2, <2>3, QuietStep, Zenon DEF Go, Proc, Ended
<1> QED
  BY <1>2, <1>3, Zenon

\* The types of what the steps below use.
LEMMA Types ==
  ASSUME IInv
  PROVE  /\ sent \in Nat /\ sent <= MaxSent /\ MaxSent \in Nat /\ CELLS \in Nat \ {0}
         /\ wi \in 1 .. CELLS /\ ri \in 1 .. CELLS /\ MaxSent * CELLS \in Nat
         /\ buf \in [1 .. CELLS -> 0 .. MaxSent * CELLS]
         /\ printed \in Seq(Record) /\ From(0, got)
<1>1. TypeOK /\ printed \in Seq(Record) /\ From(0, got)
  BY Zenon DEF IInv, Typed
<1>2. CELLS \in Nat \ {0} /\ MaxSent \in Nat /\ MaxSent * CELLS \in Nat
  BY Cells, MessagesAssumption
<1> QED
  BY <1>1, <1>2 DEF TypeOK

-----------------------------------------------------------------------------
(* Datagrams *)

LEMMA LeavesStep ==
  ASSUME NEW S, chan \in Seq(S), NEW i \in 1 .. Len(chan), Leaves(i)
  PROVE  chan' \in Seq(S)
<1>1. SubSeq(chan, 1, i - 1) \in Seq(S) /\ SubSeq(chan, i + 1, Len(chan)) \in Seq(S)
  OBVIOUS
<1> QED
  BY <1>1 DEF Leaves

LEMMA SendDatagramStep ==
  ASSUME IInv, SendDatagram PROVE IInv'
<1> USE DEF SendDatagram, Sending, sendUnchanged, recvVars
<1>1. Datagrams /\ sent \in Nat /\ sent < MaxSent /\ MaxSent \in Nat /\ sent' = sent + 1
  BY Types, Zenon
<1>2. Typed'
  BY <1>1 DEF IInv, Typed, TypeOK
<1>3. DatagramInv'
  <2> DEFINE S == {Message(n) : n \in 1 .. sent}
             T == {Message(n) : n \in 1 .. sent + 1}
  <2>1. S \subseteq T /\ Message(sent + 1) \in T
    BY <1>1
  <2>2. chan \in Seq(S)
    BY <1>1, Zenon DEF IInv, DatagramInv
  <2> HIDE DEF S, T
  <2>3. chan \in Seq(T)
    BY <2>1, <2>2
  <2>4. chan' \in Seq(T)
    BY <2>1, <2>3
  <2> QED
    BY <2>4, <1>1, Zenon DEF DatagramInv, T
<1>4. StreamInv' /\ QueueInv' /\ MemoryInv'
  BY Zenon DEF Datagrams, StreamInv, Stream, QueueInv, MemoryInv, Memory
<1>5. PrintInv'
  BY <1>1, MoreSent
<1> QED
  BY <1>2, <1>3, <1>4, <1>5, Zenon DEF IInv

LEMMA ReceiveDatagramStep ==
  ASSUME IInv, ReceiveDatagram PROVE IInv'
<1> DEFINE S == {Message(n) : n \in 1 .. sent}
<1>1. /\ Datagrams /\ UNCHANGED <<program, pc, key, at, sent, wi, ri, got, faults, short>>
      /\ printed' = Append(printed, buf')
  BY DEF ReceiveDatagram, recvUnchanged
<1>2. PICK i \in DOMAIN chan : buf' = chan[i] /\ (Leaves(i) \/ chan' = chan)
  BY Zenon DEF ReceiveDatagram
<1>3. chan \in Seq(S) /\ sent \in Nat /\ sent <= MaxSent /\ MaxSent \in Nat
  BY <1>1, MessagesAssumption DEF IInv, DatagramInv, Typed, TypeOK
<1>4. i \in 1 .. Len(chan) /\ chan[i] \in S
  BY <1>2, <1>3
<1>5. PICK n \in 1 .. sent : buf' = Message(n)
  BY <1>2, <1>4, Zenon
<1>6. buf' \in Record /\ buf' \in [1 .. CELLS -> 0 .. MaxSent * CELLS]
  BY <1>3, <1>5, MessageTyped
<1>7. Typed'
  <2>1. printed' \in Seq(Record)
    BY <1>1, <1>6 DEF IInv, Typed
  <2> QED
    BY <2>1, <1>1, <1>6, Zenon DEF IInv, Typed, TypeOK
<1>8. DatagramInv'
  <2>1. chan' \in Seq(S)
    <3> HIDE DEF S
    <3> QED
      BY <1>2, <1>3, <1>4, LeavesStep, Zenon
  <2> QED
    BY <2>1, <1>1, Zenon DEF DatagramInv
<1>9. StreamInv' /\ QueueInv' /\ MemoryInv'
  BY <1>1 DEF Datagrams, StreamInv, Stream, QueueInv, MemoryInv, Memory
<1>10. PrintInv'
  <2>1. CASE short
    BY <2>1, <1>1, Zenon DEF PrintInv
  <2>2. CASE ~short
    BY <2>2, <1>1, <1>5, <1>6, PrintStep, Zenon DEF IInv, Datagrams
  <2> QED
    BY <2>1, <2>2, Zenon
<1> QED
  BY <1>7, <1>8, <1>9, <1>10, Zenon DEF IInv

LEMMA LoseStep ==
  ASSUME IInv, Lose PROVE IInv'
<1> DEFINE S == {Message(n) : n \in 1 .. sent}
<1>1. program = "udp" /\ UNCHANGED <<program, pc, key, at, sent, wi, ri, recvVars, faults>>
  BY Zenon DEF Lose
<1>2. PICK i \in DOMAIN chan : Leaves(i)
  BY Zenon DEF Lose
<1>3. chan' \in Seq(S)
  <2>1. chan \in Seq(S)
    BY <1>1 DEF IInv, DatagramInv, Datagrams
  <2> HIDE DEF S
  <2>2. i \in 1 .. Len(chan)
    BY <2>1, <1>2
  <2> QED
    BY <2>1, <2>2, <1>2, LeavesStep, Zenon
<1>4. Typed' /\ PrintInv'
  BY <1>1, Zenon DEF IInv, Typed, TypeOK, PrintInv, RecordsWhole, recvVars
<1>5. DatagramInv'
  BY <1>1, <1>3, Zenon DEF DatagramInv
<1>6. StreamInv' /\ QueueInv' /\ MemoryInv'
  BY <1>1, Zenon DEF StreamInv, Stream, QueueInv, MemoryInv, Memory
<1> QED
  BY <1>4, <1>5, <1>6, Zenon DEF IInv

-----------------------------------------------------------------------------
(* The message queue *)

LEMMA AttachStep ==
  ASSUME IInv, program = "msg", NEW p \in Proc, Attach(p) PROVE IInv'
<1> USE DEF setupUnchanged, recvVars
<1>1. /\ pc \in [Proc -> PC] /\ at \in [Proc -> 0 .. 2] /\ key \in 0 .. 2
      /\ pc[p] = "setup" /\ pc' = [pc EXCEPT ![p] = IF p = "snd" THEN "send" ELSE "recv"]
      /\ key' = (IF key > 0 THEN key ELSE at[Other(p)] + 1)
      /\ at' = [at EXCEPT ![p] = key']
      /\ UNCHANGED <<program, chan, sent, wi, ri, buf, got, printed, short, faults>>
  BY DEF IInv, Typed, TypeOK, PC, Attach, Go
<1>2. QueueInv
  BY Zenon DEF IInv
<1>3. /\ at[p] = 0 /\ key # 2 /\ at[Other(p)] \in {0, 1} /\ Other(p) \in Proc /\ Other(p) # p
      /\ Other(Other(p)) = p
  BY <1>1, <1>2 DEF QueueInv, Proc, Other
<1>4. key' \in {1, 2} /\ key' = at'[p] /\ at'[Other(p)] = at[Other(p)]
  BY <1>1, <1>3
<1>5. Typed'
  BY <1>1, <1>4, SMTT(30) DEF IInv, Typed, TypeOK, PC, Proc
<1>6. StreamInv' /\ DatagramInv' /\ MemoryInv'
  BY <1>1, Zenon DEF StreamInv, Stream, DatagramInv, Datagrams, MemoryInv, Memory
<1>7. PrintInv'
  BY <1>1, Zenon DEF IInv, PrintInv, RecordsWhole
<1>8. QueueInv'
  <2>1. ASSUME NEW q \in Proc
        PROVE  /\ pc'[q] = "setup" => at'[q] = 0
               /\ pc'[q] \in {"send", "recv", "remove"} => at'[q] > 0
               /\ at'[q] = 2 => at'[Other(q)] = 1
               /\ key' = 2 => at'[q] > 0
    <3>1. CASE q = p
      BY <3>1, <1>1, <1>3, <1>4
    <3>2. CASE q = Other(p)
      BY <3>2, <1>1, <1>2, <1>3, <1>4 DEF QueueInv
    <3> QED
      BY <3>1, <3>2, Zenon DEF Proc, Other
  <2>2. at'["rcv"] = 0 => Received(0)'
    <3>1. at'["rcv"] = 0 => at["rcv"] = 0
      BY <1>1, <1>4 DEF Proc, Other
    <3> QED
      BY <3>1, <1>1, <1>2, Zenon DEF QueueInv, Received
  <2>3. InOrder => InOrder'
    BY <1>1, Zenon DEF InOrder, Received
  <2>4. ASSUME at'["rcv"] \in {0, key'}
        PROVE  InOrder' \/ (chan = <<>> /\ at'["snd"] \notin {0, key'})
    <3>1. CASE key > 0
      <4>1. at["rcv"] \in {0, key}
        BY <3>1, <2>4, <1>1, <1>3, <1>4, Zenon DEF Proc, Other
      <4>2. InOrder \/ (chan = <<>> /\ at["snd"] \notin {0, key})
        BY <3>1, <4>1, <1>2, Zenon DEF QueueInv
      <4> QED
        BY <3>1, <4>2, <2>3, <1>1, <1>3, Zenon DEF Proc, Other
    <3>2. CASE key = 0 /\ at[Other(p)] = 0
      <4>1. \A q \in Proc : at[q] = 0
        BY <3>2, <1>3, Zenon DEF Proc, Other
      <4>2. sent = 0 /\ chan = <<>> /\ Received(0)
        BY <3>2, <4>1, <1>2, Zenon DEF QueueInv, Proc
      <4>3. 0 \in 0 .. sent /\ Len(chan) = sent - 0 /\ \A k \in 1 .. Len(chan) : FALSE
        BY <4>2
      <4>4. InOrder
        BY <4>2, <4>3, Zenon DEF InOrder
      <4> QED
        BY <4>4, <2>3, Zenon
    <3>3. CASE key = 0 /\ at[Other(p)] = 1
      <4>1. key' = 2 /\ chan = <<>>
        <5>1. chan = <<>>
          BY <3>3, <1>2, Zenon DEF QueueInv
        <5> QED
          BY <5>1, <3>3, <1>1
      <4>2. p = "rcv"
        BY <4>1, <3>3, <2>4, <1>4 DEF Proc, Other
      <4> QED
        BY <4>1, <4>2, <3>3, <1>4 DEF Other
    <3> QED
      BY <3>1, <3>2, <3>3, <1>1, <1>3
  <2> QED
    <3>1. chan' \in Seq(Record) /\ key' # 0 /\ chan' = chan /\ program' = program
      BY <1>1, <1>2, <1>4 DEF QueueInv
    <3> QED
      BY <3>1, <2>1, <2>2, <2>4, Zenon DEF QueueInv
<1> QED
  BY <1>5, <1>6, <1>7, <1>8, Zenon DEF IInv

LEMMA SendQueueStep ==
  ASSUME IInv, SendQueue PROVE IInv'
<1> USE DEF Sending, sendUnchanged, recvVars
<1>1. /\ program = "msg" /\ pc["snd"] = "send" /\ at["snd"] = key /\ sent \in Nat /\ sent < MaxSent
      /\ MaxSent \in Nat /\ chan' = Append(chan, Message(sent + 1)) /\ sent' = sent + 1
      /\ UNCHANGED <<program, pc, key, at, wi, ri, buf, got, printed, short, faults>>
  BY Types, Zenon DEF SendQueue
<1>2. QueueInv /\ key > 0 /\ chan \in Seq(Record)
  BY <1>1 DEF IInv, QueueInv, Proc
<1>3. Message(sent + 1) \in Record
  BY <1>1, NextMessage, Zenon
<1>4. /\ chan' \in Seq(Record) /\ Len(chan') = Len(chan) + 1 /\ Len(chan) \in Nat
      /\ chan'[Len(chan) + 1] = Message(sent + 1) /\ \A k \in 1 .. Len(chan) : chan'[k] = chan[k]
  BY <1>1, <1>2, <1>3
<1>5. InOrder => InOrder'
  <2> SUFFICES ASSUME InOrder PROVE InOrder'
    OBVIOUS
  <2>1. PICK m \in 0 .. sent : /\ Received(m) /\ Len(chan) = sent - m
                               /\ \A k \in 1 .. Len(chan) : chan[k] = Message(m + k)
    BY Zenon DEF InOrder
  <2>a. Received(m)'
    BY <2>1, <1>1, Zenon DEF Received
  <2>b. m \in 0 .. sent' /\ Len(chan') = sent' - m
    BY <2>1, <1>1, <1>4
  <2>2. m \in 0 .. sent' /\ Received(m)' /\ Len(chan') = sent' - m
    BY <2>a, <2>b, Zenon
  <2>3. ASSUME NEW k \in 1 .. Len(chan') PROVE chan'[k] = Message(m + k)
    <3>1. CASE k \in 1 .. Len(chan)
      BY <3>1, <2>1, <1>4, Zenon
    <3>2. CASE k = Len(chan) + 1
      <4>1. m + k = sent + 1
        BY <3>2, <2>1, <1>1
      <4> QED
        BY <4>1, <3>2, <1>4, Zenon
    <3> QED
      BY <3>1, <3>2, <1>4
  <2> QED
    BY <2>2, <2>3, Zenon DEF InOrder
<1>6. QueueInv'
  <2>1. at["rcv"] \in {0, key} => InOrder
    BY <1>1, <1>2, Zenon DEF QueueInv
  <2>2. at["rcv"] = 0 => Received(0)'
    BY <1>1, <1>2, Zenon DEF QueueInv, Received
  <2>3. \A p \in Proc : /\ pc[p] = "setup" => at[p] = 0
                        /\ pc[p] \in {"send", "recv", "remove"} => at[p] > 0
                        /\ at[p] = 2 => at[Other(p)] = 1
                        /\ key = 2 => at[p] > 0
    BY <1>1, <1>2, Zenon DEF QueueInv
  <2>4. chan' \in Seq(Record) /\ key' = key /\ key' # 0 /\ at' = at /\ pc' = pc
    BY <1>1, <1>2, <1>4
  <2> QED
    BY <2>1, <2>2, <2>3, <2>4, <1>5, Zenon DEF QueueInv
<1>7. Typed'
  BY <1>1 DEF IInv, Typed, TypeOK
<1>8. StreamInv' /\ DatagramInv' /\ MemoryInv'
  BY <1>1, Zenon DEF StreamInv, Stream, DatagramInv, Datagrams, MemoryInv, Memory
<1>9. PrintInv'
  BY <1>1, MoreSent DEF IInv
<1> QED
  BY <1>6, <1>7, <1>8, <1>9, Zenon DEF IInv

LEMMA ReceiveQueueStep ==
  ASSUME IInv, ReceiveQueue PROVE IInv'
<1> USE DEF Receiving, recvUnchanged
<1>1. /\ program = "msg" /\ pc["rcv"] = "recv" /\ at["rcv"] = key /\ chan # <<>>
      /\ chan' = Tail(chan) /\ buf' = Head(chan) /\ got' = got \o Head(chan)
      /\ printed' = Append(printed, buf')
      /\ UNCHANGED <<program, pc, key, at, sent, wi, ri, faults, short>>
  BY Zenon DEF ReceiveQueue
<1>2. /\ QueueInv /\ key > 0 /\ chan \in Seq(Record) /\ sent \in Nat /\ sent <= MaxSent
      /\ MaxSent \in Nat /\ CELLS \in Nat \ {0} /\ printed \in Seq(Record) /\ From(0, got)
  <2>1. QueueInv /\ key > 0 /\ chan \in Seq(Record)
    BY <1>1, Zenon DEF IInv, QueueInv, Proc
  <2> QED
    BY <2>1, Types, Zenon
<1>3. InOrder
  BY <1>1, <1>2, Zenon DEF QueueInv
<1>4. PICK m \in 0 .. sent : /\ Received(m) /\ Len(chan) = sent - m
                             /\ \A k \in 1 .. Len(chan) : chan[k] = Message(m + k)
  BY <1>3, Zenon DEF InOrder
<1>5. /\ Len(chan) \in Nat \ {0} /\ Head(chan) = chan[1] /\ Len(chan') = Len(chan) - 1
      /\ chan' \in Seq(Record) /\ \A k \in 1 .. Len(chan) - 1 : chan'[k] = chan[k + 1]
  BY <1>1, <1>2
<1>6. m \in Nat /\ m + 1 \in 1 .. sent /\ buf' = Message(m + 1)
  BY <1>1, <1>2, <1>4, <1>5
<1>7. buf' \in Record /\ buf' \in [1 .. CELLS -> 0 .. MaxSent * CELLS]
  BY <1>2, <1>6, MessageTyped
<1>8. /\ Len(got) = m * CELLS /\ m * CELLS \in Nat /\ (m + 1) * CELLS = m * CELLS + CELLS
      /\ buf = IF m = 0 THEN Unset ELSE Message(m)
  BY <1>4, <1>6, Cells, Zenon DEF Received
<1>9. From(0, got') /\ Len(got') = (m + 1) * CELLS
  <2>1. From(m * CELLS, Message(m + 1)) /\ Len(Message(m + 1)) = CELLS
    BY <1>6, MessageFrom, Zenon
  <2>2. 0 + Len(got) = m * CELLS
    BY <1>8
  <2>3. got' = got \o Message(m + 1)
    BY <1>1, <1>6, Zenon
  <2>4. From(0 + Len(got), Message(m + 1))
    BY <2>1, <2>2, Zenon
  <2>5. From(0, got \o Message(m + 1)) /\ Len(got \o Message(m + 1)) = Len(got) + Len(Message(m + 1))
    <3> HIDE DEF From
    <3>1. From(0, got)
      BY <1>2, Zenon
    <3> QED
      BY <3>1, <2>4, Joined, Zenon
  <2> QED
    BY <2>1, <2>3, <2>5, <1>8, Zenon
<1>10. Typed'
  <2>1. printed' \in Seq(Record)
    BY <1>1, <1>2, <1>7
  <2> QED
    BY <2>1, <1>1, <1>7, <1>9, Zenon DEF IInv, Typed, TypeOK
<1>11. QueueInv'
  <2>1. Received(m + 1)'
    BY <1>6, <1>9 DEF Received
  <2>2. \A k \in 1 .. Len(chan') : chan'[k] = Message((m + 1) + k)
    <3> TAKE k \in 1 .. Len(chan')
    <3>1. k + 1 \in 1 .. Len(chan) /\ chan'[k] = chan[k + 1] /\ m + (k + 1) = (m + 1) + k
      BY <1>5, <1>6
    <3> QED
      BY <3>1, <1>4, Zenon
  <2>3. Len(chan') = sent - (m + 1)
    BY <1>2, <1>4, <1>5, <1>6
  <2>4. InOrder'
    BY <2>1, <2>2, <2>3, <1>1, <1>6 DEF InOrder
  <2>5. \A p \in Proc : /\ pc[p] = "setup" => at[p] = 0
                        /\ pc[p] \in {"send", "recv", "remove"} => at[p] > 0
                        /\ at[p] = 2 => at[Other(p)] = 1
                        /\ key = 2 => at[p] > 0
    BY <1>1, <1>2, Zenon DEF QueueInv
  <2> QED
    BY <2>4, <2>5, <1>1, <1>2, <1>5, Zenon DEF QueueInv
<1>12. StreamInv' /\ DatagramInv' /\ MemoryInv'
  BY <1>1, Zenon DEF StreamInv, Stream, DatagramInv, Datagrams, MemoryInv, Memory
<1>13. buf'[1] = buf[CELLS] + 1
  <2>1. buf'[1] = m * CELLS + 1
    BY <1>2, <1>6, NextMessage
  <2>2. CASE m = 0
    BY <2>1, <2>2, <1>2, <1>8 DEF Unset
  <2>3. CASE m # 0
    BY <2>1, <2>3, <1>6, <1>8, LastCell, Zenon
  <2> QED
    BY <2>2, <2>3, Zenon
<1>14. PrintInv'
  <2>1. CASE short
    BY <2>1, <1>1, Zenon DEF PrintInv
  <2>2. CASE ~short
    BY <2>2, <1>1, <1>6, <1>7, <1>13, PrintStep, Zenon DEF IInv
  <2> QED
    BY <2>1, <2>2, Zenon
<1> QED
  BY <1>10, <1>11, <1>12, <1>14, Zenon DEF IInv

LEMMA RemoveQueueStep ==
  ASSUME IInv, NEW p \in Proc, RemoveQueue(p) PROVE IInv'
<1> USE DEF Go, recvVars
<1>1. /\ program = "msg" /\ pc[p] = "remove" /\ pc \in [Proc -> PC] /\ pc' = [pc EXCEPT ![p] = "done"]
      /\ IF at[p] = key THEN key' = 0 /\ chan' = <<>> ELSE UNCHANGED <<key, chan>>
      /\ UNCHANGED <<program, at, sent, wi, ri, buf, got, printed, short, faults>>
  BY Zenon DEF RemoveQueue, IInv, Typed, TypeOK, PC
<1>2. QueueInv /\ at[p] > 0
  BY <1>1, Zenon DEF IInv, QueueInv
<1>3. Typed'
  BY <1>1 DEF IInv, Typed, TypeOK, PC
<1>4. QueueInv'
  <2>1. CASE at[p] = key
    <3>1. key' = 0 /\ chan' = <<>> /\ chan' \in Seq(Record)
      BY <2>1, <1>1
    <3>2. at["rcv"] = 0 => Received(0)'
      BY <1>1, <1>2, Zenon DEF QueueInv, Received
    <3> QED
      <4>1. ASSUME NEW q \in Proc
            PROVE  /\ pc'[q] = "setup" => at'[q] = 0
                   /\ pc'[q] \in {"send", "recv", "remove"} => at'[q] > 0
                   /\ at'[q] = 2 => at'[Other(q)] = 1
        BY <1>1, <1>2, Zenon DEF QueueInv
      <4>2. ~(\A q \in Proc : at'[q] = 0)
        BY <1>1, <1>2
      <4> QED
        BY <3>1, <3>2, <4>1, <4>2, <1>1, SMTT(30) DEF QueueInv
  <2>2. CASE at[p] # key
    <3>1. InOrder => InOrder'
      BY <2>2, <1>1, Zenon DEF InOrder, Received
    <3>2. Received(0) => Received(0)'
      BY <1>1, Zenon DEF Received
    <3> QED
      BY <2>2, <3>1, <3>2, <1>1, <1>2, Zenon DEF QueueInv
  <2> QED
    BY <2>1, <2>2, Zenon
<1>5. StreamInv' /\ DatagramInv' /\ MemoryInv'
  BY <1>1, Zenon DEF StreamInv, Stream, DatagramInv, Datagrams, MemoryInv, Memory
<1>6. PrintInv'
  BY <1>1, Zenon DEF IInv, PrintInv, RecordsWhole
<1> QED
  BY <1>3, <1>4, <1>5, <1>6, Zenon DEF IInv

-----------------------------------------------------------------------------
(* Shared memory *)

LEMMA VersionIsInt ==
  ASSUME NEW c \in Nat PROVE Version(c) \in Int
  BY MessagesAssumption DEF Version

\* Every cell of the memory belongs to the last whole message or to the next.
LEMMA MemoryCells ==
  ASSUME IInv, Memory, NEW k \in 1 .. CELLS
  PROVE  /\ chan[k] \in 0 .. MaxSent * CELLS /\ chan[k] <= sent * CELLS + k
         /\ Version(chan[k]) \in {sent, sent + 1}
         /\ Message(sent + 1)[k] = sent * CELLS + k
<1>1. /\ sent \in Nat /\ sent <= MaxSent /\ MaxSent \in Nat /\ CELLS \in Nat \ {0} /\ wi \in 1 .. CELLS
      /\ chan[k] = (IF k < wi THEN Message(sent + 1)[k] ELSE IF sent = 0 THEN 0 ELSE Message(sent)[k])
      /\ wi > 1 => sent < MaxSent
  <2>1. MemoryInv
    BY DEF IInv
  <2>2. /\ chan[k] = (IF k < wi THEN Message(sent + 1)[k] ELSE IF sent = 0 THEN 0 ELSE Message(sent)[k])
        /\ wi > 1 => sent < MaxSent
    BY <2>1, Zenon DEF MemoryInv
  <2> QED
    BY <2>2, Types
<1>2. /\ sent * CELLS \in Nat /\ MaxSent * CELLS \in Nat /\ (sent + 1) * CELLS = sent * CELLS + CELLS
      /\ sent * CELLS <= MaxSent * CELLS
  BY <1>1, Cells, CellsMono, Zenon
<1>3. Message(sent + 1)[k] = sent * CELLS + k /\ Version(sent * CELLS + k) = sent + 1
  BY <1>1, NextMessage, VersionOf, Zenon
<1>4. CASE k < wi
  <2>1. sent + 1 <= MaxSent /\ sent + 1 \in Nat
    BY <1>4, <1>1
  <2>2. (sent + 1) * CELLS <= MaxSent * CELLS
    BY <2>1, <1>1, CellsMono, Zenon
  <2> QED
    BY <2>2, <1>1, <1>2, <1>3, <1>4
<1>5. CASE ~(k < wi) /\ sent = 0
  BY <1>5, <1>1, <1>2, <1>3, VersionOfZero
<1>6. CASE ~(k < wi) /\ sent # 0
  <2>1. PICK m \in Nat : sent = m + 1
    <3>1. sent - 1 \in Nat /\ sent = (sent - 1) + 1
      BY <1>1, <1>6
    <3> QED
      BY <3>1, Zenon
  <2>2. Message(m + 1)[k] = m * CELLS + k /\ Version(m * CELLS + k) = m + 1
    BY NextMessage, VersionOf, Zenon
  <2>3. m * CELLS \in Nat /\ (m + 1) * CELLS = m * CELLS + CELLS
    BY Cells, Zenon
  <2>4. chan[k] = m * CELLS + k
    BY <2>1, <2>2, <1>1, <1>6, Zenon
  <2>5. m * CELLS + k <= sent * CELLS
    BY <2>1, <2>3, <1>1
  <2> QED
    BY <2>1, <2>2, <2>3, <2>4, <2>5, <1>1, <1>2, <1>3
<1> QED
  BY <1>4, <1>5, <1>6, Zenon

LEMMA StoreCellStep ==
  ASSUME IInv, StoreCell PROVE IInv'
<1> USE DEF Sending, sendUnchanged, recvVars
<1>1. /\ Memory /\ sent < MaxSent /\ chan' = [chan EXCEPT ![wi] = Message(sent + 1)[wi]]
      /\ wi' = (IF wi = CELLS THEN 1 ELSE wi + 1) /\ sent' = (IF wi = CELLS THEN sent + 1 ELSE sent)
      /\ UNCHANGED <<program, pc, key, at, ri, buf, got, printed, short, faults>>
  BY Zenon DEF StoreCell
<1>2. /\ sent \in Nat /\ MaxSent \in Nat /\ CELLS \in Nat \ {0} /\ wi \in 1 .. CELLS /\ MemoryInv
      /\ chan \in Record /\ buf \in [1 .. CELLS -> 0 .. MaxSent * CELLS] /\ MaxSent * CELLS \in Nat
  <2>1. MemoryInv /\ chan \in Record
    BY <1>1, Zenon DEF IInv, MemoryInv
  <2> QED
    BY <2>1, Types, Zenon
<1>3. wi' \in 1 .. CELLS /\ sent' \in 0 .. MaxSent /\ sent <= sent' /\ sent' \in Nat
      /\ (wi' > 1 => sent' < MaxSent)
  BY <1>1, <1>2
<1>4. Typed'
  BY <1>1, <1>3, Zenon DEF IInv, Typed, TypeOK
<1>5. Message(sent + 1) \in Record
  BY <1>2, NextMessage, Zenon
<1>6. /\ chan' \in Record /\ chan'[wi] = Message(sent + 1)[wi]
      /\ \A k \in 1 .. CELLS : k # wi => chan'[k] = chan[k]
  BY <1>1, <1>2, <1>5, Zenon DEF Record
<1>7. ASSUME NEW k \in 1 .. CELLS PROVE chan[k] <= chan'[k] /\ chan[k] \in Nat /\ chan'[k] \in Nat
  <2>1. chan[k] <= sent * CELLS + k /\ Message(sent + 1)[k] = sent * CELLS + k
    BY <1>1, MemoryCells, Zenon
  <2>2. chan[k] \in Nat /\ chan'[k] \in Nat
    BY <1>2, <1>6, Zenon DEF Record
  <2> QED
    BY <2>1, <2>2, <1>6
<1>8. ASSUME NEW k \in 1 .. CELLS
      PROVE  chan'[k] = IF k < wi' THEN Message(sent' + 1)[k]
                        ELSE IF sent' = 0 THEN 0 ELSE Message(sent')[k]
  <2>1. chan[k] = IF k < wi THEN Message(sent + 1)[k] ELSE IF sent = 0 THEN 0 ELSE Message(sent)[k]
    BY <1>1, <1>2, Zenon DEF MemoryInv
  <2>2. CASE wi = CELLS
    <3>1. chan'[k] = Message(sent + 1)[k]
      BY <2>1, <2>2, <1>2, <1>6
    <3>2. wi' = 1 /\ sent' = sent + 1 /\ sent' # 0 /\ ~(k < wi')
      BY <2>2, <1>1, <1>2
    <3> QED
      BY <3>1, <3>2, Zenon
  <2>3. CASE wi # CELLS
    <3>1. wi' = wi + 1 /\ sent' = sent
      BY <2>3, <1>1, Zenon
    <3>2. CASE k = wi
      BY <3>1, <3>2, <1>2, <1>6
    <3>3. CASE k # wi
      BY <3>1, <3>3, <2>1, <1>2, <1>6
    <3> QED
      BY <3>2, <3>3, Zenon
  <2> QED
    BY <2>2, <2>3, Zenon
<1>9. ASSUME NEW k \in 1 .. CELLS
      PROVE  /\ buf[k] <= chan'[k] /\ Version(buf[k]) <= sent' + 1
             /\ printed # <<>> => printed[Len(printed)][k] <= buf[k]
  <2>0. buf[k] \in Nat
    BY <1>2
  <2>1. /\ buf[k] <= chan[k] /\ Version(buf[k]) <= sent + 1
        /\ printed # <<>> => printed[Len(printed)][k] <= buf[k]
    BY <1>1, <1>2, Zenon DEF MemoryInv
  <2>2. Version(buf[k]) \in Int
    BY <2>0, VersionIsInt, Zenon
  <2> QED
    <3>1. buf[k] <= chan'[k]
      BY <2>0, <2>1, <1>7
    <3>2. Version(buf[k]) <= sent' + 1
      BY <2>1, <2>2, <1>2, <1>3
    <3> QED
      BY <3>1, <3>2, <2>1, Zenon
<1>10. NeverBackwards' /\ \A k \in 1 .. ri - 1 : \A j \in 1 .. k : Version(buf[k]) >= Version(buf[j]) - 1
  BY <1>1, <1>2, Zenon DEF MemoryInv, NeverBackwards, Memory
<1>11. MemoryInv'
  BY <1>1, <1>3, <1>6, <1>8, <1>9, <1>10, Zenon DEF MemoryInv
<1>12. StreamInv' /\ DatagramInv' /\ QueueInv' /\ PrintInv'
  BY <1>1, Zenon DEF Memory, StreamInv, Stream, DatagramInv, Datagrams, QueueInv, PrintInv
<1> QED
  BY <1>4, <1>11, <1>12, Zenon DEF IInv

LEMMA LoadCellStep ==
  ASSUME IInv, LoadCell PROVE IInv'
<1> USE DEF Receiving, recvUnchanged
<1>1. /\ Memory /\ buf' = [buf EXCEPT ![ri] = chan[ri]] /\ ri' = (IF ri = CELLS THEN 1 ELSE ri + 1)
      /\ printed' = (IF ri = CELLS THEN Append(printed, buf') ELSE printed)
      /\ UNCHANGED <<program, pc, key, at, chan, sent, wi, got, faults, short>>
  BY Zenon DEF LoadCell
<1>2. /\ sent \in Nat /\ CELLS \in Nat \ {0} /\ ri \in 1 .. CELLS /\ MemoryInv /\ NeverBackwards
      /\ chan \in Record /\ printed \in Seq(Record)
      /\ buf \in [1 .. CELLS -> 0 .. MaxSent * CELLS] /\ MaxSent * CELLS \in Nat
  <2>1. MemoryInv /\ NeverBackwards /\ chan \in Record
    BY <1>1, Zenon DEF IInv, MemoryInv
  <2> QED
    BY <2>1, Types
<1>3. /\ chan[ri] \in 0 .. MaxSent * CELLS /\ Version(chan[ri]) \in {sent, sent + 1}
  BY <1>1, <1>2, MemoryCells, Zenon
<1>4. /\ buf' \in [1 .. CELLS -> 0 .. MaxSent * CELLS] /\ buf' \in Record /\ buf'[ri] = chan[ri]
      /\ \A k \in 1 .. CELLS : k # ri => buf'[k] = buf[k]
  BY <1>1, <1>2, <1>3 DEF Record
<1>5. printed' \in Seq(Record) /\ ri' \in 1 .. CELLS
  BY <1>1, <1>2, <1>4
<1>6. Typed'
  BY <1>1, <1>4, <1>5, Zenon DEF IInv, Typed, TypeOK
<1>7. ASSUME NEW k \in 1 .. CELLS
      PROVE  /\ buf[k] <= buf'[k] /\ buf'[k] <= chan[k] /\ buf[k] \in Nat /\ buf'[k] \in Nat
             /\ Version(buf'[k]) <= sent + 1 /\ Version(buf'[k]) \in Int
             /\ printed # <<>> => printed[Len(printed)][k] <= buf[k]
  <2>0. buf[k] \in Nat
    BY <1>2
  <2>1. /\ buf[k] <= chan[k] /\ Version(buf[k]) <= sent + 1
        /\ printed # <<>> => printed[Len(printed)][k] <= buf[k]
    BY <1>1, <1>2, Zenon DEF MemoryInv
  <2>2. Version(buf[k]) \in Int /\ chan[k] \in Nat
    BY <2>0, <1>2, VersionIsInt, Zenon DEF Record
  <2>3. CASE k = ri
    <3>1. buf'[k] = chan[k] /\ Version(buf'[k]) \in {sent, sent + 1}
      BY <2>3, <1>3, <1>4, Zenon
    <3> QED
      <4>1. buf[k] <= buf'[k] /\ buf'[k] <= chan[k] /\ buf'[k] \in Nat
        BY <3>1, <2>0, <2>1, <2>2
      <4>2. Version(buf'[k]) <= sent + 1 /\ Version(buf'[k]) \in Int
        BY <3>1, <1>2
      <4> QED
        BY <4>1, <4>2, <2>0, <2>1, Zenon
  <2>4. CASE k # ri
    <3>1. buf'[k] = buf[k]
      BY <2>4, <1>4, Zenon
    <3> QED
      BY <3>1, <2>0, <2>1, <2>2
  <2> QED
    BY <2>3, <2>4, Zenon
<1>8. ASSUME NEW k \in 1 .. ri, NEW j \in 1 .. k
      PROVE  Version(buf'[k]) >= Version(buf'[j]) - 1
  <2>1. k \in 1 .. CELLS /\ j \in 1 .. CELLS
    BY <1>2
  <2>2. CASE k = ri
    <3>1. Version(buf'[k]) \in {sent, sent + 1}
      BY <2>2, <1>3, <1>4, Zenon
    <3>2. Version(buf'[j]) <= sent + 1 /\ Version(buf'[j]) \in Int
      BY <2>1, <1>7, Zenon
    <3> QED
      BY <3>1, <3>2, <1>2
  <2>3. CASE k # ri
    <3>1. k \in 1 .. ri - 1 /\ j # ri
      BY <2>3, <1>2
    <3>2. Version(buf[k]) >= Version(buf[j]) - 1
      BY <3>1, <1>1, <1>2, Zenon DEF MemoryInv
    <3> QED
      BY <2>1, <2>3, <3>1, <3>2, <1>4, Zenon
  <2> QED
    BY <2>2, <2>3, Zenon
<1>9. CASE ri # CELLS
  <2>1. printed' = printed /\ ri' = ri + 1 /\ ri' - 1 = ri
    BY <1>9, <1>1, <1>2
  <2>2. ASSUME NEW k \in 1 .. CELLS, printed # <<>> PROVE printed[Len(printed)][k] <= buf'[k]
    <3>1. Len(printed) \in 1 .. Len(printed) /\ printed[Len(printed)] \in Record
      BY <2>2, <1>2
    <3>2. printed[Len(printed)][k] \in Nat
      BY <3>1, Zenon DEF Record
    <3> QED
      BY <3>2, <2>2, <1>7
  <2>3. NeverBackwards'
    BY <2>1, <1>1, <1>2, Zenon DEF NeverBackwards, Memory
  <2>4. MemoryInv'
    BY <2>1, <2>2, <2>3, <1>1, <1>2, <1>7, <1>8, Zenon DEF MemoryInv
  <2> QED
    BY <2>4, <1>1, <1>6, Zenon DEF IInv, Memory, StreamInv, Stream, DatagramInv, Datagrams, QueueInv, PrintInv
<1>10. CASE ri = CELLS
  <2>1. /\ printed' = Append(printed, buf') /\ ri' = 1
        /\ Len(printed') = Len(printed) + 1 /\ Len(printed) \in Nat /\ printed'[Len(printed) + 1] = buf'
        /\ \A k \in 1 .. Len(printed) : printed'[k] = printed[k]
    BY <1>10, <1>1, <1>2, <1>4
  <2>2. DOMAIN printed = 1 .. Len(printed) /\ DOMAIN printed' = 1 .. Len(printed')
    BY <1>2, <1>5
  <2>3. ASSUME NEW k \in 1 .. Len(printed'), NEW i \in 1 .. CELLS
        PROVE  /\ \A j \in 1 .. i : Version(printed'[k][i]) >= Version(printed'[k][j]) - 1
               /\ k > 1 => printed'[k][i] >= printed'[k - 1][i]
    <3>1. CASE k \in 1 .. Len(printed)
      <4>1. /\ \A j \in 1 .. i : Version(printed[k][i]) >= Version(printed[k][j]) - 1
            /\ k > 1 => printed[k][i] >= printed[k - 1][i]
        BY <3>1, <2>2, <1>1, <1>2, Zenon DEF NeverBackwards
      <4>2. printed'[k] = printed[k] /\ (k > 1 => printed'[k - 1] = printed[k - 1])
        BY <3>1, <2>1
      <4> QED
        BY <4>1, <4>2
    <3>2. CASE k = Len(printed) + 1
      <4>1. printed'[k] = buf'
        BY <3>2, <2>1, Zenon
      <4>2. \A j \in 1 .. i : Version(buf'[i]) >= Version(buf'[j]) - 1
        BY <1>10, <1>8, Zenon
      <4>3. ASSUME k > 1 PROVE buf'[i] >= printed'[k - 1][i]
        <5>1. /\ printed # <<>> /\ k - 1 = Len(printed) /\ Len(printed) \in 1 .. Len(printed)
              /\ printed[Len(printed)] \in Record
          BY <4>3, <3>2, <2>1, <1>2
        <5>2. printed'[k - 1] = printed[Len(printed)] /\ printed[Len(printed)][i] \in Nat
          BY <5>1, <2>1, Zenon DEF Record
        <5>3. printed[Len(printed)][i] <= buf[i] /\ buf[i] <= buf'[i] /\ buf[i] \in Nat /\ buf'[i] \in Nat
          BY <5>1, <1>7, Zenon
        <5> QED
          BY <5>2, <5>3
      <4> QED
        BY <4>1, <4>2, <4>3, Zenon
    <3> QED
      BY <3>1, <3>2, <2>1
  <2>4. NeverBackwards'
    BY <2>2, <2>3, Zenon DEF NeverBackwards
  <2>5. \A k \in 1 .. CELLS : printed'[Len(printed')][k] <= buf'[k]
    BY <2>1, <1>7
  <2>a. \A k \in 1 .. CELLS : buf'[k] <= chan'[k] /\ Version(buf'[k]) <= sent' + 1
    BY <1>1, <1>7, Zenon
  <2>b. \A k \in 1 .. ri' - 1 : FALSE
    BY <2>1
  <2>c. /\ \A k \in 1 .. CELLS : chan'[k] = IF k < wi' THEN Message(sent' + 1)[k]
                                             ELSE IF sent' = 0 THEN 0 ELSE Message(sent')[k]
        /\ chan' \in Record /\ (wi' > 1 => sent' < MaxSent)
    BY <1>1, <1>2, Zenon DEF MemoryInv
  <2>6. MemoryInv'
    BY <2>4, <2>5, <2>a, <2>b, <2>c, Zenon DEF MemoryInv
  <2> QED
    BY <2>6, <1>1, <1>6 DEF IInv, Memory, StreamInv, Stream, DatagramInv, Datagrams, QueueInv, PrintInv
<1> QED
  BY <1>9, <1>10, Zenon

-----------------------------------------------------------------------------
(* The theorems *)

LEMMA NextIInv ==
  ASSUME IInv, [Next]_vars PROVE IInv'
<1>1. CASE UNCHANGED vars
  <2>1. /\ UNCHANGED <<program, key, at, chan, sent, wi, ri, recvVars>> /\ pc' = pc /\ faults' = faults
        /\ Ended("snd") => Ended("snd")'
    BY <1>1, Zenon DEF vars, recvVars, Ended
  <2>2. pc' \in [Proc -> PC] /\ faults' \in 0 .. MaxFaults
    BY <2>1, Zenon DEF IInv, Typed, TypeOK, PC
  <2>3. \A p \in Proc : program = "msg" /\ pc[p] \in {"send", "recv", "remove"} => at[p] > 0
    BY DEF IInv, QueueInv
  <2> QED
    BY <2>1, <2>2, <2>3, QuietStep, Zenon
<1>2. "snd" \in Proc /\ "rcv" \in Proc
  BY Zenon DEF Proc
<1>3. ASSUME NEW p \in Proc, Attach(p) PROVE IInv'
  <2>1. program = "msg" \/ program = "shm"
    BY <1>3, Zenon DEF Attach
  <2> QED
    BY <1>3, <2>1, AttachStep, QuietActions, Zenon
<1>4. CASE SenderStep
  BY <1>2, <1>3, <1>4, ConnectStep, QuietActions, SendStreamStep, SendDatagramStep, SendQueueStep,
     StoreCellStep, RemoveQueueStep, Zenon DEF SenderStep
<1>5. CASE ReceiverStep
  BY <1>2, <1>3, <1>5, QuietActions, ReceiveStreamStep, StreamEndStep, ReceiveDatagramStep,
     ReceiveQueueStep, LoadCellStep, RemoveQueueStep, Zenon DEF ReceiverStep
<1>6. CASE Failure
  BY <1>6, QuietActions, ReceiveFailsStep, LoseStep DEF Failure
<1> QED
  BY <1>1, <1>4, <1>5, <1>6, Zenon DEF Next

LEMMA Invariance == Spec => []IInv
<1>1. IInv /\ [Next]_vars => IInv'
  BY NextIInv
<1> QED
  BY <1>1, InitIInv, PTL DEF Spec

\* socket_tcp.c, pipe.c and msg.c: for messages and buffers of any size, the receiver
\* gets the cells that were sent, from the first on and without a gap, whatever pieces
\* read() cuts the stream into and whichever process removes and makes a queue; and
\* the TCP server that leaves its loop has got all of them.
THEOREM StreamIntactHolds == Spec => []StreamIntact
<1>1. IInv => StreamIntact
  <2> SUFFICES ASSUME IInv PROVE StreamIntact
    OBVIOUS
  <2>1. TypeOK /\ From(0, got)
    BY Zenon DEF IInv, Typed
  <2>2. got \in Seq(Nat) /\ Len(got) \in Nat /\ \A k \in 1 .. Len(got) : got[k] = k
    BY <2>1 DEF From
  <2>3. got = [k \in 1 .. Len(got) |-> got[k]]
    BY <2>2
  <2>4. got = [k \in 1 .. Len(got) |-> k]
    BY <2>2, <2>3, Zenon
  <2>5. ASSUME program = "tcp", pc["rcv"] = "done" PROVE Len(got) = sent * CELLS
    <3>1. chan = <<>> /\ Len(got) + Len(chan) = sent * CELLS
      BY <2>5, Zenon DEF IInv, StreamInv, Stream
    <3>2. Len(chan) = 0
      BY <3>1, Zenon
    <3> QED
      BY <3>1, <3>2, <2>2
  <2> QED
    BY <2>1, <2>4, <2>5 DEF StreamIntact
<1> QED
  BY <1>1, Invariance, PTL

\* The printing loops of the socket servers and of msg.c: as long as no read() is
\* short, every record printed is one message that was sent (or the unset buffer, if
\* nothing has been received), also when a receive fails and the buffer is printed
\* again; over TCP and the queue none is left out or exchanged.
THEOREM RecordsWholeHolds == Spec => []RecordsWhole
<1>1. IInv => RecordsWhole
  BY Zenon DEF IInv, PrintInv, RecordsWhole
<1> QED
  BY <1>1, Invariance, PTL

\* shm.c and mmap.c, whose processes share memory without a lock: for texts of any
\* length, no cell printed is more than one message behind a cell before it, and no
\* print shows an older cell than the print before.
THEOREM NeverBackwardsHolds == Spec => []NeverBackwards
<1>1. IInv => NeverBackwards
  BY DEF IInv, MemoryInv, NeverBackwards
<1> QED
  BY <1>1, Invariance, PTL
=============================================================================
