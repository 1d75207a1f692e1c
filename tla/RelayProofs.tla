---------------------------- MODULE RelayProofs -----------------------------
(***************************************************************************)
(* Proofs about Relay: for any number of pairs, any lengths of sources and *)
(* buffers and any number of failing calls, each of the three programs     *)
(* copies a pair faithfully as long as no write of that pair was short.    *)
(***************************************************************************)
EXTENDS Relay, SequenceTheorems, TLAPS

\* The source of a pair: bytes are read after they were produced, and the writer
\* closes after the last one.
SourceInv(i) ==
  /\ pos[i] <= produced[i]
  /\ closed[i] => produced[i] = LENGTH

\* What has been read and is being written.
BufferInv(i) == state[i] = "WRITE" => len[i] = -1 \/ (len[i] > 0 /\ Len(buf[i]) = len[i])

\* What the wait reported is still so when the loop comes to the pair: nobody else
\* reads its source.
ReadyInv(i) ==
  i \in todo /\ state[i] = "READ" /\ "in" \in ready[i] => pos[i] < produced[i] \/ closed[i]

\* The destination is behind the source by the buffer.
CopyInv(i) ==
  ~short[i] =>
    /\ out[i] = Bytes(Len(out[i]))
    /\ state[i] = "READ" => Len(out[i]) = pos[i]
    /\ state[i] = "WRITE" /\ len[i] = -1 => Len(out[i]) = pos[i]
    /\ state[i] = "WRITE" /\ len[i] > 0 =>
         off[i] = 0 /\ Len(out[i]) + len[i] = pos[i] /\ buf[i] = [k \in 1 .. len[i] |-> Len(out[i]) + k]
    /\ state[i] = "EOF" => Len(out[i]) = LENGTH

PipeInv(i) == SourceInv(i) /\ BufferInv(i) /\ ReadyInv(i) /\ CopyInv(i)

\* main goes on only while it has turns left.
TurnsInv == Limited /\ main \in {"open", "wait"} => pushes < Limits

IInv == TypeOK /\ TurnsInv /\ \A i \in Pipe : PipeInv(i)

-----------------------------------------------------------------------------
(* Sequences of bytes *)

LEMMA BytesAreSeq ==
  ASSUME NEW n \in Nat PROVE Bytes(n) \in Seq(Nat) /\ Len(Bytes(n)) = n
  BY DEF Bytes

LEMMA EmptyBytes == <<>> = Bytes(Len(<<>>))
  BY DEF Bytes

LEMMA ExtendBytes ==
  ASSUME NEW S, NEW s \in Seq(S), NEW b \in Seq(S), s = Bytes(Len(s)),
         b = [k \in 1 .. Len(b) |-> Len(s) + k]
  PROVE  s \o b = Bytes(Len(s \o b))
<1> DEFINE n == Len(s \o b)
<1>1. n = Len(s) + Len(b) /\ s \o b \in Seq(S)
  OBVIOUS
<1>2. ASSUME NEW j \in 1 .. n PROVE (s \o b)[j] = j
  <2>1. CASE j <= Len(s)
    <3>1. (s \o b)[j] = s[j]
      BY <1>1, <2>1
    <3>2. s[j] = j
      BY <2>1 DEF Bytes
    <3> QED
      BY <3>1, <3>2
  <2>2. CASE j > Len(s)
    <3>1. (s \o b)[j] = b[j - Len(s)] /\ j - Len(s) \in 1 .. Len(b)
      BY <1>1, <2>2
    <3>2. b[j - Len(s)] = Len(s) + (j - Len(s))
      BY <3>1
    <3> QED
      BY <3>1, <3>2
  <2> QED
    BY <2>1, <2>2
<1>3. s \o b = [j \in 1 .. n |-> (s \o b)[j]]
  BY <1>1, LenProperties, Zenon
<1>4. [j \in 1 .. n |-> (s \o b)[j]] = [j \in 1 .. n |-> j]
  BY <1>2, Zenon
<1> QED
  BY <1>3, <1>4 DEF Bytes

-----------------------------------------------------------------------------
LEMMA InitIInv == Init => IInv
<1> SUFFICES ASSUME Init PROVE IInv
  OBVIOUS
<1> USE RelayAssumption DEF Init
<1>1. TypeOK
  BY DEF TypeOK, Pipe
<1>2. TurnsInv
  BY DEF TurnsInv
<1>3. ASSUME NEW i \in Pipe PROVE PipeInv(i)
  <2>1. SourceInv(i) /\ BufferInv(i) /\ ReadyInv(i)
    <3>1. pos[i] = 0 /\ state[i] = "READ" /\ todo = {} /\ produced[i] \in {0, LENGTH}
      BY <1>3
    <3>2. closed[i] => produced[i] = LENGTH
      BY <1>3, Zenon
    <3> QED
      BY <3>1, <3>2 DEF SourceInv, BufferInv, ReadyInv
  <2>2. out[i] = <<>> /\ pos[i] = 0 /\ state[i] = "READ"
    BY <1>3
  <2>3. CopyInv(i)
    BY <2>2, EmptyBytes, Zenon DEF CopyInv
  <2> QED
    BY <2>1, <2>3 DEF PipeInv
<1> QED
  BY <1>1, <1>2, <1>3 DEF IInv

\* The steps of the other ends of the FIFOs.
LEMMA EnvStep ==
  ASSUME IInv, NEW i \in Pipe, Env(i) PROVE IInv'
<1> USE DEF IInv, envUnchanged, stVars, histVars
<1>1. /\ UNCHANGED <<variant, kind, state, buf, off, len, main, todo, ready, pushes, pos, out, short, faults>>
      /\ produced' \in [Pipe -> 0 .. LENGTH] /\ closed' \in [Pipe -> BOOLEAN] /\ full' \in [Pipe -> BOOLEAN]
      /\ \A k \in Pipe : /\ produced[k] <= produced'[k] /\ (closed[k] => closed'[k])
                         /\ closed'[k] => produced'[k] = LENGTH
  <2>1. CASE Produce(i)
    BY <2>1, RelayAssumption, SMTT(30) DEF Produce, TypeOK, PipeInv, SourceInv
  <2>2. CASE Close(i)
    BY <2>2, RelayAssumption, SMTT(30) DEF Close, TypeOK, PipeInv, SourceInv
  <2>3. CASE Drain(i)
    BY <2>3, RelayAssumption DEF Drain, TypeOK, PipeInv, SourceInv
  <2> QED
    BY <2>1, <2>2, <2>3, Zenon DEF Env
<1>2. TypeOK' /\ TurnsInv'
  BY <1>1, Zenon DEF TypeOK, TurnsInv, Limited
<1>3. ASSUME NEW k \in Pipe PROVE PipeInv(k)'
  <2>1. pos[k] \in Int /\ produced[k] \in Int /\ produced'[k] \in Int
    BY <1>1, <1>3, RelayAssumption DEF TypeOK
  <2>2. SourceInv(k)'
    <3>1. pos[k] <= produced[k] /\ produced[k] <= produced'[k] /\ pos'[k] = pos[k]
      BY <1>1, <1>3, Zenon DEF PipeInv, SourceInv
    <3>2. pos'[k] <= produced'[k]
      BY <2>1, <3>1
    <3> QED
      BY <1>1, <1>3, <3>2, Zenon DEF SourceInv
  <2>3. BufferInv(k)' /\ CopyInv(k)'
    BY <1>1, <1>3, Zenon DEF PipeInv, BufferInv, CopyInv
  <2>4. ReadyInv(k)'
    <3>1. pos[k] < produced[k] => pos'[k] < produced'[k]
      <4>1. produced[k] <= produced'[k] /\ pos'[k] = pos[k]
        BY <1>1, <1>3, Zenon
      <4> QED
        BY <2>1, <4>1
    <3>2. closed[k] => closed'[k]
      BY <1>1, <1>3, Zenon
    <3> QED
      BY <1>1, <1>3, <3>1, <3>2, Zenon DEF PipeInv, ReadyInv
  <2> QED
    BY <2>2, <2>3, <2>4 DEF PipeInv
<1> QED
  BY <1>2, <1>3, Zenon

\* The steps of main that touch no pair.
LEMMA MainStep ==
  ASSUME IInv, Open \/ OpenFails \/ WaitFails \/ PushEnd PROVE IInv'
<1> USE DEF IInv, Open, OpenFails, WaitFails, PushEnd, SomeFault, stVars, envVars, histVars
<1>1. TypeOK'
  BY RelayAssumption DEF TypeOK
<1>2. TurnsInv'
  BY RelayAssumption DEF TurnsInv, Limited, TypeOK
<1>3. ASSUME NEW k \in Pipe PROVE PipeInv(k)'
  BY <1>3, Zenon DEF PipeInv, SourceInv, BufferInv, ReadyInv, CopyInv
<1> QED
  BY <1>1, <1>2, <1>3, Zenon

LEMMA WaitStep ==
  ASSUME IInv, Wait PROVE IInv'
<1> USE DEF IInv, Wait, stVars, envVars, histVars
<1>1. TypeOK'
  <2>1. ready' \in [Pipe -> SUBSET {"in", "out", "hup"}]
    <3>1. ASSUME NEW k \in Pipe PROVE Events(k) \in SUBSET {"in", "out", "hup"}
      BY <3>1, Zenon DEF Events
    <3> QED
      BY <3>1, Zenon
  <2>2. pushes' \in 0 .. Limits
    BY RelayAssumption DEF TurnsInv, TypeOK
  <2>3. todo' \subseteq Pipe
    OBVIOUS
  <2> QED
    BY <2>1, <2>2, <2>3, Zenon DEF TypeOK
<1>2. TurnsInv'
  BY Zenon DEF TurnsInv
<1>3. ASSUME NEW k \in Pipe PROVE PipeInv(k)'
  <2>1. SourceInv(k)' /\ BufferInv(k)' /\ CopyInv(k)'
    BY <1>3, Zenon DEF PipeInv, SourceInv, BufferInv, CopyInv
  <2>2. ready'[k] = Events(k)
    BY <1>3, Zenon
  <2>3. ReadyInv(k)'
    BY <1>3, <2>2, Zenon DEF ReadyInv, Events
  <2> QED
    BY <2>1, <2>3 DEF PipeInv
<1> QED
  BY <1>1, <1>2, <1>3

-----------------------------------------------------------------------------
(* The loop over the pairs *)

\* A step for one pair leaves the others alone.
LEMMA OthersKept ==
  ASSUME IInv, NEW i \in Pipe, PipeStep(i), NEW k \in Pipe, k # i PROVE PipeInv(k)'
<1>1. /\ state'[k] = state[k] /\ buf'[k] = buf[k] /\ off'[k] = off[k] /\ len'[k] = len[k]
      /\ pos'[k] = pos[k] /\ out'[k] = out[k] /\ short'[k] = short[k]
  <2> USE DEF IInv, TypeOK, stVars, histVars
  <2>1. CASE Break(i)
    BY <2>1, Zenon DEF Break
  <2>2. CASE Skip(i)
    BY <2>2, Zenon DEF Skip
  <2>3. CASE Read(i)
    BY <2>3, Zenon DEF Read
  <2>4. CASE ReadFails(i)
    BY <2>4, Zenon DEF ReadFails
  <2>5. CASE Write(i)
    BY <2>5 DEF Write, Advance
  <2>6. CASE WriteFails(i)
    BY <2>6, SMTT(30) DEF WriteFails, Advance
  <2> QED
    BY <2>1, <2>2, <2>3, <2>4, <2>5, <2>6, Zenon DEF PipeStep
<1>2. todo' \subseteq todo /\ UNCHANGED <<ready, produced, closed>>
  BY Zenon DEF PipeStep, Break, Skip, Read, ReadFails, Write, WriteFails, Handled
<1> QED
  BY <1>1, <1>2 DEF IInv, PipeInv, SourceInv, BufferInv, ReadyInv, CopyInv

\* A step for one pair keeps the types and its own invariant.
LEMMA BreakStep ==
  ASSUME IInv, NEW i \in Pipe, Break(i) PROVE TypeOK' /\ PipeInv(i)'
<1> USE DEF IInv, TypeOK, Break, Handled, SomeFault
<1>1. TypeOK'
  BY RelayAssumption, SMTT(30)
<1>2. state'[i] = "ERR"
  OBVIOUS
<1>3. PipeInv(i)'
  BY <1>2 DEF PipeInv, SourceInv, BufferInv, ReadyInv, CopyInv
<1> QED
  BY <1>1, <1>3, Zenon

LEMMA SkipStep ==
  ASSUME IInv, NEW i \in Pipe, Skip(i) PROVE TypeOK' /\ PipeInv(i)'
<1> USE DEF IInv, Skip, Handled, stVars, histVars
<1>1. TypeOK'
  BY Zenon DEF TypeOK
<1>2. PipeInv(i)'
  BY Zenon DEF PipeInv, SourceInv, BufferInv, ReadyInv, CopyInv
<1> QED
  BY <1>1, <1>2, Zenon

\* A read at the end of the source means that its writer has closed.
LEMMA ReadStep ==
  ASSUME IInv, NEW i \in Pipe, Read(i) PROVE TypeOK' /\ PipeInv(i)'
<1> DEFINE left == produced[i] - pos[i]
           sz == IF left < BUF_SIZE THEN left ELSE BUF_SIZE
<1>1. /\ pos[i] \in Nat /\ produced[i] \in 0 .. LENGTH /\ pos[i] <= produced[i]
      /\ sz \in 0 .. BUF_SIZE /\ pos[i] + sz \in 0 .. produced[i]
  BY RelayAssumption DEF IInv, TypeOK, PipeInv, SourceInv
<1>2. state[i] = "READ" /\ i \in todo /\ "in" \in ready[i]
  BY Zenon DEF Read, CanGo, At, Wanted
<1>3. /\ pos' = [pos EXCEPT ![i] = @ + sz]
      /\ state' = [state EXCEPT ![i] = IF sz = 0 THEN "EOF" ELSE "WRITE"]
      /\ buf' = [buf EXCEPT ![i] = IF sz = 0 THEN @ ELSE [k \in 1 .. sz |-> pos[i] + k]]
      /\ off' = [off EXCEPT ![i] = IF sz = 0 THEN @ ELSE 0]
      /\ len' = [len EXCEPT ![i] = IF sz = 0 THEN @ ELSE sz]
      /\ todo' = todo \ {i}
      /\ UNCHANGED <<variant, kind, main, ready, pushes, produced, closed, full, out, short, faults>>
  BY Zenon DEF Read, Handled, histVars
<1> HIDE DEF sz
<1>4. TypeOK'
  <2>1. pos' \in [Pipe -> 0 .. LENGTH]
    BY <1>1, <1>3, RelayAssumption DEF IInv, TypeOK
  <2>2. [k \in 1 .. sz |-> pos[i] + k] \in Seq(1 .. LENGTH)
    BY <1>1, RelayAssumption
  <2>3. buf' \in [Pipe -> Seq(1 .. LENGTH)]
    BY <1>3, <2>2, Zenon DEF IInv, TypeOK
  <2>4. len' \in [Pipe -> -1 .. BUF_SIZE] /\ off' \in [Pipe -> Int]
    BY <1>1, <1>3, RelayAssumption DEF IInv, TypeOK
  <2>5. state' \in [Pipe -> {"READ", "WRITE", "ERR", "EOF"}] /\ todo' \subseteq Pipe
    BY <1>3, Zenon DEF IInv, TypeOK
  <2> QED
    BY <1>3, <2>1, <2>3, <2>4, <2>5, Zenon DEF IInv, TypeOK
<1>5. /\ pos'[i] = pos[i] + sz /\ state'[i] = (IF sz = 0 THEN "EOF" ELSE "WRITE")
      /\ sz # 0 => /\ buf'[i] = [k \in 1 .. sz |-> pos[i] + k]
                   /\ off'[i] = 0 /\ len'[i] = sz
      /\ out'[i] = out[i] /\ short'[i] = short[i] /\ i \notin todo'
      /\ produced'[i] = produced[i] /\ closed'[i] = closed[i]
  BY <1>3, Zenon DEF IInv, TypeOK
<1>6. SourceInv(i)'
  <2>1. pos'[i] <= produced'[i]
    <3>1. pos'[i] = pos[i] + sz /\ produced'[i] = produced[i]
      BY <1>5, Zenon
    <3> QED
      BY <1>1, <3>1
  <2> QED
    BY <1>5, <2>1, Zenon DEF IInv, PipeInv, SourceInv
<1>7. BufferInv(i)'
  BY <1>1, <1>5, RelayAssumption, SMTT(30) DEF BufferInv
<1>8. ReadyInv(i)'
  BY <1>5 DEF ReadyInv
<1>9. CopyInv(i)'
  <2> SUFFICES ASSUME ~short[i] PROVE CopyInv(i)'
    BY <1>5 DEF CopyInv
  <2>1. out[i] = Bytes(Len(out[i])) /\ Len(out[i]) = pos[i]
    BY <1>2, Zenon DEF IInv, PipeInv, CopyInv
  <2>2. CASE sz = 0
    <3>1. ~(pos[i] < produced[i])
      BY <1>1, <2>2, RelayAssumption DEF sz
    <3>2. closed[i]
      BY <1>2, <3>1, Zenon DEF IInv, PipeInv, ReadyInv
    <3>3. pos[i] = LENGTH
      BY <1>1, <3>1, <3>2, RelayAssumption DEF IInv, PipeInv, SourceInv
    <3> QED
      BY <1>5, <2>1, <2>2, <3>3, Zenon DEF CopyInv
  <2>3. CASE sz # 0
    <3>1. state'[i] = "WRITE" /\ len'[i] = sz /\ sz > 0
      BY <1>1, <1>5, <2>3
    <3> QED
      BY <1>1, <1>5, <2>1, <2>3, <3>1, SMTT(30) DEF CopyInv
  <2> QED
    BY <2>2, <2>3, Zenon
<1> QED
  BY <1>4, <1>6, <1>7, <1>8, <1>9, Zenon DEF PipeInv

\* A read that fails leaves nothing in the buffer: its length is -1.
LEMMA ReadFailsStep ==
  ASSUME IInv, NEW i \in Pipe, ReadFails(i) PROVE TypeOK' /\ PipeInv(i)'
<1> USE DEF ReadFails, Handled, SomeFault
<1>1. TypeOK'
  BY RelayAssumption, SMTT(30) DEF IInv, TypeOK
<1>2. state[i] = "READ"
  BY Zenon DEF CanGo
<1>3. /\ state'[i] \in {"READ", "WRITE"} /\ (state'[i] = "WRITE" => len'[i] = -1)
      /\ pos'[i] = pos[i] /\ out'[i] = out[i] /\ short'[i] = short[i] /\ i \notin todo'
      /\ produced'[i] = produced[i] /\ closed'[i] = closed[i]
  BY <1>2, Zenon DEF IInv, TypeOK
<1>4. SourceInv(i)'
  BY <1>3, Zenon DEF IInv, PipeInv, SourceInv
<1>5. BufferInv(i)' /\ ReadyInv(i)'
  BY <1>3, Zenon DEF BufferInv, ReadyInv
<1>6. CopyInv(i)'
  <2> SUFFICES ASSUME ~short[i] PROVE CopyInv(i)'
    BY <1>3, Zenon DEF CopyInv
  <2>1. out[i] = Bytes(Len(out[i])) /\ Len(out[i]) = pos[i]
    BY <1>2, Zenon DEF IInv, PipeInv, CopyInv
  <2>2. ~(state'[i] = "WRITE" /\ len'[i] > 0) /\ state'[i] # "EOF"
    BY <1>3
  <2>3. out'[i] = Bytes(Len(out'[i])) /\ Len(out'[i]) = pos'[i]
    BY <1>3, <2>1, Zenon
  <2> QED
    BY <2>2, <2>3, Zenon DEF CopyInv
<1> QED
  BY <1>1, <1>4, <1>5, <1>6, Zenon DEF PipeInv

\* off after a write.
LEMMA AdvanceType ==
  ASSUME TypeOK, NEW i \in Pipe, NEW sz \in Int, Advance(i, sz)
  PROVE  /\ off' \in [Pipe -> Int] /\ state' \in [Pipe -> {"READ", "WRITE", "ERR", "EOF"}]
         /\ state'[i] = (IF off[i] + sz = len[i] THEN "READ" ELSE state[i])
<1>1. off[i] + sz \in Int /\ MaxOff \in Int
  BY RelayAssumption DEF TypeOK
<1> QED
  BY <1>1, Zenon DEF TypeOK, Advance

LEMMA WriteStep ==
  ASSUME IInv, NEW i \in Pipe, Write(i) PROVE TypeOK' /\ PipeInv(i)'
<1>1. PICK sz \in 1 .. len[i] :
        /\ Advance(i, sz)
        /\ short' = [short EXCEPT ![i] = @ \/ sz < len[i]]
        /\ out' = [out EXCEPT ![i] = IF short'[i] THEN @ ELSE @ \o SubSeq(buf[i], 1, sz)]
  BY Zenon DEF Write
<1>2. /\ state[i] = "WRITE" /\ len[i] > 0 /\ Len(buf[i]) = len[i]
      /\ len[i] \in Int /\ off[i] \in Int /\ sz \in Int /\ buf[i] \in Seq(1 .. LENGTH) /\ out[i] \in Seq(1 .. LENGTH)
  BY RelayAssumption, SMTT(30) DEF Write, CanGo, IInv, TypeOK, PipeInv, BufferInv
<1>3. /\ full' \in [Pipe -> BOOLEAN] /\ todo' = todo \ {i}
      /\ UNCHANGED <<variant, kind, main, ready, pushes, produced, closed, buf, len, pos, faults>>
  BY Zenon DEF Write, Handled, IInv, TypeOK
<1>4. /\ off' \in [Pipe -> Int] /\ state' \in [Pipe -> {"READ", "WRITE", "ERR", "EOF"}]
      /\ state'[i] = IF off[i] + sz = len[i] THEN "READ" ELSE "WRITE"
  BY <1>1, <1>2, AdvanceType, Zenon DEF IInv
<1>5. short' \in [Pipe -> BOOLEAN] /\ short'[i] = (short[i] \/ sz < len[i])
  BY <1>1, Zenon DEF IInv, TypeOK
<1>6. SubSeq(buf[i], 1, sz) \in Seq(1 .. LENGTH) /\ out[i] \o SubSeq(buf[i], 1, sz) \in Seq(1 .. LENGTH)
  <2>1. \A k \in 1 .. sz : buf[i][k] \in 1 .. LENGTH
    <3> SUFFICES ASSUME NEW k \in 1 .. sz PROVE buf[i][k] \in 1 .. LENGTH
      OBVIOUS
    <3>1. k \in 1 .. Len(buf[i])
      BY <1>2
    <3> QED
      BY <1>2, <3>1, ElementOfSeq, Zenon
  <2>2. SubSeq(buf[i], 1, sz) \in Seq(1 .. LENGTH)
    <3>1. 1 \in Int /\ sz \in Int
      BY <1>2
    <3> QED
      BY <2>1, <3>1, SubSeqProperties, Zenon
  <2> QED
    BY <1>2, <2>2, ConcatProperties, Zenon
<1>7. /\ out' \in [Pipe -> Seq(1 .. LENGTH)]
      /\ out'[i] = IF short'[i] THEN out[i] ELSE out[i] \o SubSeq(buf[i], 1, sz)
  <2> DEFINE o == IF short'[i] THEN out[i] ELSE out[i] \o SubSeq(buf[i], 1, sz)
  <2>1. o \in Seq(1 .. LENGTH)
    BY <1>2, <1>6, Zenon
  <2>2. out' = [out EXCEPT ![i] = o] /\ out \in [Pipe -> Seq(1 .. LENGTH)]
    BY <1>1, Zenon DEF IInv, TypeOK
  <2> HIDE DEF o
  <2>3. out' \in [Pipe -> Seq(1 .. LENGTH)] /\ out'[i] = o
    BY <2>1, <2>2, Zenon
  <2> QED
    BY <2>3 DEF o
<1>8. TypeOK'
  BY <1>3, <1>4, <1>5, <1>7, Zenon DEF IInv, TypeOK
<1>9. SourceInv(i)' /\ BufferInv(i)' /\ ReadyInv(i)'
  BY <1>2, <1>3, Zenon DEF IInv, PipeInv, SourceInv, BufferInv, ReadyInv
<1>10. CopyInv(i)'
  <2> SUFFICES ASSUME ~short'[i] PROVE CopyInv(i)'
    BY Zenon DEF CopyInv
  <2>1. ~short[i] /\ ~(sz < len[i])
    BY <1>5, Zenon
  <2>2. sz = len[i]
    BY <1>2, <2>1
  <2>3. /\ out[i] = Bytes(Len(out[i])) /\ off[i] = 0 /\ Len(out[i]) + len[i] = pos[i]
        /\ buf[i] = [k \in 1 .. Len(buf[i]) |-> Len(out[i]) + k]
    BY <1>2, <2>1, Zenon DEF IInv, PipeInv, CopyInv
  <2>4. SubSeq(buf[i], 1, sz) = buf[i]
    BY <1>2, <2>2, SubSeqFull, Zenon
  <2>5. out'[i] = out[i] \o buf[i]
    BY <1>7, <2>4, Zenon
  <2>6. out'[i] = Bytes(Len(out'[i]))
    <3>1. out[i] \o buf[i] = Bytes(Len(out[i] \o buf[i]))
      BY <1>2, <2>3, ExtendBytes, ZenonT(40)
    <3> QED
      BY <2>5, <3>1, Zenon
  <2>7. state'[i] = "READ" /\ Len(out'[i]) = pos'[i]
    <3>1. Len(out'[i]) = Len(out[i]) + len[i]
      <4>1. Len(out[i] \o buf[i]) = Len(out[i]) + Len(buf[i])
        BY <1>2, ConcatProperties, Zenon
      <4> QED
        BY <1>2, <2>5, <4>1, Zenon
    <3>2. off[i] + sz = len[i]
      BY <1>2, <2>2, <2>3
    <3> QED
      BY <1>3, <1>4, <2>3, <3>1, <3>2, Zenon
  <2> QED
    BY <2>6, <2>7, Zenon DEF CopyInv
<1> QED
  BY <1>8, <1>9, <1>10 DEF PipeInv

LEMMA WriteFailsStep ==
  ASSUME IInv, NEW i \in Pipe, WriteFails(i) PROVE TypeOK' /\ PipeInv(i)'
<1>1. /\ state[i] = "WRITE" /\ todo' = todo \ {i}
      /\ UNCHANGED <<variant, kind, main, ready, pushes, produced, closed, buf, len, full, pos, out>>
  BY Zenon DEF WriteFails, CanGo, Handled
<1>2. /\ off' \in [Pipe -> Int] /\ state' \in [Pipe -> {"READ", "WRITE", "ERR", "EOF"}]
      /\ state'[i] \in {"READ", "WRITE"}
      /\ variant = "epoll" => off'[i] = off[i] /\ state'[i] = "WRITE"
  <2>1. CASE variant = "epoll"
    BY <1>1, <2>1, Zenon DEF WriteFails, IInv, TypeOK
  <2>2. CASE variant # "epoll"
    BY <1>1, <2>2, AdvanceType DEF WriteFails, IInv
  <2> QED
    BY <2>1, <2>2, Zenon
<1>3. /\ short' \in [Pipe -> BOOLEAN] /\ faults' \in 0 .. MaxFaults
      /\ short[i] => short'[i]
      /\ len[i] > 0 /\ ~short'[i] => variant = "epoll"
  <2>1. CASE len[i] = -1 /\ UNCHANGED <<short, faults>>
    BY <2>1 DEF IInv, TypeOK
  <2>2. CASE /\ len[i] > 0 /\ SomeFault
             /\ short' = [short EXCEPT ![i] = @ \/ variant # "epoll"]
    <3>1. faults' \in 0 .. MaxFaults
      BY <2>2, RelayAssumption DEF IInv, TypeOK, SomeFault
    <3>2. short' \in [Pipe -> BOOLEAN] /\ short'[i] = (short[i] \/ variant # "epoll")
      BY <2>2, Zenon DEF IInv, TypeOK
    <3> QED
      BY <3>1, <3>2, Zenon
  <2> QED
    BY <2>1, <2>2, Zenon DEF WriteFails
<1>4. TypeOK'
  BY <1>1, <1>2, <1>3, Zenon DEF IInv, TypeOK
<1>5. SourceInv(i)' /\ BufferInv(i)' /\ ReadyInv(i)'
  BY <1>1, Zenon DEF IInv, PipeInv, SourceInv, BufferInv, ReadyInv
<1>6. CopyInv(i)'
  <2> SUFFICES ASSUME ~short'[i] PROVE CopyInv(i)'
    BY Zenon DEF CopyInv
  <2>1. ~short[i] /\ CopyInv(i) /\ BufferInv(i)
    BY <1>3, Zenon DEF IInv, PipeInv
  <2>2. CASE len[i] = -1
    BY <1>1, <1>2, <2>1, <2>2, SMTT(30) DEF CopyInv
  <2>3. CASE len[i] > 0
    BY <1>1, <1>2, <1>3, <2>1, <2>3, Zenon DEF CopyInv
  <2> QED
    BY <1>1, <2>1, <2>2, <2>3, Zenon DEF BufferInv
<1> QED
  BY <1>4, <1>5, <1>6, Zenon DEF PipeInv

-----------------------------------------------------------------------------
LEMMA NextIInv == IInv /\ [Next]_vars => IInv'
<1> SUFFICES ASSUME IInv, [Next]_vars PROVE IInv'
  OBVIOUS
<1>1. CASE UNCHANGED vars
  <2> USE DEF vars, stVars, envVars, histVars
  <2>1. TypeOK' /\ TurnsInv'
    BY <1>1, Zenon DEF IInv, TypeOK, TurnsInv, Limited
  <2>2. ASSUME NEW i \in Pipe PROVE PipeInv(i)'
    <3>1. PipeInv(i)
      BY Zenon DEF IInv
    <3> QED
      BY <1>1, <3>1 DEF PipeInv, SourceInv, BufferInv, ReadyInv, CopyInv
  <2> QED
    BY <2>1, <2>2, Zenon DEF IInv
<1>2. ASSUME NEW i \in Pipe, PipeStep(i) PROVE IInv'
  <2>1. TypeOK' /\ PipeInv(i)'
    BY <1>2, BreakStep, SkipStep, ReadStep, ReadFailsStep, WriteStep, WriteFailsStep, Zenon DEF PipeStep
  <2>2. \A k \in Pipe : PipeInv(k)'
    BY <1>2, <2>1, OthersKept, Zenon
  <2>3. main = "handle" /\ UNCHANGED main
    BY <1>2, Zenon DEF PipeStep, Break, Skip, Read, ReadFails, Write, WriteFails, CanGo, At, Handled
  <2>4. TurnsInv'
    BY <2>3 DEF TurnsInv
  <2> QED
    BY <2>1, <2>2, <2>4, Zenon DEF IInv
<1> QED
  BY <1>1, <1>2, EnvStep, MainStep, WaitStep, Zenon DEF Next, Process, Proceed

\* select.c, poll.c and epoll.c copy every pair none of whose writes was short: the
\* destination is a prefix of the source at every moment, and all of it in STATE_EOF.
THEOREM CopiesSourceHolds == Spec => []CopiesSource
<1>1. IInv => CopiesSource
  <2> SUFFICES ASSUME IInv, NEW i \in Pipe, ~short[i]
               PROVE  out[i] = Bytes(Len(out[i])) /\ (state[i] = "EOF" => Len(out[i]) = LENGTH)
    BY DEF IInv, CopiesSource
  <2> QED
    BY Zenon DEF IInv, PipeInv, CopyInv
<1> QED
  BY <1>1, InitIInv, NextIInv, PTL DEF Spec
=============================================================================
