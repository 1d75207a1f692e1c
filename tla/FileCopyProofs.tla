--------------------------- MODULE FileCopyProofs ---------------------------
(***************************************************************************)
(* Proofs about FileCopy, for files and buffers of every length: that the  *)
(* copy is exact and that trunc_ln_10.c does not lose a line it should     *)
(* keep.                                                                   *)
(***************************************************************************)
EXTENDS FileCopy, FiniteSetTheorems, WellFoundedInduction, TLAPS

\* The bytes before the first that is the end of file when seen through a char.
UpToEof(s) == SubSeq(s, 1, Cardinality({k \in DOMAIN s : \A m \in 1 .. k : s[m] # 255}))

\* What a program has written when it ends.
Reached ==
  CASE program \in {"read", "fread"} -> src
    [] program = "fgetc" -> UpToEof(src)
    [] program = "trunc" -> UpToEof(WithoutLine(src))

\* How far the loops have come in the source.
Handled == pos - remain

\* What is in the buffer, and the lengths, whether or not output was lost.
BufferInv ==
  /\ pc \in {"open", "read", "write"} => pos <= Len(src)
  /\ pc # "write" /\ pc \notin {"failed", "killed"} => remain = 0
  /\ pc = "write" =>
       /\ program \in {"read", "trunc"}
       /\ remain \in 1 .. Len(buf) /\ Len(buf) <= pos
       /\ \A k \in 1 .. Len(buf) : buf[k] = src[pos - Len(buf) + k]
  /\ pc = "open" => pos = 0 /\ line = 1 /\ tmp = <<>>
  /\ pc \in {"reopen", "back"} => program = "trunc"
  /\ pc = "reopen" => pos = 0

LengthInv ==
  /\ program # "trunc" /\ pc \in {"open", "read", "write"} => Len(dst) <= Handled
  /\ program = "trunc" /\ pc \in {"open", "read", "write"} => Len(tmp) <= Handled /\ line <= Handled + 1
  /\ program = "trunc" /\ pc \in {"open", "read", "write", "reopen"} => dst = src
  /\ pc = "back" => Len(dst) <= pos /\ pos <= Len(tmp)

\* The lines of the first n bytes: up to a those before LINE, up to b that line.
Cut(n, a, b) ==
  /\ a \in 0 .. n /\ b \in a .. n
  /\ \A k \in 1 .. a : LineOf(src, k) < LINE
  /\ \A k \in a + 1 .. b : LineOf(src, k) = LINE
  /\ \A k \in b + 1 .. n : LineOf(src, k) > LINE

\* t is what to keep of the first n bytes, of which the next one is in line l.
LinesCut(n, l, t) ==
  \E a, b \in 0 .. n :
    /\ Cut(n, a, b) /\ (l < LINE => a = n) /\ (l = LINE => b = n)
    /\ t = SubSeq(src, 1, a) \o SubSeq(src, b + 1, n)

\* What tmp holds during the first loop.
LinesInv == line = LineOf(src, Handled + 1) /\ LinesCut(Handled, line, tmp)

\* A copy that was not lost is the beginning of the file, at the end what is wanted.
StraightInv ==
  program # "trunc" /\ ~silent =>
    /\ pc \in {"open", "read", "write"} => dst = SubSeq(src, 1, Handled)
    /\ pc \in {"open", "read"} /\ program = "fgetc" => \A k \in 1 .. pos : src[k] # 255
    /\ pc = "done" => dst = Reached
    /\ dst \in Beginnings(Reached)

\* The way of trunc_ln_10.c through tmp and back.
DetourInv ==
  program = "trunc" /\ ~silent =>
    /\ pc \in {"open", "read", "write"} => LinesInv
    /\ pc \in {"reopen", "back", "done"} => tmp = WithoutLine(src)
    /\ pc = "back" => dst = SubSeq(tmp, 1, pos) /\ \A k \in 1 .. pos : tmp[k] # 255
    /\ pc = "done" => dst = UpToEof(tmp)
    /\ dst = src \/ (tmp = WithoutLine(src) /\ dst \in Beginnings(UpToEof(tmp)))

\* All of it is inductive.
CopyIInv == TypeOK /\ BufferInv /\ LengthInv /\ StraightInv /\ DetourInv

-----------------------------------------------------------------------------
\* Facts about sequences: the files, pieces of a sequence, and what two pieces
\* that follow each other make.
LEMMA FilesAre ==
  ASSUME NEW s
  PROVE  s \in Files <=> s \in Seq(Bytes) /\ Len(s) \in Nat /\ Len(s) <= Length
<1>1. Length \in Nat
  BY CopyAssumption
<1>2. ASSUME s \in Files PROVE s \in Seq(Bytes) /\ Len(s) \in Nat /\ Len(s) <= Length
  <2>1. PICK n \in 0 .. Length : s \in [1 .. n -> Bytes]
    BY <1>2 DEF Files
  <2> QED
    BY <1>1, <2>1
<1>3. ASSUME s \in Seq(Bytes), Len(s) <= Length PROVE s \in Files
  <2>1. s \in [1 .. Len(s) -> Bytes] /\ Len(s) \in 0 .. Length
    BY <1>1, <1>3
  <2> QED
    BY <2>1, Zenon DEF Files
<1> QED
  BY <1>2, <1>3, Zenon

\* A piece of a sequence.
LEMMA Piece ==
  ASSUME NEW S, NEW s \in Seq(S), NEW a \in Nat, NEW b \in Nat, a <= b, b <= Len(s)
  PROVE  /\ SubSeq(s, a + 1, b) \in Seq(S) /\ Len(SubSeq(s, a + 1, b)) = b - a
         /\ \A k \in 1 .. b - a : SubSeq(s, a + 1, b)[k] = s[a + k]
OBVIOUS

\* The same for a file, from a given offset on.
LEMMA PieceOfFile ==
  ASSUME NEW s \in Seq(Bytes), NEW a \in Nat, NEW b \in Nat, a <= b, b <= Len(s)
  PROVE  /\ SubSeq(s, a + 1, b) \in Seq(Bytes) /\ Len(SubSeq(s, a + 1, b)) = b - a
         /\ \A k \in 1 .. b - a : SubSeq(s, a + 1, b)[k] = s[a + k]
OBVIOUS

\* The first bytes of a sequence.
LEMMA Start ==
  ASSUME NEW S, NEW s \in Seq(S), NEW b \in Nat, b <= Len(s)
  PROVE  /\ SubSeq(s, 1, b) \in Seq(S) /\ Len(SubSeq(s, 1, b)) = b
         /\ \A k \in 1 .. b : SubSeq(s, 1, b)[k] = s[k]
OBVIOUS

\* Two sequences with the same bytes are the same.
LEMMA SameSeq ==
  ASSUME NEW S, NEW s \in Seq(S), NEW t \in Seq(S), Len(s) = Len(t),
         \A k \in 1 .. Len(s) : s[k] = t[k]
  PROVE  s = t
OBVIOUS

\* The piece that is all of it.
LEMMA Whole == ASSUME NEW S, NEW s \in Seq(S) PROVE SubSeq(s, 1, Len(s)) = s
OBVIOUS

\* The bytes of a concatenation.
LEMMA Joined ==
  ASSUME NEW S, NEW s \in Seq(S), NEW t \in Seq(S)
  PROVE  /\ s \o t \in Seq(S) /\ Len(s \o t) = Len(s) + Len(t)
         /\ \A k \in 1 .. Len(s) : (s \o t)[k] = s[k]
         /\ \A k \in 1 .. Len(t) : (s \o t)[Len(s) + k] = t[k]
OBVIOUS

\* One byte is appended.
LEMMA Grown ==
  ASSUME NEW S, NEW s \in Seq(S), NEW e \in S
  PROVE  /\ Append(s, e) \in Seq(S) /\ Len(Append(s, e)) = Len(s) + 1
         /\ \A k \in 1 .. Len(s) : Append(s, e)[k] = s[k]
         /\ Append(s, e)[Len(s) + 1] = e
OBVIOUS

\* A piece and the element after it.
LEMMA PieceGrows ==
  ASSUME NEW S, NEW s \in Seq(S), NEW a \in Nat, NEW b \in Nat, a <= b, b + 1 <= Len(s)
  PROVE  Append(SubSeq(s, a + 1, b), s[b + 1]) = SubSeq(s, a + 1, b + 1)
<1> DEFINE u == SubSeq(s, a + 1, b)
           v == SubSeq(s, a + 1, b + 1)
           w == Append(u, s[b + 1])
<1>0. s[b + 1] \in S /\ b <= Len(s) /\ b + 1 \in Nat /\ a <= b + 1 /\ Len(s) \in Nat
  OBVIOUS
<1>1. u \in Seq(S) /\ Len(u) = b - a /\ \A k \in 1 .. b - a : u[k] = s[a + k]
  BY <1>0, Piece
<1>2. v \in Seq(S) /\ Len(v) = b + 1 - a /\ \A k \in 1 .. b + 1 - a : v[k] = s[a + k]
  BY <1>0, Piece
<1> HIDE DEF u, v
<1>3. /\ w \in Seq(S) /\ Len(w) = b - a + 1
      /\ \A k \in 1 .. b - a : w[k] = u[k]
      /\ w[b - a + 1] = s[b + 1]
  BY <1>0, <1>1, Grown
<1> HIDE DEF w
<1>4. ASSUME NEW k \in 1 .. Len(w) PROVE w[k] = v[k]
  <2>1. CASE k \in 1 .. b - a
    BY <1>1, <1>2, <1>3, <2>1
  <2>2. CASE k = b - a + 1
    BY <1>2, <1>3, <2>2
  <2> QED
    BY <1>3, <1>4, <2>1, <2>2
<1>5. w = v
  <2>1. Len(w) = Len(v)
    BY <1>2, <1>3
  <2>2. w \in Seq(S) /\ v \in Seq(S)
    BY <1>2, <1>3
  <2> QED
    BY <1>4, <2>1, <2>2, SameSeq, Zenon
<1> QED
  BY <1>5 DEF u, v, w

\* The start of a sequence and the piece after it.
LEMMA StartGrows ==
  ASSUME NEW S, NEW s \in Seq(S), NEW a \in Nat, NEW b \in Nat, a <= b, b <= Len(s)
  PROVE  SubSeq(s, 1, a) \o SubSeq(s, a + 1, b) = SubSeq(s, 1, b)
<1> DEFINE u == SubSeq(s, 1, a)
           v == SubSeq(s, a + 1, b)
           w == u \o v
           t == SubSeq(s, 1, b)
<1>0. Len(s) \in Nat /\ a <= Len(s)
  OBVIOUS
<1>1. u \in Seq(S) /\ Len(u) = a /\ \A k \in 1 .. a : u[k] = s[k]
  BY <1>0, Start, Zenon
<1>2. v \in Seq(S) /\ Len(v) = b - a /\ \A k \in 1 .. b - a : v[k] = s[a + k]
  BY <1>0, Piece
<1>3. t \in Seq(S) /\ Len(t) = b /\ \A k \in 1 .. b : t[k] = s[k]
  BY <1>0, Start, Zenon
<1> HIDE DEF u, v, t
<1>4. /\ w \in Seq(S) /\ Len(w) = Len(u) + Len(v)
      /\ \A k \in 1 .. Len(u) : w[k] = u[k]
      /\ \A k \in 1 .. Len(v) : w[Len(u) + k] = v[k]
  <2>1. u \in Seq(S) /\ v \in Seq(S)
    BY <1>1, <1>2, Zenon
  <2> QED
    BY <2>1, Joined, SMT
<1> HIDE DEF w
<1>5. Len(w) = b
  BY <1>1, <1>2, <1>4
<1>6. ASSUME NEW k \in 1 .. b PROVE w[k] = t[k]
  <2>1. CASE k \in 1 .. a
    BY <1>1, <1>3, <1>4, <2>1, Zenon
  <2>2. CASE k > a
    <3>1. k - a \in 1 .. b - a /\ a + (k - a) = k
      BY <2>2
    <3>2. w[a + (k - a)] = v[k - a]
      BY <1>1, <1>2, <1>4, <3>1, Zenon
    <3>3. v[k - a] = s[k]
      BY <1>2, <3>1
    <3> QED
      BY <1>3, <3>1, <3>2, <3>3, Zenon
  <2> QED
    BY <2>1, <2>2
<1>7. w = t
  BY <1>3, <1>4, <1>5, <1>6, SameSeq, Zenon
<1> QED
  BY <1>7 DEF u, v, w, t

\* What is lost at the end of a beginning leaves a beginning.
LEMMA BeginningIs ==
  ASSUME NEW S, NEW s \in Seq(S), NEW t \in Beginnings(s)
  PROVE  /\ t \in Seq(S) /\ Len(t) \in Nat /\ Len(t) <= Len(s) /\ t = SubSeq(s, 1, Len(t))
         /\ \A u \in Beginnings(t) : u \in Beginnings(s)
<1>1. PICK n \in 0 .. Len(s) : t = SubSeq(s, 1, n)
  BY Zenon DEF Beginnings
<1>2. t \in Seq(S) /\ Len(t) = n /\ \A k \in 1 .. n : t[k] = s[k]
  BY <1>1, Start
<1>3. ASSUME NEW u \in Beginnings(t) PROVE u \in Beginnings(s)
  <2>1. PICK m \in 0 .. n : u = SubSeq(t, 1, m)
    BY <1>2 DEF Beginnings
  <2>2. u \in Seq(S) /\ Len(u) = m /\ \A k \in 1 .. m : u[k] = t[k]
    BY <1>2, <2>1, Start
  <2> DEFINE v == SubSeq(s, 1, m)
  <2>3. v \in Seq(S) /\ Len(v) = m /\ \A k \in 1 .. m : v[k] = s[k]
    BY Start
  <2> HIDE DEF v
  <2>4. u = v
    BY <1>2, <2>2, <2>3, SameSeq
  <2> QED
    BY <2>4 DEF v, Beginnings
<1> QED
  BY <1>1, <1>2, <1>3

\* The first k bytes are one of the beginnings.
LEMMA IsBeginning ==
  ASSUME NEW S, NEW s \in Seq(S), NEW k \in Nat, k <= Len(s)
  PROVE  SubSeq(s, 1, k) \in Beginnings(s)
BY DEF Beginnings

-----------------------------------------------------------------------------
\* The number of positions in an interval.
LEMMA CountInterval ==
  ASSUME NEW a \in Nat, NEW b \in Nat, a <= b
  PROVE  IsFiniteSet(a + 1 .. b) /\ Cardinality(a + 1 .. b) = b - a
<1>1. ASSUME NEW c \in Int, NEW d \in Int, NEW e \in Nat, d - c + 1 = e
      PROVE IsFiniteSet(c .. d) /\ Cardinality(c .. d) = e
  <2>1. IsFiniteSet(c .. d) /\ Cardinality(c .. d) = IF c > d THEN 0 ELSE d - c + 1
    BY FS_Interval
  <2> QED
    BY <1>1, <2>1
<1>2. a + 1 \in Int /\ b \in Int /\ b - a \in Nat /\ b - (a + 1) + 1 = b - a
  OBVIOUS
<1> QED
  BY <1>1, <1>2, Zenon

\* The number of positions up to b.
LEMMA CountStart ==
  ASSUME NEW b \in Nat PROVE IsFiniteSet(1 .. b) /\ Cardinality(1 .. b) = b
<1>1. 0 \in Nat /\ 0 <= b /\ 0 + 1 = 1 /\ b - 0 = b
  OBVIOUS
<1>2. IsFiniteSet(0 + 1 .. b) /\ Cardinality(0 + 1 .. b) = b - 0
  BY <1>1, CountInterval, Zenon
<1> QED
  BY <1>1, <1>2, Zenon

\* The first k bytes are before the end of file if none of them is 255; they are
\* all that is before it if the next one is.
LEMMA EofIs ==
  ASSUME NEW s \in Seq(Bytes), NEW k \in Nat, k <= Len(s), \A m \in 1 .. k : s[m] # 255
  PROVE  /\ UpToEof(s) \in Seq(Bytes)
         /\ SubSeq(s, 1, k) \in Beginnings(UpToEof(s))
         /\ k = Len(s) \/ (k < Len(s) /\ s[k + 1] = 255) => SubSeq(s, 1, k) = UpToEof(s)
<1> DEFINE P == {l \in DOMAIN s : \A m \in 1 .. l : s[m] # 255}
           c == Cardinality(P)
           t == SubSeq(s, 1, c)
<1>0. Len(s) \in Nat /\ DOMAIN s = 1 .. Len(s)
  OBVIOUS
<1>1. P \in SUBSET (1 .. Len(s)) /\ 1 .. k \in SUBSET P
  <2>1. ASSUME NEW l \in 1 .. k PROVE l \in P
    BY <1>0
  <2> QED
    BY <1>0, <2>1
<1>2. UpToEof(s) = t
  BY Zenon DEF UpToEof
<1>3. c \in Nat /\ c <= Len(s) /\ k <= c
  <2> HIDE DEF P
  <2>1. IsFiniteSet(1 .. Len(s)) /\ Cardinality(1 .. Len(s)) = Len(s)
    BY <1>0, CountStart
  <2>2. IsFiniteSet(P) /\ c <= Len(s)
    <3>1. IsFiniteSet(P) /\ c <= Cardinality(1 .. Len(s))
      BY <1>1, <2>1, FS_Subset, Zenon
    <3> QED
      BY <2>1, <3>1, Zenon
  <2>3. Cardinality(1 .. k) <= c /\ Cardinality(1 .. k) = k
    BY <1>1, <2>2, FS_Subset, CountStart, Zenon
  <2>4. c \in Nat
    BY <2>2, FS_CardinalityType, Zenon
  <2> QED
    BY <2>2, <2>3, <2>4, Zenon
<1>4. k = Len(s) \/ (k < Len(s) /\ s[k + 1] = 255) => c = k
  <2>1. ASSUME k = Len(s) PROVE P = 1 .. k
    BY <1>1, <2>1
  <2>2. ASSUME k < Len(s), s[k + 1] = 255 PROVE P = 1 .. k
    <3>1. ASSUME NEW l \in P PROVE l \in 1 .. k
      <4>1. l \in 1 .. Len(s) /\ \A m \in 1 .. l : s[m] # 255
        BY <1>0
      <4>2. ~(k + 1 \in 1 .. l)
        BY <2>2, <4>1
      <4> QED
        BY <4>1, <4>2
    <3> QED
      BY <1>1, <3>1
  <2> HIDE DEF P
  <2> QED
    BY <2>1, <2>2, CountStart
<1> HIDE DEF P, c
<1>5. t \in Seq(Bytes) /\ Len(t) = c /\ \A m \in 1 .. c : t[m] = s[m]
  BY <1>0, <1>3, Start
<1>6. SubSeq(s, 1, k) \in Beginnings(t)
  <2> DEFINE u == SubSeq(s, 1, k)
             v == SubSeq(t, 1, k)
  <2>1. u \in Seq(Bytes) /\ Len(u) = k /\ \A m \in 1 .. k : u[m] = s[m]
    BY Start
  <2> HIDE DEF t
  <2>2. v \in Seq(Bytes) /\ Len(v) = k /\ \A m \in 1 .. k : v[m] = t[m]
    BY <1>3, <1>5, Start
  <2>3. v \in Beginnings(t)
    BY <1>3, <1>5, IsBeginning
  <2> HIDE DEF u, v
  <2>4. u = v
    BY <1>3, <1>5, <2>1, <2>2, SameSeq
  <2> QED
    BY <2>3, <2>4, Zenon DEF u
<1> QED
  BY <1>2, <1>4, <1>5, <1>6

\* A set of numbers that is not empty has a least one.
LEMMA LeastNat ==
  ASSUME NEW S, S \subseteq Nat, S # {} PROVE \E y \in S : \A z \in S : ~(z < y)
<1>1. PICK y \in S : \A z \in S : <<z, y>> \notin OpToRel(<, Nat)
  BY WFMin, NatLessThanWellFounded
<1> QED
  BY <1>1, Zenon DEF OpToRel

\* What is before the end of file is a beginning, and all if no byte is 255.
LEMMA EofStops ==
  ASSUME NEW s \in Seq(Bytes)
  PROVE  /\ UpToEof(s) \in Beginnings(s)
         /\ \/ UpToEof(s) = s
            \/ Len(UpToEof(s)) < Len(s) /\ s[Len(UpToEof(s)) + 1] = 255
<1> DEFINE F == {k \in 1 .. Len(s) : s[k] = 255}
<1>0. Len(s) \in Nat
  OBVIOUS
<1>1. CASE F = {}
  <2>1. \A m \in 1 .. Len(s) : s[m] # 255
    BY <1>1
  <2>2. SubSeq(s, 1, Len(s)) = UpToEof(s)
    BY <1>0, <2>1, EofIs
  <2>3. SubSeq(s, 1, Len(s)) = s
    BY Whole, Zenon
  <2>4. SubSeq(s, 1, Len(s)) \in Beginnings(s)
    BY <1>0, IsBeginning
  <2> QED
    BY <2>2, <2>3, <2>4, Zenon
<1>2. CASE F # {}
  <2>1. F \subseteq Nat
    BY <1>0
  <2>2. PICK y \in F : \A z \in F : ~(z < y)
    <3> HIDE DEF F
    <3> QED
      BY <1>2, <2>1, LeastNat, Zenon
  <2>3. y \in 1 .. Len(s) /\ s[y] = 255
    BY <2>2
  <2> DEFINE k == y - 1
  <2>4. k \in Nat /\ k < Len(s) /\ k <= Len(s) /\ k + 1 = y
    BY <1>0, <2>3
  <2>5. \A m \in 1 .. k : s[m] # 255
    BY <1>0, <2>2, <2>3
  <2>6. s[k + 1] = 255
    BY <2>3, <2>4, Zenon
  <2> HIDE DEF k, F
  <2>7. SubSeq(s, 1, k) = UpToEof(s)
    BY <2>4, <2>5, <2>6, EofIs
  <2>8. SubSeq(s, 1, k) \in Beginnings(s) /\ Len(SubSeq(s, 1, k)) = k
    BY <2>4, IsBeginning, Start
  <2>9. UpToEof(s) \in Beginnings(s) /\ Len(UpToEof(s)) = k
    BY <2>7, <2>8, Zenon
  <2>10. Len(UpToEof(s)) < Len(s) /\ s[Len(UpToEof(s)) + 1] = 255
    BY <2>4, <2>6, <2>9, Zenon
  <2> QED
    BY <2>9, <2>10, Zenon
<1> QED
  BY <1>1, <1>2, Zenon

\* The number of the line goes up with every newline.
LEMMA LineStep ==
  ASSUME NEW s, NEW n \in Nat
  PROVE  /\ LineOf(s, n + 1) \in Nat /\ LineOf(s, n + 1) >= 1
         /\ LineOf(s, n + 2) =
              IF s[n + 1] = 10 THEN LineOf(s, n + 1) + 1 ELSE LineOf(s, n + 1)
<1> DEFINE P == {m \in 1 .. n : s[m] = 10}
           Q == {m \in 1 .. n + 1 : s[m] = 10}
<1>1. (n + 1) - 1 = n /\ (n + 2) - 1 = n + 1
  OBVIOUS
<1>2. LineOf(s, n + 1) = Cardinality(P) + 1 /\ LineOf(s, n + 2) = Cardinality(Q) + 1
  BY <1>1, Zenon DEF LineOf
<1>3. IsFiniteSet(P) /\ n + 1 \notin P
  <2>1. P \in SUBSET (1 .. n) /\ n + 1 \notin P
    OBVIOUS
  <2>2. IsFiniteSet(1 .. n)
    BY CountStart, Zenon
  <2> HIDE DEF P
  <2> QED
    BY <2>1, <2>2, FS_Subset, Zenon
<1>4. Cardinality(P) \in Nat
  BY <1>3, FS_CardinalityType, Zenon
<1>5. CASE s[n + 1] = 10
  <2>1. Q = P \cup {n + 1}
    BY <1>5
  <2> HIDE DEF P, Q
  <2>2. Cardinality(Q) = Cardinality(P) + 1
    BY <1>3, <2>1, FS_AddElement, Zenon
  <2> QED
    BY <1>2, <1>4, <1>5, <2>2
<1>6. CASE s[n + 1] # 10
  <2>1. Q = P
    BY <1>6
  <2> HIDE DEF P, Q
  <2> QED
    BY <1>2, <1>4, <1>6, <2>1
<1> QED
  BY <1>5, <1>6

\* The first byte is in line 1.
LEMMA FirstLine == ASSUME NEW s PROVE LineOf(s, 1) = 1
<1>1. {m \in 1 .. 1 - 1 : s[m] = 10} = {}
  OBVIOUS
<1>2. LineOf(s, 1) = 0 + 1
  BY <1>1, FS_EmptySet, Zenon DEF LineOf
<1> QED
  BY <1>2


\* Where the lines are cut says what the file is without line LINE.
LEMMA WithoutIs ==
  ASSUME src \in Seq(Bytes), NEW a, NEW b, Cut(Len(src), a, b)
  PROVE  WithoutLine(src) = SubSeq(src, 1, a) \o SubSeq(src, b + 1, Len(src))
<1> DEFINE n == Len(src)
           P == {k \in DOMAIN src : LineOf(src, k) < LINE}
           Q == {k \in DOMAIN src : LineOf(src, k) > LINE}
<1>0. n \in Nat /\ DOMAIN src = 1 .. n /\ LINE \in Nat
  BY CopyAssumption
<1>1. a \in 0 .. n /\ b \in a .. n
  BY Zenon DEF Cut
<1>2. ASSUME NEW k \in 1 .. n PROVE LineOf(src, k) \in Nat
  <2>1. k - 1 \in Nat /\ (k - 1) + 1 = k
    OBVIOUS
  <2>2. LineOf(src, (k - 1) + 1) \in Nat
    BY <2>1, LineStep, Zenon
  <2> QED
    BY <2>1, <2>2
<1>3. ASSUME NEW k \in 1 .. n
      PROVE  /\ k \in 1 .. a => LineOf(src, k) < LINE
             /\ k \in a + 1 .. b => LineOf(src, k) = LINE
             /\ k \in b + 1 .. n => LineOf(src, k) > LINE
             /\ k \in 1 .. a \/ k \in a + 1 .. b \/ k \in b + 1 .. n
  <2>1. k \in 1 .. a \/ k \in a + 1 .. b \/ k \in b + 1 .. n
    BY <1>0, <1>1
  <2> QED
    BY <2>1, Zenon DEF Cut
<1>4. P = 1 .. a
  <2>1. \A k \in 1 .. a : k \in 1 .. n
    BY <1>0, <1>1
  <2>2. ASSUME NEW k \in 1 .. n PROVE k \in P <=> k \in 1 .. a
    BY <1>0, <1>2, <1>3
  <2> QED
    BY <1>0, <2>1, <2>2, Zenon
<1>5. Q = b + 1 .. n
  <2>1. \A k \in b + 1 .. n : k \in 1 .. n
    BY <1>0, <1>1
  <2>2. ASSUME NEW k \in 1 .. n PROVE k \in Q <=> k \in b + 1 .. n
    BY <1>0, <1>2, <1>3
  <2> QED
    BY <1>0, <2>1, <2>2, Zenon
<1>6. WithoutLine(src) = SubSeq(src, 1, Cardinality(P)) \o SubSeq(src, n - Cardinality(Q) + 1, n)
  BY Zenon DEF WithoutLine
<1> HIDE DEF P, Q
<1>7. Cardinality(P) = a /\ Cardinality(Q) = n - b
  BY <1>0, <1>1, <1>4, <1>5, CountStart, CountInterval
<1>8. n - (n - b) + 1 = b + 1
  BY <1>0, <1>1
<1> QED
  BY <1>6, <1>7, <1>8, Zenon

\* A byte appended after the gap extends the second piece.
LEMMA AppendJoined ==
  ASSUME NEW u \in Seq(Bytes), NEW v \in Seq(Bytes), NEW e \in Bytes
  PROVE  Append(u \o v, e) = u \o Append(v, e)
<1> DEFINE x == u \o v
           y == Append(v, e)
           p == Append(x, e)
           q == u \o y
<1>0. Len(u) \in Nat /\ Len(v) \in Nat
  OBVIOUS
<1>1. /\ x \in Seq(Bytes) /\ Len(x) = Len(u) + Len(v)
      /\ \A k \in 1 .. Len(u) : x[k] = u[k]
      /\ \A k \in 1 .. Len(v) : x[Len(u) + k] = v[k]
  BY Joined, SMT
<1>2. y \in Seq(Bytes) /\ Len(y) = Len(v) + 1 /\ (\A k \in 1 .. Len(v) : y[k] = v[k]) /\ y[Len(v) + 1] = e
  BY Grown
<1> HIDE DEF x, y
<1>3. p \in Seq(Bytes) /\ Len(p) = Len(x) + 1 /\ (\A k \in 1 .. Len(x) : p[k] = x[k]) /\ p[Len(x) + 1] = e
  BY <1>1, Grown
<1>4. /\ q \in Seq(Bytes) /\ Len(q) = Len(u) + Len(y)
      /\ \A k \in 1 .. Len(u) : q[k] = u[k]
      /\ \A k \in 1 .. Len(y) : q[Len(u) + k] = y[k]
  <2>1. y \in Seq(Bytes)
    BY <1>2
  <2> QED
    BY <2>1, Joined, SMT
<1> HIDE DEF p, q
<1>5. ASSUME NEW k \in 1 .. Len(u) + Len(v) + 1 PROVE p[k] = q[k]
  <2>1. CASE k \in 1 .. Len(u)
    BY <1>0, <1>1, <1>3, <1>4, <2>1
  <2>2. CASE k \in Len(u) + 1 .. Len(u) + Len(v)
    <3>1. k - Len(u) \in 1 .. Len(v) /\ k - Len(u) \in 1 .. Len(v) + 1 /\ Len(u) + (k - Len(u)) = k
      BY <1>0, <2>2
    <3>2. q[Len(u) + (k - Len(u))] = v[k - Len(u)]
      BY <1>2, <1>4, <3>1, Zenon
    <3>3. x[Len(u) + (k - Len(u))] = v[k - Len(u)]
      BY <1>1, <3>1, Zenon
    <3>4. p[k] = x[k]
      BY <1>0, <1>1, <1>3, <2>2
    <3> QED
      BY <3>1, <3>2, <3>3, <3>4, Zenon
  <2>3. CASE k = Len(u) + (Len(v) + 1)
    <3>1. Len(v) + 1 \in 1 .. Len(v) + 1 /\ k = Len(u) + Len(v) + 1
      BY <1>0, <2>3
    <3> QED
      BY <1>1, <1>2, <1>3, <1>4, <2>3, <3>1, Zenon
  <2> QED
    BY <1>0, <2>1, <2>2, <2>3
<1>6. Len(p) = Len(u) + Len(v) + 1 /\ Len(q) = Len(p)
  BY <1>0, <1>1, <1>2, <1>3, <1>4
<1>7. p = q
  BY <1>3, <1>4, <1>5, <1>6, SameSeq, Zenon
<1> QED
  BY <1>7 DEF p, q, x, y

\* A turn of the loop over the bytes keeps what the lines are cut into.
LEMMA LinesStep ==
  ASSUME NEW s \in Seq(Bytes), NEW n \in Nat, n + 1 <= Len(s),
         NEW a \in 0 .. n, NEW b \in a .. n
  PROVE  /\ Append(SubSeq(s, 1, a) \o SubSeq(s, b + 1, n), s[n + 1])
              = SubSeq(s, 1, a) \o SubSeq(s, b + 1, n + 1)
         /\ Append(SubSeq(s, 1, n), s[n + 1]) = SubSeq(s, 1, n + 1)
         /\ SubSeq(s, 1, n) \o SubSeq(s, n + 1, n) = SubSeq(s, 1, n)
         /\ SubSeq(s, 1, a) \o SubSeq(s, n + 1, n) = SubSeq(s, 1, a)
         /\ SubSeq(s, 1, a) \o SubSeq(s, n + 2, n + 1) = SubSeq(s, 1, a)
         /\ SubSeq(s, 1, n + 1) \o SubSeq(s, n + 2, n + 1) = SubSeq(s, 1, n + 1)
<1>0. Len(s) \in Nat /\ s[n + 1] \in Bytes /\ a \in Nat /\ b \in Nat
  OBVIOUS
<1>1. ASSUME NEW u \in Seq(Bytes), NEW v \in Seq(Bytes), NEW e \in Bytes
      PROVE  Append(u \o v, e) = u \o Append(v, e)
  BY AppendJoined, Zenon
<1>2. ASSUME NEW u \in Seq(Bytes), NEW v \in Seq(Bytes), Len(v) = 0 PROVE u \o v = u
  BY <1>2
<1>3. SubSeq(s, 1, a) \in Seq(Bytes) /\ SubSeq(s, b + 1, n) \in Seq(Bytes)
  BY <1>0, Start, Piece
<1>4. SubSeq(s, n + 1, n) \in Seq(Bytes) /\ Len(SubSeq(s, n + 1, n)) = 0
  BY <1>0
<1>5. SubSeq(s, n + 2, n + 1) \in Seq(Bytes) /\ Len(SubSeq(s, n + 2, n + 1)) = 0
  BY <1>0
<1>6. SubSeq(s, 1, n) \in Seq(Bytes) /\ SubSeq(s, 1, n + 1) \in Seq(Bytes)
  BY <1>0, Start
<1>7. Append(SubSeq(s, b + 1, n), s[n + 1]) = SubSeq(s, b + 1, n + 1)
  BY <1>0, PieceGrows
<1>8. Append(SubSeq(s, 1, n), s[n + 1]) = SubSeq(s, 1, n + 1)
  <2>1. 0 \in Nat /\ 0 <= n /\ 0 + 1 = 1
    OBVIOUS
  <2>2. Append(SubSeq(s, 0 + 1, n), s[n + 1]) = SubSeq(s, 0 + 1, n + 1)
    BY <2>1, PieceGrows
  <2> QED
    BY <2>1, <2>2, Zenon
<1>9. Append(SubSeq(s, 1, a) \o SubSeq(s, b + 1, n), s[n + 1])
        = SubSeq(s, 1, a) \o Append(SubSeq(s, b + 1, n), s[n + 1])
  BY <1>0, <1>1, <1>3, Zenon
<1>10. /\ SubSeq(s, 1, n) \o SubSeq(s, n + 1, n) = SubSeq(s, 1, n)
       /\ SubSeq(s, 1, a) \o SubSeq(s, n + 1, n) = SubSeq(s, 1, a)
  BY <1>2, <1>3, <1>4, <1>6, Zenon
<1>11. /\ SubSeq(s, 1, a) \o SubSeq(s, n + 2, n + 1) = SubSeq(s, 1, a)
       /\ SubSeq(s, 1, n + 1) \o SubSeq(s, n + 2, n + 1) = SubSeq(s, 1, n + 1)
  BY <1>2, <1>3, <1>5, <1>6, Zenon
<1> QED
  BY <1>7, <1>8, <1>9, <1>10, <1>11, Zenon

-----------------------------------------------------------------------------
CopyPC == {"open", "read", "write", "reopen", "back", "done", "failed", "killed"}

\* What the invariant says of each variable.
CopyTypes ==
  /\ program \in {"read", "fgetc", "fread", "trunc"} /\ pc \in CopyPC
  /\ src \in Seq(Bytes) /\ Len(src) \in Nat /\ Len(src) <= Length
  /\ tmp \in Seq(Bytes) /\ Len(tmp) \in Nat /\ Len(tmp) <= Length
  /\ dst \in Seq(Bytes) /\ Len(dst) \in Nat /\ Len(dst) <= Length
  /\ buf \in Seq(Bytes) /\ Len(buf) \in Nat /\ Len(buf) <= BUF_SIZE
  /\ pos \in Nat /\ pos <= Length /\ remain \in Nat /\ remain <= BUF_SIZE
  /\ line \in Nat /\ 1 <= line /\ line <= Length + 1
  /\ faults \in Nat /\ faults <= MaxFaults

CopyNumbers ==
  Length \in Nat /\ BUF_SIZE \in Nat /\ BUF_SIZE # 0 /\ LINE \in Nat /\ LINE # 0 /\ MaxFaults \in Nat

\* What the invariant says of the types.
LEMMA CopyKnown ==
  ASSUME CopyIInv
  PROVE  /\ CopyTypes /\ CopyNumbers /\ program \in Programs /\ silent \in BOOLEAN
         /\ BufferInv /\ LengthInv /\ StraightInv /\ DetourInv
<1>1. TypeOK
  BY Zenon DEF CopyIInv
<1>2. CopyNumbers /\ Programs \subseteq {"read", "fgetc", "fread", "trunc"}
  BY CopyAssumption DEF CopyNumbers
<1>3. silent \in BOOLEAN /\ program \in Programs
  BY <1>1, Zenon DEF TypeOK
<1>4. /\ src \in Seq(Bytes) /\ Len(src) \in Nat /\ Len(src) <= Length
      /\ tmp \in Seq(Bytes) /\ Len(tmp) \in Nat /\ Len(tmp) <= Length
      /\ dst \in Seq(Bytes) /\ Len(dst) \in Nat /\ Len(dst) <= Length
  <2>1. src \in Files /\ tmp \in Files /\ dst \in Files
    BY <1>1, Zenon DEF TypeOK
  <2> QED
    BY <2>1, FilesAre, Zenon
<1>5. /\ buf \in Seq(Bytes) /\ Len(buf) \in Nat /\ Len(buf) <= BUF_SIZE
      /\ pos \in Nat /\ pos <= Length /\ remain \in Nat /\ remain <= BUF_SIZE
      /\ line \in Nat /\ 1 <= line /\ line <= Length + 1
      /\ faults \in Nat /\ faults <= MaxFaults
  BY <1>1, <1>2 DEF TypeOK, CopyNumbers
<1>6. pc \in CopyPC
  BY <1>1, Zenon DEF TypeOK, CopyPC
<1>7. CopyTypes
  BY <1>2, <1>3, <1>4, <1>5, <1>6, Zenon DEF CopyTypes
<1> QED
  BY <1>2, <1>3, <1>7, Zenon DEF CopyIInv

\* The other way: a step that keeps what is known of each variable keeps the type.
LEMMA CopyTyped ==
  ASSUME CopyNumbers, CopyTypes', (program \in Programs)', (silent \in BOOLEAN)'
  PROVE  TypeOK'
<1>1. (src \in Files)' /\ (tmp \in Files)' /\ (dst \in Files)'
  <2>1. /\ src' \in Seq(Bytes) /\ Len(src') \in Nat /\ Len(src') <= Length
        /\ tmp' \in Seq(Bytes) /\ Len(tmp') \in Nat /\ Len(tmp') <= Length
        /\ dst' \in Seq(Bytes) /\ Len(dst') \in Nat /\ Len(dst') <= Length
    BY Zenon DEF CopyTypes
  <2>2. src' \in Files /\ tmp' \in Files /\ dst' \in Files
    BY <2>1, FilesAre, Zenon
  <2> QED
    BY <2>2 DEF Files
<1>2. /\ pos' \in 0 .. Length /\ remain' \in 0 .. BUF_SIZE /\ line' \in 1 .. Length + 1
      /\ faults' \in 0 .. MaxFaults
  BY DEF CopyTypes, CopyNumbers
<1>3. /\ buf' \in Seq(Bytes) /\ Len(buf') <= BUF_SIZE /\ program' \in Programs /\ silent' \in BOOLEAN
  BY Zenon DEF CopyTypes
<1>4. (pc \in {"open", "read", "write", "reopen", "back", "done", "failed", "killed"})'
  BY Zenon DEF CopyTypes, CopyPC
<1> QED
  BY <1>1, <1>2, <1>3, <1>4, Zenon DEF TypeOK

\* What is wanted is a sequence of bytes; for a straight copy up to the end it is
\* the file, or its part up to the first 255.
LEMMA ReachedIs ==
  ASSUME src \in Seq(Bytes), program \in {"read", "fgetc", "fread"}
  PROVE  /\ program # "fgetc" => Reached = src
         /\ program = "fgetc" => Reached = UpToEof(src)
         /\ Reached \in Seq(Bytes)
<1>1. program # "fgetc" => Reached = src
  BY Zenon DEF Reached
<1>2. program = "fgetc" => Reached = UpToEof(src)
  BY DEF Reached
<1>3. UpToEof(src) \in Seq(Bytes)
  <2>1. 0 \in Nat /\ 0 <= Len(src) /\ \A m \in 1 .. 0 : src[m] # 255
    OBVIOUS
  <2> QED
    BY <2>1, EofIs, Zenon
<1> QED
  BY <1>1, <1>2, <1>3, Zenon


\* Nothing is the beginning of everything.
LEMMA NothingYet ==
  ASSUME NEW s \in Seq(Bytes)
  PROVE  SubSeq(s, 1, 0) = <<>> /\ <<>> \in Beginnings(s) /\ <<>> \o <<>> = <<>>
<1>1. SubSeq(s, 1, 0) = <<>>
  OBVIOUS
<1>2. 0 \in Nat /\ 0 <= Len(s)
  OBVIOUS
<1>3. SubSeq(s, 1, 0) \in Beginnings(s)
  BY <1>2, IsBeginning, Zenon
<1>4. <<>> \o <<>> = <<>>
  OBVIOUS
<1> QED
  BY <1>1, <1>3, <1>4, Zenon

\* The initial states satisfy the invariant.
LEMMA CopyInitInv == Init => CopyIInv
<1> SUFFICES ASSUME Init PROVE CopyIInv
  OBVIOUS
<1>1. /\ program \in Programs /\ pc = "open" /\ pos = 0 /\ buf = <<>> /\ remain = 0 /\ line = 1
      /\ tmp = <<>> /\ dst = (IF program = "trunc" THEN src ELSE <<>>) /\ faults = 0 /\ silent = FALSE
      /\ src \in Files
  BY Zenon DEF Init
<1>2. src \in Seq(Bytes) /\ Len(src) \in Nat /\ Len(src) <= Length
  BY <1>1, FilesAre, Zenon
<1>3. <<>> \in Files
  <2>1. <<>> \in Seq(Bytes) /\ Len(<<>>) \in Nat /\ Len(<<>>) <= Length
    BY CopyAssumption
  <2> QED
    BY <2>1, FilesAre, Zenon
<1>4. TypeOK
  <2>1. src \in Files /\ tmp \in Files /\ dst \in Files /\ silent \in BOOLEAN
        /\ program \in Programs
    BY <1>1, <1>3, Zenon
  <2>2. /\ pc \in {"open", "read", "write", "reopen", "back", "done", "failed", "killed"}
        /\ pos \in 0 .. Length /\ remain \in 0 .. BUF_SIZE /\ line \in 1 .. Length + 1
        /\ buf \in Seq(Bytes) /\ Len(buf) <= BUF_SIZE /\ faults \in 0 .. MaxFaults
    BY <1>1, CopyAssumption
  <2> QED
    BY <2>1, <2>2, Zenon DEF TypeOK
<1>5. program \in {"read", "fgetc", "fread", "trunc"} /\ Handled = 0 /\ LINE \in Nat /\ LINE # 0
  BY <1>1, CopyAssumption DEF Handled
<1>6. BufferInv
  BY <1>1, <1>2 DEF BufferInv
<1>7. LengthInv
  BY <1>1, <1>2, <1>5 DEF LengthInv
<1>8. StraightInv
  <2>1. ASSUME program # "trunc" PROVE dst = SubSeq(src, 1, 0) /\ dst \in Beginnings(Reached)
    <3>1. Reached \in Seq(Bytes)
      BY <1>2, <1>5, <2>1, ReachedIs, Zenon
    <3> QED
      BY <1>1, <1>2, <2>1, <3>1, NothingYet, Zenon
  <2> QED
    BY <1>1, <1>5, <2>1 DEF StraightInv
<1>9. DetourInv
  <2>1. LinesInv
    <3>1. Cut(0, 0, 0)
      BY DEF Cut
    <3>2. tmp = SubSeq(src, 1, 0) \o SubSeq(src, 0 + 1, 0)
      BY <1>1, <1>2, NothingYet
    <3>3. line = LineOf(src, 0 + 1)
      BY <1>1, FirstLine
    <3>4. line < LINE => 0 = 0
      OBVIOUS
    <3>5. 0 \in 0 .. 0
      OBVIOUS
    <3> QED
      BY <1>5, <3>1, <3>2, <3>3, <3>4, <3>5, Zenon DEF LinesInv, LinesCut
  <2> QED
    BY <1>1, <2>1, Zenon DEF DetourInv
<1> QED
  BY <1>4, <1>6, <1>7, <1>8, <1>9, Zenon DEF CopyIInv

\* A call fails or a signal comes: the program ends, and what stdio held may be lost.
LEMMA CopyStops ==
  ASSUME CopyIInv,
         UNCHANGED <<program, src, pos, buf, remain, line, tmp>>,
         faults < MaxFaults, faults' = faults + 1,
         pc' \in {"failed", "killed"} \/ (pc' = "done" /\ silent'  /\ remain = 0),
         silent' \in BOOLEAN, silent => silent',
         dst' = dst \/ (dst' \in Beginnings(dst) /\ (program # "trunc" \/ pc = "back"))
  PROVE  CopyIInv'
<1>0. /\ CopyTypes /\ CopyNumbers /\ program \in Programs /\ silent \in BOOLEAN
      /\ BufferInv /\ LengthInv /\ StraightInv /\ DetourInv
  BY CopyKnown, Zenon
<1>1. src \in Seq(Bytes) /\ dst \in Seq(Bytes) /\ tmp \in Seq(Bytes) /\ pos \in Nat /\ Len(tmp) \in Nat
  BY <1>0, Zenon DEF CopyTypes
<1>2. dst' \in Seq(Bytes) /\ Len(dst') \in Nat /\ Len(dst') <= Len(dst)
  <2>1. Len(dst) \in Nat
    BY <1>1
  <2> QED
    BY <1>1, <2>1, BeginningIs
<1>3. CopyTypes'
  <2>1. Len(dst') <= Length /\ faults' \in Nat /\ faults' <= MaxFaults
    BY <1>0, <1>2 DEF CopyTypes, CopyNumbers
  <2>2. pc' \in CopyPC
    BY Zenon DEF CopyPC
  <2> QED
    BY <1>0, <1>2, <2>1, <2>2, Zenon DEF CopyTypes
<1>4. TypeOK'
  BY <1>0, <1>3, CopyTyped, Zenon
<1>5. BufferInv' /\ LengthInv'
  BY Zenon DEF BufferInv, LengthInv
<1>6. StraightInv'
  <2> SUFFICES ASSUME program # "trunc", ~silent, ~silent' PROVE StraightInv'
    BY Zenon DEF StraightInv
  <2>1. dst \in Beginnings(Reached) /\ Reached \in Seq(Bytes)
    <3>1. program \in {"read", "fgetc", "fread"}
      BY <1>0, Zenon DEF CopyTypes
    <3> QED
      BY <1>0, <1>1, <3>1, ReachedIs, Zenon DEF StraightInv
  <2>2. dst' \in Beginnings(Reached)
    BY <2>1, BeginningIs, Zenon
  <2>3. Reached' = Reached
    BY Zenon DEF Reached
  <2>4. pc' \in {"failed", "killed"}
    OBVIOUS
  <2> QED
    BY <2>2, <2>3, <2>4, Zenon DEF StraightInv, Beginnings
<1>7. DetourInv'
  <2> SUFFICES ASSUME program = "trunc", ~silent, ~silent' PROVE DetourInv'
    BY Zenon DEF DetourInv
  <2>1. dst' = src \/ (tmp = WithoutLine(src) /\ dst' \in Beginnings(UpToEof(tmp)))
    <3>1. CASE dst' = dst
      BY <1>0, <3>1, Zenon DEF DetourInv
    <3>2. CASE dst' \in Beginnings(dst) /\ pc = "back"
      <4>1. /\ tmp = WithoutLine(src) /\ dst = SubSeq(tmp, 1, pos)
            /\ \A k \in 1 .. pos : tmp[k] # 255
        BY <1>0, <3>2, Zenon DEF DetourInv
      <4>2. pos <= Len(tmp)
        BY <1>0, <3>2, Zenon DEF LengthInv
      <4>3. UpToEof(tmp) \in Seq(Bytes) /\ dst \in Beginnings(UpToEof(tmp))
        <5>1. tmp \in Seq(Bytes) /\ pos \in Nat /\ \A k \in 1 .. pos : tmp[k] # 255
          BY <1>1, <4>1, Zenon
        <5>2. /\ UpToEof(tmp) \in Seq(Bytes)
              /\ SubSeq(tmp, 1, pos) \in Beginnings(UpToEof(tmp))
          BY <4>2, <5>1, EofIs, Zenon
        <5> QED
          BY <4>1, <5>2, Zenon
      <4> QED
        BY <3>2, <4>1, <4>3, BeginningIs, Zenon
    <3> QED
      BY <3>1, <3>2, Zenon
  <2>2. pc' \in {"failed", "killed"}
    OBVIOUS
  <2>3. (Beginnings(UpToEof(tmp)))' = Beginnings(UpToEof(tmp))
    BY DEF Beginnings, UpToEof
  <2>4. WithoutLine(src)' = WithoutLine(src)
    BY Zenon DEF WithoutLine, LineOf
  <2> QED
    BY <2>1, <2>2, <2>3, <2>4, Zenon DEF DetourInv
<1> QED
  BY <1>4, <1>5, <1>6, <1>7, Zenon DEF CopyIInv


\* What a read may give.
LEMMA ChunkIs ==
  ASSUME CopyTypes, CopyNumbers, pos <= Len(src), NEW k \in Chunks
  PROVE  k \in Nat /\ 1 <= k /\ k <= BUF_SIZE /\ pos + k <= Len(src)
<1>1. Len(src) \in Nat /\ pos \in Nat /\ BUF_SIZE \in Nat
  BY Zenon DEF CopyTypes, CopyNumbers
<1> DEFINE most == IF Len(src) - pos < BUF_SIZE THEN Len(src) - pos ELSE BUF_SIZE
<1>2. most \in Nat /\ most <= BUF_SIZE /\ pos + most <= Len(src)
  BY <1>1
<1>3. k \in 1 .. most \/ (k = most /\ k # 0)
  BY Zenon DEF Chunks
<1> HIDE DEF most
<1> QED
  BY <1>1, <1>2, <1>3

\* LinesInv depends only on how far the loops have come.
LEMMA LinesKept ==
  ASSUME LinesInv, Handled' = Handled, UNCHANGED <<src, line, tmp>>
  PROVE  LinesInv'
BY Zenon DEF LinesInv, LinesCut, Cut

\* open(), and read() of fileio/mycpy.c and trunc_ln_10.c.
LEMMA CopyReads ==
  ASSUME CopyIInv, Open \/ Read PROVE CopyIInv'
<1>0. /\ CopyTypes /\ CopyNumbers /\ program \in Programs /\ silent \in BOOLEAN
      /\ BufferInv /\ LengthInv /\ StraightInv /\ DetourInv
  BY CopyKnown, Zenon
<1>1. /\ UNCHANGED <<program, src, line, tmp, dst, faults, silent>>
      /\ pc \in {"open", "read"} /\ pc' \in {"read", "write"}
  BY Zenon DEF Open, Read
<1>2. /\ Handled' = Handled /\ pos' \in Nat /\ pos' <= Len(src) /\ remain' \in Nat /\ remain' <= BUF_SIZE
      /\ buf' \in Seq(Bytes) /\ Len(buf') \in Nat /\ Len(buf') <= BUF_SIZE
      /\ pc' = "read" => remain' = 0 /\ pos' = pos
      /\ pc' = "write" =>
           /\ program \in {"read", "trunc"} /\ remain' \in 1 .. Len(buf') /\ Len(buf') <= pos'
           /\ \A k \in 1 .. Len(buf') : buf'[k] = src[pos' - Len(buf') + k]
  <2>1. CASE Open
    <3>1. pc = "open" /\ pc' = "read" /\ UNCHANGED <<pos, buf, remain>>
      BY <2>1, Zenon DEF Open
    <3>2. remain = 0 /\ pos <= Len(src)
      BY <1>0, <3>1, Zenon DEF BufferInv
    <3> QED
      BY <1>0, <3>1, <3>2, Zenon DEF CopyTypes, Handled
  <2>2. CASE Read
    <3>1. program \in {"read", "trunc"} /\ pc = "read" /\ pc' = "write"
      BY <2>2 DEF Read
    <3>2. PICK k \in Chunks : buf' = SubSeq(src, pos + 1, pos + k) /\ remain' = k /\ pos' = pos + k
      BY <2>2, Zenon DEF Read
    <3>3. remain = 0 /\ pos <= Len(src) /\ src \in Seq(Bytes) /\ pos \in Nat /\ Len(src) \in Nat
      BY <1>0, <3>1, Zenon DEF BufferInv, CopyTypes
    <3>4. k \in Nat /\ 1 <= k /\ k <= BUF_SIZE /\ pos + k <= Len(src)
      BY <1>0, <3>3, ChunkIs, Zenon
    <3>5. buf' \in Seq(Bytes) /\ Len(buf') = k /\ \A m \in 1 .. k : buf'[m] = src[pos + m]
      <4> DEFINE b == pos + k
                 u == SubSeq(src, pos + 1, b)
      <4>1. b \in Nat /\ pos <= b /\ b <= Len(src)
        BY <3>3, <3>4
      <4>2. src \in Seq(Bytes) /\ pos \in Nat
        BY <3>3, Zenon
      <4>3. buf' = u
        BY <3>2, Zenon
      <4> HIDE DEF b
      <4>4. u \in Seq(Bytes) /\ Len(u) = b - pos /\ \A m \in 1 .. b - pos : u[m] = src[pos + m]
        BY <4>1, <4>2, PieceOfFile, Zenon
      <4> HIDE DEF u
      <4>5. buf' \in Seq(Bytes) /\ Len(buf') = b - pos /\ \A m \in 1 .. b - pos : buf'[m] = src[pos + m]
        BY <4>3, <4>4, Zenon
      <4>6. b - pos = k
        BY <3>3, <3>4 DEF b
      <4> QED
        BY <4>5, <4>6, Zenon
    <3>6. Handled' = Handled
      BY <3>2, <3>3, <3>4 DEF Handled
    <3> QED
      BY <1>0, <3>1, <3>2, <3>3, <3>4, <3>5, <3>6 DEF CopyNumbers
  <2> QED
    BY <2>1, <2>2, Zenon
<1>3. CopyTypes'
  <2>1. pos' <= Length /\ pc' \in CopyPC
    BY <1>0, <1>1, <1>2 DEF CopyTypes, CopyNumbers, CopyPC
  <2> QED
    BY <1>0, <1>1, <1>2, <2>1, Zenon DEF CopyTypes
<1>4. TypeOK'
  BY <1>0, <1>1, <1>3, CopyTyped, Zenon
<1>5. BufferInv'
  BY <1>1, <1>2, Zenon DEF BufferInv
<1>6. LengthInv'
  BY <1>0, <1>1, <1>2, Zenon DEF LengthInv
<1>7. StraightInv'
  <2>1. Beginnings(Reached)' = Beginnings(Reached)
    BY <1>1, Zenon DEF Beginnings, Reached
  <2>2. pc' = "read" \/ program # "fgetc"
    BY <1>1, <1>2, Zenon
  <2> QED
    BY <1>0, <1>1, <1>2, <2>1, <2>2, Zenon DEF StraightInv
<1>8. DetourInv'
  <2>1. program = "trunc" => dst = src
    BY <1>0, <1>1, Zenon DEF LengthInv
  <2>2. program = "trunc" /\ ~silent => LinesInv'
    BY <1>0, <1>1, <1>2, LinesKept, Zenon DEF DetourInv
  <2> QED
    BY <1>1, <2>1, <2>2, Zenon DEF DetourInv
<1> QED
  BY <1>4, <1>5, <1>6, <1>7, <1>8, Zenon DEF CopyIInv


\* A straight copy writes the next k bytes.
LEMMA CopyGrows ==
  ASSUME CopyIInv, program \in {"read", "fgetc", "fread"},
         pc \in {"read", "write"}, pc' \in {"read", "write"},
         UNCHANGED <<program, src, buf, line, tmp, faults, silent>>,
         NEW k \in Nat, Handled + k <= Len(src), dst' = dst \o SubSeq(src, Handled + 1, Handled + k),
         pos' \in Nat, pos' <= Len(src), remain' \in Nat, remain' <= BUF_SIZE, Handled' = Handled + k,
         BufferInv', program = "fgetc" /\ ~silent => \A m \in 1 .. pos' : src[m] # 255
  PROVE  CopyIInv'
<1>0. /\ CopyTypes /\ CopyNumbers /\ program \in Programs /\ silent \in BOOLEAN
      /\ BufferInv /\ LengthInv /\ StraightInv
  BY CopyKnown, Zenon
<1>1. src \in Seq(Bytes) /\ dst \in Seq(Bytes) /\ Len(src) \in Nat /\ Len(dst) \in Nat
  BY <1>0, Zenon DEF CopyTypes
<1>2. Handled \in Nat /\ Handled <= Len(src)
  BY <1>0, SMTT(30) DEF CopyTypes, BufferInv, Handled
<1> DEFINE n == Handled
           u == SubSeq(src, n + 1, n + k)
<1>3. n + k \in Nat /\ n <= n + k
  BY <1>2
<1>4. u \in Seq(Bytes) /\ Len(u) = k
  <2>1. u \in Seq(Bytes) /\ Len(u) = n + k - n
    BY <1>1, <1>2, <1>3, Piece
  <2> QED
    BY <1>2, <2>1
<1> HIDE DEF n, u
<1>5. dst' = dst \o u /\ dst' \in Seq(Bytes) /\ Len(dst') = Len(dst) + k
  <2>1. dst' = dst \o u
    BY Zenon DEF n, u
  <2>2. dst \o u \in Seq(Bytes) /\ Len(dst \o u) = Len(dst) + Len(u)
    <3>1. dst \in Seq(Bytes) /\ u \in Seq(Bytes)
      BY <1>1, <1>4, Zenon
    <3> QED
      BY <3>1, Joined, SMT
  <2> QED
    BY <1>4, <2>1, <2>2, Zenon
<1>6. Len(dst') <= Handled'
  <2>1. Len(dst) <= Handled
    BY <1>0, Zenon DEF LengthInv
  <2> QED
    BY <1>1, <1>2, <1>5, <2>1
<1>7. CopyTypes'
  <2>1. Len(dst') \in Nat /\ Len(dst') <= Length /\ pos' <= Length
    BY <1>0, <1>1, <1>2, <1>5, <1>6 DEF CopyTypes, CopyNumbers
  <2>2. pc' \in CopyPC
    BY Zenon DEF CopyPC
  <2> QED
    BY <1>0, <1>5, <2>1, <2>2, Zenon DEF CopyTypes
<1>8. TypeOK'
  BY <1>0, <1>7, CopyTyped, Zenon
<1>9. LengthInv' /\ DetourInv'
  BY <1>6, Zenon DEF LengthInv, DetourInv
<1>10. StraightInv'
  <2> SUFFICES ASSUME ~silent PROVE StraightInv'
    BY Zenon DEF StraightInv
  <2>1. dst' = SubSeq(src, 1, n + k)
    <3>1. dst = SubSeq(src, 1, n)
      BY <1>0, Zenon DEF StraightInv, n
    <3>2. SubSeq(src, 1, n) \o u = SubSeq(src, 1, n + k)
      <4>1. n \in Nat /\ n + k \in Nat /\ n <= n + k /\ n + k <= Len(src)
        BY <1>2, <1>3, Zenon DEF n
      <4> QED
        BY <1>1, <4>1, StartGrows, Zenon DEF u
    <3> QED
      BY <1>5, <3>1, <3>2, Zenon
  <2>2. Reached' = Reached
    BY Zenon DEF Reached
  <2>3. dst' \in Beginnings(Reached)
    <3>1. CASE program # "fgetc"
      <4>1. Reached = src
        BY <1>1, <3>1, ReachedIs, Zenon
      <4>2. n + k <= Len(src) /\ n + k \in Nat
        BY <1>3, Zenon DEF n
      <4>3. SubSeq(src, 1, n + k) \in Beginnings(src)
        BY <1>1, <4>2, IsBeginning, Zenon
      <4> QED
        BY <2>1, <4>1, <4>3, Zenon
    <3>2. CASE program = "fgetc"
      <4>1. Reached = UpToEof(src)
        BY <1>1, <3>2, ReachedIs, Zenon
      <4>2. pos' = n + k
        BY <3>2 DEF BufferInv, Handled, n
      <4>3. \A m \in 1 .. pos' : src[m] # 255
        BY <3>2, Zenon
      <4>4. SubSeq(src, 1, pos') \in Beginnings(UpToEof(src))
        BY <1>1, <4>3, EofIs, Zenon
      <4> QED
        BY <2>1, <4>1, <4>2, <4>4, Zenon
    <3> QED
      BY <3>1, <3>2, Zenon
  <2>4. (Beginnings(Reached))' = Beginnings(Reached)
    BY <2>2 DEF Beginnings
  <2> QED
    BY <2>1, <2>3, <2>4, Zenon DEF StraightInv, n
<1> QED
  BY <1>8, <1>9, <1>10, Zenon DEF CopyIInv

\* write() of fileio/mycpy.c, perhaps of less than is left.
LEMMA CopyWrite == ASSUME CopyIInv, Write PROVE CopyIInv'
<1>0. CopyTypes /\ CopyNumbers /\ BufferInv
  BY CopyKnown, Zenon
<1>1. /\ program = "read" /\ pc = "write"
      /\ UNCHANGED <<program, src, pos, buf, line, tmp, faults, silent>>
  BY Zenon DEF Write
<1>2. PICK k \in 1 .. remain :
        /\ dst' = dst \o SubSeq(buf, Len(buf) - remain + 1, Len(buf) - remain + k)
        /\ remain' = remain - k
        /\ pc' = IF remain = k THEN "read" ELSE "write"
  BY Zenon DEF Write
<1>3. /\ remain \in 1 .. Len(buf) /\ Len(buf) <= pos /\ pos <= Len(src)
      /\ \A m \in 1 .. Len(buf) : buf[m] = src[pos - Len(buf) + m]
  BY <1>0, <1>1, Zenon DEF BufferInv
<1>4. /\ pos \in Nat /\ Len(buf) \in Nat /\ Len(src) \in Nat /\ remain \in Nat /\ remain <= BUF_SIZE
      /\ BUF_SIZE \in Nat /\ buf \in Seq(Bytes) /\ src \in Seq(Bytes)
  BY <1>0, Zenon DEF CopyTypes, CopyNumbers
<1>5. k \in Nat /\ 1 <= k /\ k <= remain
  BY <1>2, <1>4
<1> DEFINE a == Len(buf) - remain
           n == Handled
           u == SubSeq(buf, a + 1, a + k)
           v == SubSeq(src, n + 1, n + k)
<1>6. a \in Nat /\ a + k \in Nat /\ a <= a + k /\ a + k <= Len(buf) /\ a + k - a = k
  BY <1>3, <1>4, <1>5
<1>7. /\ n \in Nat /\ n + k \in Nat /\ n <= n + k /\ n + k <= Len(src) /\ n + k - n = k
      /\ pos - Len(buf) + a = n
  BY <1>3, <1>4, <1>5 DEF Handled
<1>8. u = v
  <2> HIDE DEF a, n
  <2>1. u \in Seq(Bytes) /\ Len(u) = k /\ \A m \in 1 .. k : u[m] = buf[a + m]
    <3>1. buf \in Seq(Bytes)
      BY <1>4, Zenon
    <3> QED
      BY <1>6, <3>1, Piece
  <2>2. v \in Seq(Bytes) /\ Len(v) = k /\ \A m \in 1 .. k : v[m] = src[n + m]
    BY <1>4, <1>7, Piece
  <2> HIDE DEF u, v
  <2>3. ASSUME NEW m \in 1 .. k PROVE u[m] = v[m]
    <3>1. a + m \in 1 .. Len(buf)
      BY <1>4, <1>5, <1>6
    <3>2. pos - Len(buf) + (a + m) = n + m
      BY <1>4, <1>5, <1>6, <1>7
    <3> QED
      BY <1>3, <2>1, <2>2, <3>1, <3>2, Zenon
  <2> QED
    BY <2>1, <2>2, <2>3, SameSeq, Zenon
<1>9. dst' = dst \o SubSeq(src, Handled + 1, Handled + k)
  BY <1>2, <1>8, Zenon
<1>10. Handled' = Handled + k /\ remain' \in Nat /\ remain' <= BUF_SIZE
  BY <1>1, <1>2, <1>4, <1>5 DEF Handled
<1>11. BufferInv'
  <2>1. \/ pc' = "read" /\ remain' = 0
        \/ pc' = "write" /\ remain' \in 1 .. Len(buf)
    <3>1. remain' = remain - k /\ pc' = (IF remain = k THEN "read" ELSE "write") /\ remain <= Len(buf)
      BY <1>2, <1>3
    <3>2. remain \in Nat /\ Len(buf) \in Nat
      BY <1>4, Zenon
    <3> QED
      BY <1>5, <3>1, <3>2
  <2> QED
    BY <1>1, <1>3, <2>1, Zenon DEF BufferInv
<1>12. pc' \in {"read", "write"} /\ Handled + k <= Len(src) /\ pos' \in Nat /\ pos' <= Len(src)
  BY <1>1, <1>2, <1>3, <1>4, <1>7, Zenon
<1> HIDE DEF a, n, u, v
<1> QED
  BY <1>1, <1>5, <1>9, <1>10, <1>11, <1>12, CopyGrows, Zenon


\* fread() and fwrite() of stdio/mycpy1.c.
LEMMA CopyFread == ASSUME CopyIInv, FreadFwrite PROVE CopyIInv'
<1>0. CopyTypes /\ CopyNumbers /\ BufferInv
  BY CopyKnown
<1>1. /\ program = "fread" /\ pc = "read"
      /\ UNCHANGED <<program, pc, src, buf, remain, line, tmp, faults, silent>>
  BY Zenon DEF FreadFwrite
<1>2. PICK k \in Chunks : dst' = dst \o SubSeq(src, pos + 1, pos + k) /\ pos' = pos + k
  BY Zenon DEF FreadFwrite
<1>3. remain = 0 /\ pos <= Len(src) /\ pos \in Nat /\ BUF_SIZE \in Nat
  BY <1>0, <1>1, Zenon DEF BufferInv, CopyTypes, CopyNumbers
<1>4. k \in Nat /\ pos + k <= Len(src)
  BY <1>0, <1>3, ChunkIs, Zenon
<1>5. Handled = pos /\ Handled' = pos + k
  BY <1>1, <1>2, <1>3, <1>4 DEF Handled
<1>6. /\ dst' = dst \o SubSeq(src, Handled + 1, Handled + k) /\ Handled + k <= Len(src)
      /\ Handled' = Handled + k
  BY <1>2, <1>4, <1>5, Zenon
<1>7. pos' \in Nat /\ pos' <= Len(src) /\ remain' \in Nat /\ remain' <= BUF_SIZE
  BY <1>1, <1>2, <1>3, <1>4
<1>8. BufferInv'
  BY <1>1, <1>3, <1>7, Zenon DEF BufferInv
<1> QED
  BY <1>1, <1>4, <1>6, <1>7, <1>8, CopyGrows, Zenon

\* fgetc() and fputc() of stdio/mycpy.c, which stops at a byte 255.
LEMMA CopyFgetc == ASSUME CopyIInv, FgetcFputc PROVE CopyIInv'
<1>0. /\ CopyTypes /\ CopyNumbers /\ program \in Programs /\ silent \in BOOLEAN
      /\ BufferInv /\ LengthInv /\ StraightInv
  BY CopyKnown, Zenon
<1>1. /\ program = "fgetc" /\ pc = "read" /\ pos < Len(src) /\ pos' = pos + 1
      /\ UNCHANGED <<program, src, buf, remain, line, tmp, faults, silent>>
  BY Zenon DEF FgetcFputc
<1>2. /\ remain = 0 /\ pos \in Nat /\ BUF_SIZE \in Nat /\ src \in Seq(Bytes) /\ dst \in Seq(Bytes)
      /\ Len(src) \in Nat /\ Len(src) <= Length /\ Length \in Nat
  BY <1>0, <1>1, Zenon DEF BufferInv, CopyTypes, CopyNumbers
<1>3. Handled = pos
  BY <1>2 DEF Handled
<1>4. ~silent => dst = SubSeq(src, 1, pos) /\ \A m \in 1 .. pos : src[m] # 255
  BY <1>0, <1>1, <1>3, Zenon DEF StraightInv
<1>5. CASE src[pos + 1] = 255
  <2>1. pc' = "done" /\ dst' = dst
    BY <1>5, Zenon DEF FgetcFputc
  <2>2. CopyTypes'
    BY <1>0, <1>1, <1>2, <2>1 DEF CopyTypes, CopyPC
  <2>3. TypeOK'
    BY <1>0, <1>1, <2>2, CopyTyped, Zenon
  <2>4. BufferInv' /\ LengthInv' /\ DetourInv'
    BY <1>1, <1>2, <2>1, Zenon DEF BufferInv, LengthInv, DetourInv
  <2>5. StraightInv'
    <3> SUFFICES ASSUME ~silent PROVE StraightInv'
      BY <1>1, Zenon DEF StraightInv
    <3>1. \A m \in 1 .. pos : src[m] # 255
      BY <1>4, Zenon
    <3>2. pos <= Len(src) /\ pos < Len(src) /\ src \in Seq(Bytes) /\ pos \in Nat
      BY <1>1, <1>2
    <3>3. /\ SubSeq(src, 1, pos) \in Beginnings(UpToEof(src))
          /\ SubSeq(src, 1, pos) = UpToEof(src)
      BY <1>5, <3>1, <3>2, EofIs
    <3>4. Reached = UpToEof(src)
      BY <1>1, <3>2, ReachedIs, Zenon
    <3>5. Reached' = Reached
      BY <1>1, Zenon DEF Reached
    <3>6. (Beginnings(Reached))' = Beginnings(Reached)
      BY <3>5, Zenon DEF Beginnings
    <3>7. dst' = Reached /\ dst' \in Beginnings(Reached)
      BY <1>4, <2>1, <3>3, <3>4, Zenon
    <3> QED
      BY <2>1, <3>5, <3>6, <3>7, Zenon DEF StraightInv
  <2> QED
    BY <2>3, <2>4, <2>5, Zenon DEF CopyIInv
<1>6. CASE src[pos + 1] # 255
  <2>1. pc' = pc /\ dst' = Append(dst, src[pos + 1])
    BY <1>6, Zenon DEF FgetcFputc
  <2>2. dst' = dst \o SubSeq(src, Handled + 1, Handled + 1)
    <3> DEFINE v == SubSeq(src, pos + 1, pos)
    <3>1. v \in Seq(Bytes) /\ Len(v) = 0 /\ src[pos + 1] \in Bytes /\ pos + 1 <= Len(src)
      BY <1>1, <1>2
    <3>2. Append(v, src[pos + 1]) = SubSeq(src, pos + 1, pos + 1)
      BY <1>2, <3>1, PieceGrows
    <3> HIDE DEF v
    <3>3. Append(dst \o v, src[pos + 1]) = dst \o Append(v, src[pos + 1])
      BY <1>2, <3>1, AppendJoined, Zenon
    <3>4. dst \o v = dst
      <4>1. dst \in Seq(Bytes) /\ v \in Seq(Bytes) /\ Len(v) = 0
        BY <1>2, <3>1, Zenon
      <4> QED
        BY <4>1
    <3> QED
      BY <1>3, <2>1, <3>2, <3>3, <3>4, Zenon
  <2>3. Handled' = Handled + 1 /\ Handled + 1 <= Len(src) /\ pos' \in Nat /\ pos' <= Len(src)
        /\ remain' \in Nat /\ remain' <= BUF_SIZE /\ 1 \in Nat
    BY <1>1, <1>2, <1>3 DEF Handled
  <2>4. BufferInv'
    BY <1>1, <1>2, <2>1, <2>3, Zenon DEF BufferInv
  <2>5. program = "fgetc" /\ ~silent => \A m \in 1 .. pos' : src[m] # 255
    BY <1>1, <1>2, <1>4, <1>6
  <2>6. pc' \in {"read", "write"} /\ pc \in {"read", "write"} /\ program \in {"read", "fgetc", "fread"}
    BY <1>1, <2>1, Zenon
  <2> QED
    BY <1>1, <2>2, <2>3, <2>4, <2>5, <2>6, CopyGrows, Zenon
<1> QED
  BY <1>5, <1>6, Zenon


\* The end of the source: a straight copy is done, trunc_ln_10.c has everything but
\* line LINE in tmp.
LEMMA CopyReadEnd == ASSUME CopyIInv, ReadEnd PROVE CopyIInv'
<1>0. /\ CopyTypes /\ CopyNumbers /\ program \in Programs /\ silent \in BOOLEAN
      /\ BufferInv /\ LengthInv /\ StraightInv /\ DetourInv
  BY CopyKnown, Zenon
<1>1. /\ pc = "read" /\ pos = Len(src)
      /\ pc' = (IF program = "trunc" THEN "reopen" ELSE "done")
      /\ pos' = (IF program = "trunc" THEN 0 ELSE pos)
      /\ UNCHANGED <<program, src, buf, remain, line, tmp, dst, faults, silent>>
  BY Zenon DEF ReadEnd
<1>2. /\ remain = 0 /\ pos \in Nat /\ src \in Seq(Bytes) /\ Len(src) \in Nat /\ Length \in Nat
      /\ program \in {"read", "fgetc", "fread", "trunc"}
  BY <1>0, <1>1, Zenon DEF BufferInv, CopyTypes, CopyNumbers
<1>3. Handled = Len(src)
  BY <1>1, <1>2 DEF Handled
<1>4. CopyTypes'
  BY <1>0, <1>1, <1>2 DEF CopyTypes, CopyPC
<1>5. TypeOK'
  BY <1>0, <1>1, <1>4, CopyTyped, Zenon
<1>6. BufferInv' /\ LengthInv'
  BY <1>0, <1>1, <1>2, Zenon DEF BufferInv, LengthInv
<1>7. StraightInv'
  <2> SUFFICES ASSUME program # "trunc", ~silent PROVE StraightInv'
    BY <1>1, Zenon DEF StraightInv
  <2>1. dst = SubSeq(src, 1, Len(src)) /\ dst \in Beginnings(Reached)
    BY <1>0, <1>1, <1>3, Zenon DEF StraightInv
  <2>2. dst = Reached
    <3>1. CASE program = "fgetc"
      <4>1. \A m \in 1 .. Len(src) : src[m] # 255
        BY <1>0, <1>1, <3>1, Zenon DEF StraightInv
      <4>2. Len(src) <= Len(src)
        BY <1>2
      <4>3. SubSeq(src, 1, Len(src)) = UpToEof(src)
        BY <1>2, <4>1, <4>2, EofIs, Zenon
      <4> QED
        BY <1>2, <2>1, <3>1, <4>3, ReachedIs, Zenon
    <3>2. CASE program # "fgetc"
      <4>1. Reached = src
        BY <1>2, <3>2, ReachedIs, Zenon
      <4> QED
        BY <1>2, <2>1, <4>1, Whole, Zenon
    <3> QED
      BY <3>1, <3>2, Zenon
  <2>3. Reached' = Reached
    BY <1>1, Zenon DEF Reached
  <2>4. (Beginnings(Reached))' = Beginnings(Reached)
    BY <2>3, Zenon DEF Beginnings
  <2> QED
    BY <1>1, <2>1, <2>2, <2>3, <2>4, Zenon DEF StraightInv
<1>8. DetourInv'
  <2> SUFFICES ASSUME program = "trunc", ~silent PROVE DetourInv'
    BY <1>1, Zenon DEF DetourInv
  <2>1. LinesInv
    BY <1>0, <1>1, Zenon DEF DetourInv
  <2>2. PICK a, b \in 0 .. Len(src) :
          Cut(Len(src), a, b) /\ tmp = SubSeq(src, 1, a) \o SubSeq(src, b + 1, Len(src))
    BY <1>3, <2>1, Zenon DEF LinesInv, LinesCut
  <2>3. tmp = WithoutLine(src)
    BY <1>2, <2>2, WithoutIs, Zenon
  <2>4. WithoutLine(src)' = WithoutLine(src)
    BY <1>1, Zenon DEF WithoutLine, LineOf
  <2>5. dst = src
    BY <1>0, <1>1, Zenon DEF LengthInv
  <2> QED
    BY <1>1, <2>3, <2>4, <2>5, Zenon DEF DetourInv
<1> QED
  BY <1>5, <1>6, <1>7, <1>8, Zenon DEF CopyIInv

\* fopen() empties the file.
LEMMA CopyReopen == ASSUME CopyIInv, Reopen PROVE CopyIInv'
<1>0. /\ CopyTypes /\ CopyNumbers /\ program \in Programs /\ silent \in BOOLEAN
      /\ BufferInv /\ LengthInv /\ StraightInv /\ DetourInv
  BY CopyKnown
<1>1. /\ pc = "reopen" /\ pc' = "back" /\ dst' = <<>>
      /\ UNCHANGED <<program, src, pos, buf, remain, line, tmp, faults, silent>>
  BY Zenon DEF Reopen
<1>2. program = "trunc" /\ pos = 0 /\ remain = 0 /\ tmp \in Seq(Bytes) /\ Len(tmp) \in Nat
  BY <1>0, <1>1, Zenon DEF BufferInv, CopyTypes
<1>3. CopyTypes'
  <2>1. <<>> \in Seq(Bytes) /\ Len(<<>>) = 0 /\ 0 <= Length
    BY <1>0 DEF CopyNumbers
  <2> QED
    BY <1>0, <1>1, <2>1, Zenon DEF CopyTypes, CopyPC
<1>4. TypeOK'
  BY <1>0, <1>1, <1>3, CopyTyped, Zenon
<1>5. BufferInv' /\ LengthInv' /\ StraightInv'
  BY <1>1, <1>2 DEF BufferInv, LengthInv, StraightInv
<1>6. DetourInv'
  <2> SUFFICES ASSUME ~silent PROVE DetourInv'
    BY <1>1, Zenon DEF DetourInv
  <2>1. tmp = WithoutLine(src)
    BY <1>0, <1>1, <1>2, Zenon DEF DetourInv
  <2>2. SubSeq(tmp, 1, 0) = <<>>
    BY <1>2, NothingYet, Zenon
  <2>3. 0 \in Nat /\ 0 <= Len(tmp) /\ \A m \in 1 .. 0 : tmp[m] # 255
    BY <1>2
  <2>4. SubSeq(tmp, 1, 0) \in Beginnings(UpToEof(tmp))
    BY <1>2, <2>3, EofIs, Zenon
  <2>5. WithoutLine(src)' = WithoutLine(src)
    BY <1>1, Zenon DEF WithoutLine, LineOf
  <2>6. (Beginnings(UpToEof(tmp)))' = Beginnings(UpToEof(tmp))
    BY <1>1 DEF Beginnings, UpToEof
  <2> QED
    BY <1>1, <1>2, <2>1, <2>2, <2>3, <2>4, <2>5, <2>6, ZenonT(40) DEF DetourInv
<1> QED
  BY <1>4, <1>5, <1>6, Zenon DEF CopyIInv


\* The cut after one byte more.
LEMMA CutStep ==
  ASSUME CopyNumbers, src \in Seq(Bytes), NEW n \in Nat, n + 1 <= Len(src),
         NEW l, l = LineOf(src, n + 1), NEW t, LinesCut(n, l, t)
  PROVE  LinesCut(n + 1, LineOf(src, n + 2), IF l = LINE THEN t ELSE Append(t, src[n + 1]))
<1> DEFINE m == LineOf(src, n + 2)
<1>c. PICK a, b \in 0 .. n :
        /\ Cut(n, a, b) /\ (l < LINE => a = n) /\ (l = LINE => b = n)
        /\ t = SubSeq(src, 1, a) \o SubSeq(src, b + 1, n)
  BY Zenon DEF LinesCut
<1> SUFFICES \E c, d \in 0 .. n + 1 :
           /\ Cut(n + 1, c, d) /\ (m < LINE => c = n + 1) /\ (m = LINE => d = n + 1)
           /\ (IF l = LINE THEN t ELSE Append(t, src[n + 1])) = SubSeq(src, 1, c) \o SubSeq(src, d + 1, n + 1)
  BY Zenon DEF LinesCut
<1>0. a \in 0 .. n /\ b \in a .. n /\ LINE \in Nat
  BY <1>c, Zenon DEF Cut, CopyNumbers
<1>1. l \in Nat /\ m = IF src[n + 1] = 10 THEN l + 1 ELSE l
  BY LineStep, Zenon
<1>2. /\ \A k \in 1 .. a : LineOf(src, k) < LINE
      /\ \A k \in a + 1 .. b : LineOf(src, k) = LINE
      /\ \A k \in b + 1 .. n : LineOf(src, k) > LINE
  BY <1>c, Zenon DEF Cut
<1>3. /\ Append(SubSeq(src, 1, a) \o SubSeq(src, b + 1, n), src[n + 1])
           = SubSeq(src, 1, a) \o SubSeq(src, b + 1, n + 1)
      /\ Append(SubSeq(src, 1, n), src[n + 1]) = SubSeq(src, 1, n + 1)
      /\ SubSeq(src, 1, n) \o SubSeq(src, n + 1, n) = SubSeq(src, 1, n)
      /\ SubSeq(src, 1, a) \o SubSeq(src, n + 1, n) = SubSeq(src, 1, a)
      /\ SubSeq(src, 1, a) \o SubSeq(src, n + 2, n + 1) = SubSeq(src, 1, a)
      /\ SubSeq(src, 1, n + 1) \o SubSeq(src, n + 2, n + 1) = SubSeq(src, 1, n + 1)
  BY <1>0, LinesStep, Zenon
<1>4. (n + 1) + 1 = n + 2
  OBVIOUS
<1>5. CASE l < LINE
  <2>1. a = n /\ b = n
    BY <1>0, <1>c, <1>5
  <2>2. Cut(n + 1, n + 1, n + 1)
    <3>1. ASSUME NEW k \in 1 .. n + 1 PROVE LineOf(src, k) < LINE
      <4>1. CASE k = n + 1
        BY <1>5, <4>1, Zenon
      <4>2. CASE k \in 1 .. n
        BY <1>2, <2>1, <4>2, Zenon
      <4> QED
        BY <4>1, <4>2
    <3>2. n + 1 \in 0 .. n + 1 /\ n + 1 \in n + 1 .. n + 1 /\ (n + 1) + 1 .. n + 1 = {}
      OBVIOUS
    <3> QED
      BY <3>1, <3>2, Zenon DEF Cut
  <2>3. Append(t, src[n + 1]) = SubSeq(src, 1, n + 1) \o SubSeq(src, (n + 1) + 1, n + 1)
    BY <1>3, <1>4, <1>c, <2>1, Zenon
  <2>4. l # LINE /\ n + 1 \in 0 .. n + 1
    BY <1>0, <1>1, <1>5, SMTT(30)
  <2> QED
    BY <2>2, <2>3, <2>4, Zenon
<1>6. CASE l = LINE
  <2>1. b = n /\ m >= LINE
    BY <1>0, <1>c, <1>1, <1>6
  <2>2. Cut(n + 1, a, n + 1)
    <3>1. ASSUME NEW k \in a + 1 .. n + 1 PROVE LineOf(src, k) = LINE
      <4>1. CASE k = n + 1
        BY <1>6, <4>1, Zenon
      <4>2. CASE k \in a + 1 .. n
        BY <1>2, <2>1, <4>2, Zenon
      <4> QED
        BY <1>0, <4>1, <4>2
    <3>2. a \in 0 .. n + 1 /\ n + 1 \in a .. n + 1 /\ (n + 1) + 1 .. n + 1 = {}
      BY <1>0
    <3> QED
      BY <1>2, <3>1, <3>2, Zenon DEF Cut
  <2>3. t = SubSeq(src, 1, a) \o SubSeq(src, (n + 1) + 1, n + 1)
    BY <1>3, <1>4, <1>c, <2>1, Zenon
  <2>4. ~(m < LINE) /\ n + 1 \in 0 .. n + 1 /\ a \in 0 .. n + 1
    BY <1>0, <1>1, <2>1
  <2> QED
    BY <1>6, <2>2, <2>3, <2>4, Zenon
<1>7. CASE l > LINE
  <2>1. m > LINE
    BY <1>0, <1>1, <1>7
  <2>2. Cut(n + 1, a, b)
    <3>1. ASSUME NEW k \in b + 1 .. n + 1 PROVE LineOf(src, k) > LINE
      <4>1. CASE k = n + 1
        BY <1>7, <4>1, Zenon
      <4>2. CASE k \in b + 1 .. n
        BY <1>2, <4>2, Zenon
      <4> QED
        BY <1>0, <4>1, <4>2
    <3>2. a \in 0 .. n + 1 /\ b \in a .. n + 1
      BY <1>0
    <3> QED
      BY <1>2, <3>1, <3>2, Zenon DEF Cut
  <2>3. Append(t, src[n + 1]) = SubSeq(src, 1, a) \o SubSeq(src, b + 1, n + 1)
    BY <1>3, <1>c, Zenon
  <2>4. /\ ~(m < LINE) /\ m # LINE /\ l # LINE /\ a \in 0 .. n + 1 /\ b \in 0 .. n + 1
    BY <1>0, <1>1, <1>7, <2>1
  <2> QED
    BY <2>2, <2>3, <2>4, Zenon
<1>8. l < LINE \/ l = LINE \/ l > LINE
  BY <1>0, <1>1
<1> QED
  BY <1>5, <1>6, <1>7, <1>8, Zenon


\* A turn of the for loop of trunc_ln_10.c, which keeps a byte, leaves it out or,
\* when output is lost, loses it.
LEMMA CopyTurn ==
  ASSUME CopyIInv, program = "trunc", pc = "write",
         UNCHANGED <<program, src, pos, buf, dst>>,
         line' = (IF buf[Len(buf) - remain + 1] = 10 THEN line + 1 ELSE line),
         remain' = remain - 1, pc' = (IF remain = 1 THEN "read" ELSE "write"),
         faults' \in Nat, faults' <= MaxFaults, silent' \in BOOLEAN,
         tmp' = tmp \/ tmp' = Append(tmp, buf[Len(buf) - remain + 1]),
         ~silent' => /\ ~silent
                     /\ tmp' = (IF line = LINE THEN tmp ELSE Append(tmp, buf[Len(buf) - remain + 1]))
  PROVE  CopyIInv'
<1>0. /\ CopyTypes /\ CopyNumbers /\ program \in Programs /\ silent \in BOOLEAN
      /\ BufferInv /\ LengthInv /\ StraightInv /\ DetourInv
  BY CopyKnown, Zenon
<1>1. /\ pos \in Nat /\ remain \in Nat /\ Len(buf) \in Nat /\ Len(src) \in Nat /\ Len(src) <= Length
      /\ Length \in Nat /\ src \in Seq(Bytes) /\ tmp \in Seq(Bytes) /\ Len(tmp) \in Nat
      /\ line \in Nat /\ 1 <= line /\ BUF_SIZE \in Nat
  BY <1>0, Zenon DEF CopyTypes, CopyNumbers
<1>2. /\ remain \in 1 .. Len(buf) /\ Len(buf) <= pos /\ pos <= Len(src) /\ remain <= BUF_SIZE
      /\ \A k \in 1 .. Len(buf) : buf[k] = src[pos - Len(buf) + k]
  BY <1>0, Zenon DEF BufferInv, CopyTypes
<1> DEFINE n == Handled
<1>3. n \in Nat /\ n + 1 <= Len(src) /\ Handled' = n + 1
  BY <1>1, <1>2 DEF Handled
<1>4. buf[Len(buf) - remain + 1] = src[n + 1]
  <2>1. Len(buf) - remain + 1 \in 1 .. Len(buf)
    BY <1>1, <1>2
  <2>2. pos - Len(buf) + (Len(buf) - remain + 1) = n + 1
    BY <1>1, <1>2 DEF Handled
  <2> QED
    BY <1>2, <2>1, <2>2
<1> HIDE DEF n
<1>5. src[n + 1] \in Bytes
  BY <1>1, <1>3
<1>6. /\ tmp' \in Seq(Bytes) /\ Len(tmp') \in Nat /\ Len(tmp') <= n + 1
      /\ line' \in Nat /\ 1 <= line' /\ line' <= n + 2
  <2>1. Len(tmp) <= n /\ line <= n + 1
    BY <1>0, Zenon DEF LengthInv, n
  <2>2. Append(tmp, src[n + 1]) \in Seq(Bytes) /\ Len(Append(tmp, src[n + 1])) = Len(tmp) + 1
    BY <1>1, <1>5, Grown, Zenon
  <2>3. tmp' = tmp \/ tmp' = Append(tmp, src[n + 1])
    BY <1>4, Zenon
  <2>4. tmp' \in Seq(Bytes) /\ Len(tmp') \in Nat /\ Len(tmp') <= n + 1
    <3>1. tmp \in Seq(Bytes) /\ Len(tmp) \in Nat /\ n \in Nat
      BY <1>1, <1>3, Zenon
    <3>2. CASE tmp' = tmp
      BY <2>1, <3>1, <3>2
    <3>3. CASE tmp' = Append(tmp, src[n + 1])
      BY <2>1, <2>2, <3>1, <3>3
    <3> QED
      BY <2>3, <3>2, <3>3, Zenon
  <2> QED
    BY <1>1, <1>3, <2>1, <2>4
<1>7. remain' \in Nat /\ remain' <= BUF_SIZE
      /\ (\/ pc' = "read" /\ remain' = 0
          \/ pc' = "write" /\ remain' \in 1 .. Len(buf))
  BY <1>1, <1>2
<1>8. CopyTypes'
  <2>1. Len(tmp') <= Length /\ line' <= Length + 1
    BY <1>1, <1>3, <1>6
  <2> QED
    BY <1>0, <1>6, <1>7, <2>1, Zenon DEF CopyTypes, CopyPC
<1>10. TypeOK'
  BY <1>0, <1>8, CopyTyped, Zenon
<1>11. BufferInv'
  BY <1>2, <1>7, Zenon DEF BufferInv
<1>12. LengthInv' /\ StraightInv'
  <2>1. dst = src
    BY <1>0, Zenon DEF LengthInv
  <2>2. n + 2 = (n + 1) + 1
    BY <1>3
  <2> QED
    BY <1>3, <1>6, <1>7, <2>1, <2>2 DEF LengthInv, StraightInv
<1>13. DetourInv'
  <2>1. dst' = src'
    BY <1>0, Zenon DEF LengthInv
  <2> SUFFICES ASSUME ~silent' PROVE LinesInv'
    BY <1>7, <2>1, Zenon DEF DetourInv
  <2>2. /\ ~silent /\ tmp' = (IF line = LINE THEN tmp ELSE Append(tmp, src[n + 1]))
    <3>1. ~silent /\ tmp' = (IF line = LINE THEN tmp ELSE Append(tmp, buf[Len(buf) - remain + 1]))
      OBVIOUS
    <3> QED
      BY <1>4, <3>1, Zenon
  <2>3. LinesInv
    BY <1>0, <2>2, Zenon DEF DetourInv
  <2>4. line = LineOf(src, n + 1)
    BY <2>3, Zenon DEF LinesInv, n
  <2>5. LinesCut(n, line, tmp)
    BY <2>3, Zenon DEF LinesInv, n
  <2>6. line' = LineOf(src, n + 2)
    BY <1>3, <1>4, <2>4, LineStep
  <2>7. LinesCut(n + 1, line', tmp')
    <3>1. CopyNumbers /\ src \in Seq(Bytes) /\ n \in Nat /\ n + 1 <= Len(src)
      BY <1>0, <1>1, <1>3, Zenon
    <3> DEFINE u == IF line = LINE THEN tmp ELSE Append(tmp, src[n + 1])
    <3>2. LinesCut(n + 1, LineOf(src, n + 2), u)
      BY <2>4, <2>5, <3>1, CutStep, Zenon
    <3>3. tmp' = u
      BY <2>2, Zenon
    <3> HIDE DEF u
    <3> QED
      BY <2>6, <3>2, <3>3, Zenon
  <2>8. n + 2 = (n + 1) + 1
    BY <1>3
  <2>9. LinesCut(n + 1, line', tmp') = LinesCut(Handled, line, tmp)'
    BY <1>3 DEF LinesCut, Cut
  <2>10. line' = (LineOf(src, Handled + 1))'
    BY <1>3, <2>6, <2>8, Zenon
  <2> QED
    BY <2>7, <2>9, <2>10, Zenon DEF LinesInv
<1> QED
  BY <1>10, <1>11, <1>12, <1>13, Zenon DEF CopyIInv


\* A byte of the loop of trunc_ln_10.c is kept or dropped.
LEMMA CopyKeep == ASSUME CopyIInv, Keep PROVE CopyIInv'
<1>0. CopyTypes /\ CopyNumbers /\ silent \in BOOLEAN
  BY CopyKnown, Zenon
<1>1. /\ program = "trunc" /\ pc = "write" /\ UNCHANGED <<program, src, pos, buf, dst>>
      /\ faults' = faults /\ silent' = silent
      /\ remain' = remain - 1 /\ pc' = (IF remain = 1 THEN "read" ELSE "write")
      /\ line' = (IF buf[Len(buf) - remain + 1] = 10 THEN line + 1 ELSE line)
      /\ tmp' = (IF line = LINE THEN tmp ELSE Append(tmp, buf[Len(buf) - remain + 1]))
  BY Zenon DEF Keep
<1>2. faults' \in Nat /\ faults' <= MaxFaults
  BY <1>0, <1>1, Zenon DEF CopyTypes
<1>3. silent' \in BOOLEAN /\ (~silent' => ~silent)
  BY <1>0, <1>1, Zenon
<1>4. tmp' = tmp \/ tmp' = Append(tmp, buf[Len(buf) - remain + 1])
  BY <1>1, Zenon
<1> QED
  BY <1>1, <1>2, <1>3, <1>4, CopyTurn, Zenon

\* fgetc() and fputc() of trunc_ln_10.c, which stops at a byte 255.
LEMMA CopyBack == ASSUME CopyIInv, Back PROVE CopyIInv'
<1>0. /\ CopyTypes /\ CopyNumbers /\ program \in Programs /\ silent \in BOOLEAN
      /\ BufferInv /\ LengthInv /\ StraightInv /\ DetourInv
  BY CopyKnown
<1>1. pc = "back" /\ UNCHANGED <<program, src, buf, remain, line, tmp, faults, silent>>
  BY Zenon DEF Back
<1>2. /\ program = "trunc" /\ remain = 0 /\ pos \in Nat /\ tmp \in Seq(Bytes) /\ Len(tmp) \in Nat
      /\ Len(tmp) <= Length /\ Length \in Nat /\ dst \in Seq(Bytes) /\ Len(dst) \in Nat
      /\ Len(dst) <= pos /\ pos <= Len(tmp)
  BY <1>0, <1>1, Zenon DEF BufferInv, LengthInv, CopyTypes, CopyNumbers
<1>3. ~silent => /\ tmp = WithoutLine(src) /\ dst = SubSeq(tmp, 1, pos)
                 /\ \A m \in 1 .. pos : tmp[m] # 255
  BY <1>0, <1>1, <1>2, Zenon DEF DetourInv
<1>4. WithoutLine(src)' = WithoutLine(src)
  BY <1>1, Zenon DEF WithoutLine, LineOf
<1>5. (Beginnings(UpToEof(tmp)))' = Beginnings(UpToEof(tmp))
  BY <1>1 DEF Beginnings, UpToEof
<1>6. UpToEof(tmp)' = UpToEof(tmp)
  BY <1>1 DEF UpToEof
<1>7. CASE pos < Len(tmp) /\ tmp[pos + 1] # 255
  <2>1. pc' = pc /\ pos' = pos + 1 /\ dst' = Append(dst, tmp[pos + 1])
    BY <1>7, Zenon DEF Back
  <2>2. tmp[pos + 1] \in Bytes /\ pos + 1 <= Len(tmp) /\ pos + 1 \in Nat
    BY <1>2, <1>7
  <2>3. dst' \in Seq(Bytes) /\ Len(dst') = Len(dst) + 1
    BY <1>2, <2>1, <2>2, Grown, Zenon
  <2>4. Len(dst') \in Nat /\ Len(dst') <= pos + 1 /\ Len(dst') <= Length /\ pos + 1 <= Length
    BY <1>2, <2>2, <2>3
  <2>5. CopyTypes'
    BY <1>0, <1>1, <2>1, <2>2, <2>3, <2>4, Zenon DEF CopyTypes
  <2>6. TypeOK'
    BY <1>0, <1>1, <2>5, CopyTyped, Zenon
  <2>7. BufferInv' /\ LengthInv' /\ StraightInv'
    BY <1>1, <1>2, <2>1, <2>2, <2>4, Zenon DEF BufferInv, LengthInv, StraightInv
  <2>8. DetourInv'
    <3> SUFFICES ASSUME ~silent PROVE DetourInv'
      BY <1>1, Zenon DEF DetourInv
    <3>1. dst' = SubSeq(tmp, 1, pos + 1)
      <4>1. 0 \in Nat /\ 0 <= pos /\ 0 + 1 = 1
        BY <1>2
      <4>2. Append(SubSeq(tmp, 0 + 1, pos), tmp[pos + 1]) = SubSeq(tmp, 0 + 1, pos + 1)
        BY <1>2, <2>2, <4>1, PieceGrows, Zenon
      <4> QED
        BY <1>3, <2>1, <4>1, <4>2, Zenon
    <3>2. \A m \in 1 .. pos + 1 : tmp[m] # 255
      BY <1>2, <1>3, <1>7
    <3>3. SubSeq(tmp, 1, pos + 1) \in Beginnings(UpToEof(tmp))
      <4>1. tmp \in Seq(Bytes)
        BY <1>2, Zenon
      <4> QED
        BY <2>2, <3>2, <4>1, EofIs, Zenon
    <3>4. tmp = WithoutLine(src)
      BY <1>3, Zenon
    <3> QED
      BY <1>1, <1>4, <1>5, <2>1, <3>1, <3>2, <3>3, <3>4, Zenon DEF DetourInv
  <2> QED
    BY <2>6, <2>7, <2>8 DEF CopyIInv
<1>8. CASE ~(pos < Len(tmp) /\ tmp[pos + 1] # 255)
  <2>1. pc' = "done" /\ pos' = pos /\ dst' = dst
    BY <1>8, Zenon DEF Back
  <2>2. CopyTypes'
    BY <1>0, <1>1, <2>1, Zenon DEF CopyTypes, CopyPC
  <2>3. TypeOK'
    BY <1>0, <1>1, <2>2, CopyTyped
  <2>4. BufferInv' /\ LengthInv' /\ StraightInv'
    BY <1>1, <1>2, <2>1, Zenon DEF BufferInv, LengthInv, StraightInv
  <2>5. DetourInv'
    <3> SUFFICES ASSUME ~silent PROVE DetourInv'
      BY <1>1 DEF DetourInv
    <3>1. pos = Len(tmp) \/ (pos < Len(tmp) /\ tmp[pos + 1] = 255)
      BY <1>2, <1>8
    <3>2. tmp \in Seq(Bytes) /\ pos \in Nat /\ pos <= Len(tmp) /\ \A m \in 1 .. pos : tmp[m] # 255
      BY <1>2, <1>3, Zenon
    <3>3. /\ SubSeq(tmp, 1, pos) = UpToEof(tmp)
          /\ SubSeq(tmp, 1, pos) \in Beginnings(UpToEof(tmp))
      BY <3>1, <3>2, EofIs
    <3>4. tmp = WithoutLine(src) /\ dst = SubSeq(tmp, 1, pos)
      BY <1>3, Zenon
    <3> QED
      BY <1>1, <1>4, <1>5, <1>6, <2>1, <3>3, <3>4, Zenon DEF DetourInv
  <2> QED
    BY <2>3, <2>4, <2>5 DEF CopyIInv
<1> QED
  BY <1>7, <1>8, Zenon

\* Output is lost and nobody looks: from then on only the lengths are known.
LEMMA CopyLoses == ASSUME CopyIInv, OutputLost PROVE CopyIInv'
<1>0. /\ CopyTypes /\ CopyNumbers /\ program \in Programs /\ silent \in BOOLEAN
      /\ BufferInv /\ LengthInv
  BY CopyKnown, Zenon
<1>1. /\ faults < MaxFaults /\ faults' = faults + 1 /\ silent' = TRUE
      /\ UNCHANGED <<program, src, buf, tmp>>
  BY Zenon DEF OutputLost, Fault
<1>2. faults' \in Nat /\ faults' <= MaxFaults /\ silent' \in BOOLEAN
  BY <1>0, <1>1 DEF CopyTypes, CopyNumbers
<1>3. StraightInv' /\ DetourInv'
  BY <1>1, Zenon DEF StraightInv, DetourInv
<1>4. CASE /\ program \in {"fgetc", "fread"} /\ pc = "read" /\ pos < Len(src) /\ pos' = pos + 1
           /\ UNCHANGED <<pc, remain, line, dst>>
  <2>1. remain = 0 /\ pos \in Nat /\ Len(src) \in Nat /\ Len(src) <= Length /\ Length \in Nat
        /\ Len(dst) \in Nat
    BY <1>0, <1>4, Zenon DEF BufferInv, CopyTypes, CopyNumbers
  <2>2. CopyTypes'
    BY <1>0, <1>1, <1>2, <1>4, <2>1 DEF CopyTypes
  <2>3. TypeOK'
    BY <1>0, <1>1, <1>2, <2>2, CopyTyped, Zenon
  <2>4. BufferInv'
    BY <1>1, <1>4, <2>1 DEF BufferInv
  <2>5. LengthInv'
    BY <1>0, <1>1, <1>4, <2>1 DEF LengthInv, Handled
  <2> QED
    BY <1>3, <2>3, <2>4, <2>5, Zenon DEF CopyIInv
<1>5. CASE /\ program = "trunc" /\ pc = "write" /\ line # LINE
           /\ line' = (IF buf[Len(buf) - remain + 1] = 10 THEN line + 1 ELSE line)
           /\ remain' = remain - 1 /\ pc' = (IF remain = 1 THEN "read" ELSE "write")
           /\ UNCHANGED <<pos, dst>>
  <2>1. UNCHANGED <<program, src, pos, buf, dst>> /\ tmp' = tmp
    BY <1>1, <1>5, Zenon
  <2>2. ~silent' => FALSE
    BY <1>1
  <2> QED
    BY <1>2, <1>5, <2>1, <2>2, CopyTurn, Zenon
<1>6. CASE /\ program # "read" /\ pc = "done" /\ dst' \in Beginnings(dst)
           /\ UNCHANGED <<pc, pos, remain, line>>
  <2>1. dst' \in Seq(Bytes) /\ Len(dst') \in Nat /\ Len(dst') <= Len(dst) /\ Len(dst) <= Length
    <3>1. dst \in Seq(Bytes) /\ Len(dst) <= Length
      BY <1>0 DEF CopyTypes
    <3> QED
      BY <1>6, <3>1, BeginningIs, Zenon
  <2>2. CopyTypes'
    <3>1. Len(dst) \in Nat /\ Length \in Nat
      BY <1>0, Zenon DEF CopyTypes, CopyNumbers
    <3>2. Len(dst') <= Length
      BY <2>1, <3>1
    <3> QED
      BY <1>0, <1>1, <1>2, <1>6, <2>1, <3>2 DEF CopyTypes
  <2>3. TypeOK'
    BY <1>0, <1>1, <1>2, <2>2, CopyTyped
  <2>4. BufferInv' /\ LengthInv'
    BY <1>0, <1>1, <1>6, Zenon DEF BufferInv, LengthInv
  <2> QED
    BY <1>3, <2>3, <2>4 DEF CopyIInv
<1> QED
  BY <1>4, <1>5, <1>6, Zenon DEF OutputLost


\* A failing call or a kill leaves a beginning of what was there.
LEMMA CopyFails ==
  ASSUME CopyIInv,
         OpenFails \/ ReadFails \/ WriteFails \/ BackFails \/ Kill
  PROVE  CopyIInv'
<1>0. CopyTypes /\ BufferInv /\ silent \in BOOLEAN
  BY CopyKnown, Zenon
<1> USE DEF OpenFails, ReadFails, WriteFails, BackFails, Kill, Fault
<1>1. /\ UNCHANGED <<program, src, pos, buf, remain, line, tmp>>
      /\ faults < MaxFaults /\ faults' = faults + 1
  OBVIOUS
<1>2. silent' \in BOOLEAN /\ (silent => silent')
  <2>1. silent' = silent \/ silent' = (silent \/ program \in {"fgetc", "fread"})
    BY SMTT(30)
  <2> QED
    BY <1>0, <2>1, Zenon
<1>3. pc' \in {"failed", "killed"} \/ (pc' = "done" /\ silent' /\ remain = 0)
  <2>1. CASE ReadFails
    <3>1. program \in {"read", "trunc"} => pc' = "failed"
      BY <2>1, Zenon
    <3>2. program \in {"fgetc", "fread"} => pc' = "done" /\ silent' /\ remain = 0
      <4>1. pc = "read" => remain = 0
        BY <1>0, Zenon DEF BufferInv
      <4>2. silent' = (silent \/ program \in {"fgetc", "fread"})
        BY <2>1, Zenon
      <4>3. pc = "read" /\ pc' = (IF program \in {"read", "trunc"} THEN "failed" ELSE "done")
        BY <2>1, Zenon
      <4> QED
        BY <4>1, <4>2, <4>3, Zenon
    <3> QED
      BY <1>0, <3>1, <3>2, Zenon DEF CopyTypes
  <2>2. CASE OpenFails \/ WriteFails \/ BackFails \/ Kill
    BY <2>2, Zenon
  <2> QED
    BY <2>1, <2>2, Zenon
<1>4. dst' = dst \/ (dst' \in Beginnings(dst) /\ (program # "trunc" \/ pc = "back"))
  OBVIOUS
<1> HIDE DEF OpenFails, ReadFails, WriteFails, BackFails, Kill, Fault
<1> QED
  BY <1>1, <1>2, <1>3, <1>4, CopyStops, Zenon

\* Every step of the four programs keeps the invariant.
LEMMA CopyStepInv == CopyIInv /\ [Next]_vars => CopyIInv'
<1> SUFFICES ASSUME CopyIInv, [Next]_vars PROVE CopyIInv'
  OBVIOUS
<1>1. CASE Next
  BY <1>1, CopyReads, CopyWrite, CopyKeep, CopyFread, CopyFgetc, CopyReadEnd, CopyReopen, CopyBack,
     CopyLoses, CopyFails, Zenon DEF Next
<1>2. CASE UNCHANGED vars
  <2>1. UNCHANGED <<program, pc, src, pos, buf, remain, line, tmp, dst, faults, silent>>
    BY <1>2, Zenon DEF vars
  <2>2. Reached' = Reached /\ WithoutLine(src)' = WithoutLine(src)
        /\ UpToEof(tmp)' = UpToEof(tmp)
    BY <2>1 DEF Reached, WithoutLine, LineOf, UpToEof
  <2>3. /\ (Beginnings(Reached))' = Beginnings(Reached)
        /\ (Beginnings(UpToEof(tmp)))' = Beginnings(UpToEof(tmp))
    BY <2>2, Zenon DEF Beginnings
  <2>4. /\ TypeOK /\ BufferInv /\ LengthInv /\ StraightInv /\ DetourInv
    BY DEF CopyIInv
  <2>5. TypeOK' /\ BufferInv' /\ LengthInv'
    BY <2>1, <2>4, Zenon DEF TypeOK, Files, BufferInv, LengthInv, Handled
  <2>6. Handled' = Handled
    BY <2>1, Zenon DEF Handled
  <2>7. StraightInv'
    BY <2>1, <2>2, <2>3, <2>4, <2>6, SMTT(30) DEF StraightInv
  <2>8. DetourInv'
    BY <2>1, <2>2, <2>3, <2>4, <2>6, LinesKept, Zenon DEF DetourInv
  <2> QED
    BY <2>5, <2>7, <2>8, Zenon DEF CopyIInv
<1> QED
  BY <1>1, <1>2, Zenon

\* The invariant holds in all reachable states.
LEMMA CopyInvariance == Spec => []CopyIInv
<1>1. Init => CopyIInv
  BY CopyInitInv, Zenon
<1>2. CopyIInv /\ [Next]_vars => CopyIInv'
  BY CopyStepInv, Zenon
<1> QED
  BY <1>1, <1>2, PTL DEF Spec

\* What the four programs have written is at every moment the beginning of what
\* they should write, and all of it when they end by themselves, for every file,
\* every size of the buffer and any short read and write, unless an unchecked call
\* has lost something or one of the two that read through a char has stopped at a
\* byte 255.
THEOREM CopiesWantedHolds == Spec => []CopiesWanted
<1>1. ASSUME CopyIInv PROVE CopiesWanted
  <2>1. /\ CopyTypes /\ StraightInv /\ DetourInv /\ TypeOK
    BY <1>1, CopyKnown, Zenon DEF CopyIInv
  <2>2. program \in {"read", "fgetc", "fread", "trunc"} /\ src \in Seq(Bytes) /\ tmp \in Seq(Bytes)
    BY <2>1, Zenon DEF CopyTypes
  <2> SUFFICES ASSUME ~silent
               PROVE  /\ dst \in Beginnings(Wanted) \/ (program = "trunc" /\ dst = src)
                      /\ pc = "done" => dst = Wanted \/ StoppedAtFF
    BY <2>1, Zenon DEF CopiesWanted
  \* Beginnings of s up to its end of file are beginnings of s.
  <2>3. ASSUME NEW s \in Seq(Bytes)
        PROVE  /\ \A d \in Beginnings(UpToEof(s)) : d \in Beginnings(s)
               /\ \/ UpToEof(s) = s
                  \/ Len(UpToEof(s)) < Len(s) /\ s[Len(UpToEof(s)) + 1] = 255
    <3>1. /\ UpToEof(s) \in Beginnings(s)
          /\ \/ UpToEof(s) = s
             \/ Len(UpToEof(s)) < Len(s) /\ s[Len(UpToEof(s)) + 1] = 255
      BY EofStops
    <3>2. \A d \in Beginnings(UpToEof(s)) : d \in Beginnings(s)
      BY <3>1, BeginningIs, Zenon
    <3> QED
      BY <3>1, <3>2, Zenon
  <2>4. CASE program = "trunc"
    <3>1. Wanted = WithoutLine(src)
      BY <2>4, Zenon DEF Wanted
    <3>2. dst = src \/ (tmp = WithoutLine(src) /\ dst \in Beginnings(UpToEof(tmp)))
      BY <2>1, <2>4, Zenon DEF DetourInv
    <3>3. dst \in Beginnings(Wanted) \/ dst = src
      BY <2>2, <2>3, <3>1, <3>2, Zenon
    <3>4. ASSUME pc = "done" PROVE dst = Wanted \/ StoppedAtFF
      <4>1. Wanted \in Seq(Bytes) /\ dst = UpToEof(Wanted)
        BY <2>1, <2>2, <2>4, <3>1, <3>4, Zenon DEF DetourInv
      <4>2. UpToEof(Wanted) = Wanted
              \/ (Len(UpToEof(Wanted)) < Len(Wanted) /\ Wanted[Len(UpToEof(Wanted)) + 1] = 255)
        <5>1. Wanted \in Seq(Bytes)
          BY <4>1, Zenon
        <5> QED
          BY <5>1, EofStops, SMTT(30)
      <4> QED
        BY <2>4, <4>1, <4>2, Zenon DEF StoppedAtFF
    <3> QED
      BY <2>4, <3>3, <3>4, Zenon
  <2>5. CASE program = "fgetc"
    <3>1. Wanted = src /\ Reached = UpToEof(src)
      BY <2>2, <2>5, ReachedIs, Zenon DEF Wanted
    <3>2. dst \in Beginnings(Reached) /\ (pc = "done" => dst = Reached)
      BY <2>1, <2>5, Zenon DEF StraightInv
    <3>3. dst \in Beginnings(Wanted)
      BY <2>2, <2>3, <3>1, <3>2, Zenon
    <3>4. UpToEof(Wanted) = Wanted
            \/ (Len(UpToEof(Wanted)) < Len(Wanted) /\ Wanted[Len(UpToEof(Wanted)) + 1] = 255)
      BY <2>2, <2>3, <3>1, Zenon
    <3>5. pc = "done" => dst = Wanted \/ StoppedAtFF
      BY <2>5, <3>1, <3>2, <3>4, Zenon DEF StoppedAtFF
    <3> QED
      BY <3>3, <3>5, Zenon
  <2>6. CASE program \in {"read", "fread"}
    <3>1. Wanted = src /\ Reached = src
      BY <2>2, <2>6, ReachedIs, Zenon DEF Wanted
    <3>2. dst \in Beginnings(Reached) /\ (pc = "done" => dst = Reached)
      BY <2>1, <2>6, Zenon DEF StraightInv
    <3> QED
      BY <3>1, <3>2, Zenon
  <2> QED
    BY <2>2, <2>4, <2>5, <2>6, Zenon
<1>2. CopyIInv => CopiesWanted
  BY <1>1, Zenon
<1> QED
  BY <1>2, CopyInvariance, PTL

\* trunc_ln_10.c does not touch the file before tmp holds all of it but line LINE,
\* whatever fails.
THEOREM OriginalKeptHolds == Spec => []OriginalKept
<1>1. ASSUME CopyIInv PROVE OriginalKept
  BY <1>1, CopyKnown, Zenon DEF DetourInv, OriginalKept
<1>2. CopyIInv => OriginalKept
  BY <1>1
<1> QED
  BY <1>2, CopyInvariance, PTL
=============================================================================
