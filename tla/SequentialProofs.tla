-------------------------- MODULE SequentialProofs --------------------------
(***************************************************************************)
(* Proofs about programs that run alone.                                   *)
(*                                                                         *)
(* HttpClient, for responses of every length: what the automaton           *)
(* recognises, and that it skips every well-formed head.                   *)
(*                                                                         *)
(* DiskUsage, for trees of every size and depth: every entry that is there *)
(* all the time is added exactly once.                                     *)
(***************************************************************************)
EXTENDS HttpClient, DiskUsage, WellFoundedInduction, TLAPS

\* The flag says that an empty line has been read.
BodyMeansEmpty == body <=> \E q \in 1 .. pos : EndsEmpty(q)

\* The file is what follows the first empty line, but for the \n of empty lines.
SavedExactly ==
  saved = {p \in 1 .. pos : ~EndsEmpty(p) /\ \E q \in 1 .. p - 1 : EndsEmpty(q)}

IInv == TypeOK /\ StatusMeansRun /\ BodyMeansEmpty /\ SavedExactly

-----------------------------------------------------------------------------
\* A byte that belongs to a line ends the run; a line-end byte extends it.
LEMMA RunStep ==
  ASSUME NEW p \in Nat, p + 1 <= Len(response), response \in Seq(Byte)
  PROVE  /\ response[p + 1] = "x" => Run(p + 1) = {}
         /\ response[p + 1] # "x" => Run(p + 1) = Run(p) \cup {p + 1}
<1>1. ASSUME response[p + 1] = "x" PROVE Run(p + 1) = {}
  BY <1>1 DEF Run
<1>2. ASSUME response[p + 1] # "x", NEW a PROVE a \in Run(p + 1) <=> a \in Run(p) \cup {p + 1}
  <2>1. CASE a \in 1 .. p
    <3>1. a .. p + 1 = (a .. p) \cup {p + 1}
      BY <2>1
    <3> QED
      BY <1>2, <2>1, <3>1 DEF Run
  <2>2. CASE a = p + 1
    <3>1. a .. p + 1 = {p + 1}
      BY <2>2
    <3> QED
      BY <1>2, <2>2, <3>1 DEF Run
  <2>3. CASE a \notin 1 .. p + 1
    BY <2>3 DEF Run
  <2> QED
    BY <2>1, <2>2, <2>3
<1> QED
  BY <1>1, <1>2

\* How one more byte changes what the run contains.
LEMMA HasStep ==
  ASSUME NEW p \in Nat, p + 1 <= Len(response), response \in Seq(Byte)
  PROVE  LET c == response[p + 1] IN
         /\ HasR(p + 1) <=> c # "x" /\ (HasR(p) \/ c = "r")
         /\ HasRN(p + 1) <=> c # "x" /\ (HasRN(p) \/ (c = "n" /\ HasR(p)))
         /\ HasRNR(p + 1) <=> c # "x" /\ (HasRNR(p) \/ (c = "r" /\ HasRN(p)))
<1> DEFINE c == response[p + 1]
<1>1. CASE c = "x"
  BY <1>1, RunStep, Zenon DEF HasR, HasRN, HasRNR
<1>2. CASE c # "x"
  <2>1. Run(p + 1) = Run(p) \cup {p + 1}
    BY <1>2, RunStep
  <2>2. \A a \in Run(p) : a \in Nat /\ a < p + 1
    BY DEF Run
  <2> HIDE DEF c
  <2>3. HasR(p + 1) <=> HasR(p) \/ c = "r"
    BY <2>1 DEF HasR, c
  <2>4. HasRN(p + 1) <=> HasRN(p) \/ (c = "n" /\ HasR(p))
    BY <2>1, <2>2 DEF HasRN, HasR, c
  <2>5. HasRNR(p + 1) <=> HasRNR(p) \/ (c = "r" /\ HasRN(p))
    BY <2>1, <2>2 DEF HasRNR, HasRN, c
  <2> QED
    BY <1>2, <2>3, <2>4, <2>5 DEF c
<1> QED
  BY <1>1, <1>2

\* Nothing has been read at the start.
LEMMA InitInv == Init => IInv
<1> SUFFICES ASSUME Init PROVE IInv
  OBVIOUS
<1>1. Len(response) \in Nat
  BY HttpAssumption DEF Init
<1>2. TypeOK
  <2>1. body \in BOOLEAN
    BY Zenon DEF Init
  <2> QED
    BY <1>1, <2>1 DEF Init, TypeOK
<1>3. Run(0) = {}
  BY DEF Run
<1>4. StatusMeansRun /\ BodyMeansEmpty /\ SavedExactly
  BY <1>3 DEF Init, StatusMeansRun, BodyMeansEmpty, SavedExactly, HasR, HasRN, HasRNR
<1> QED
  BY <1>2, <1>4 DEF IInv

\* One turn of the loop: the automaton, the flag and the file agree with the
\* definitions over the response again.
LEMMA ReadByteStep == ASSUME IInv, ReadByte PROVE IInv'
<1> DEFINE c == response[pos + 1]
<1>1. /\ response \in Seq(Byte) /\ response' = response /\ main' = main
      /\ pos \in Nat /\ pos' = pos + 1 /\ pos + 1 <= Len(response)
      /\ Len(response) \in Nat
  BY HttpAssumption DEF IInv, TypeOK, ReadByte
<1>2. c \in Byte
  BY <1>1
<1>3. status' = NextStatus(c) /\ body' = (body \/ EmptyLine(c))
      /\ saved' = IF body /\ ~EmptyLine(c) THEN saved \cup {pos + 1} ELSE saved
  BY DEF ReadByte
<1>4. EmptyLine(c) <=> EndsEmpty(pos + 1)
  BY <1>1, <1>2 DEF EmptyLine, EndsEmpty, IInv, StatusMeansRun
<1>5. \A q : EndsEmpty(q)' <=> EndsEmpty(q)
  BY <1>1 DEF EndsEmpty, HasRNR, Run
<1>6. (HasR(pos)' <=> HasR(pos + 1)) /\ (HasRN(pos)' <=> HasRN(pos + 1)) /\ (HasRNR(pos)' <=> HasRNR(pos + 1))
  BY <1>1 DEF HasR, HasRN, HasRNR, Run
<1>7. TypeOK'
  <2>1. body' \in BOOLEAN
    BY <1>3, Zenon DEF IInv, TypeOK, EmptyLine
  <2>2. status' \in 0 .. 3
    BY <1>2, <1>3 DEF NextStatus, Byte, IInv, TypeOK
  <2>3. saved' \subseteq 1 .. pos'
    BY <1>1, <1>3 DEF IInv, TypeOK
  <2> QED
    BY <1>1, <2>1, <2>2, <2>3 DEF IInv, TypeOK
<1>8. StatusMeansRun'
  <2>1. /\ HasR(pos + 1) <=> c # "x" /\ (status >= 1 \/ c = "r")
        /\ HasRN(pos + 1) <=> c # "x" /\ (status >= 2 \/ (c = "n" /\ status >= 1))
        /\ HasRNR(pos + 1) <=> c # "x" /\ (status = 3 \/ (c = "r" /\ status >= 2))
    BY <1>1, HasStep DEF IInv, StatusMeansRun
  <2>2. /\ status' >= 1 <=> c # "x" /\ (status >= 1 \/ c = "r")
        /\ status' >= 2 <=> c # "x" /\ (status >= 2 \/ (c = "n" /\ status >= 1))
        /\ status' = 3 <=> c # "x" /\ (status = 3 \/ (c = "r" /\ status >= 2))
    BY <1>2, <1>3 DEF NextStatus, Byte, IInv, TypeOK
  <2> QED
    BY <1>6, <2>1, <2>2, Zenon DEF StatusMeansRun
<1>9. BodyMeansEmpty'
  <2>1. body' <=> (\E q \in 1 .. pos : EndsEmpty(q)) \/ EndsEmpty(pos + 1)
    BY <1>3, <1>4, Zenon DEF IInv, BodyMeansEmpty
  <2>2. 1 .. pos' = (1 .. pos) \cup {pos + 1}
    BY <1>1
  <2> QED
    BY <1>5, <2>1, <2>2, Zenon DEF BodyMeansEmpty
<1>10. SavedExactly'
  <2> DEFINE Keep(p) == ~EndsEmpty(p) /\ \E q \in 1 .. p - 1 : EndsEmpty(q)
  <2>1. saved = {p \in 1 .. pos : Keep(p)}
    BY DEF IInv, SavedExactly
  <2>2. Keep(pos + 1) <=> body /\ ~EmptyLine(c)
    BY <1>1, <1>4 DEF IInv, BodyMeansEmpty
  <2>3. 1 .. pos' = (1 .. pos) \cup {pos + 1}
    BY <1>1
  <2>4. SavedExactly' <=> saved' = {p \in 1 .. pos' : Keep(p)}
    BY <1>5 DEF SavedExactly
  <2> HIDE DEF Keep
  <2>5. saved' = {p \in 1 .. pos' : Keep(p)}
    BY <1>3, <2>1, <2>2, <2>3
  <2> QED
    BY <2>4, <2>5
<1> QED
  BY <1>7, <1>8, <1>9, <1>10 DEF IInv

\* No other step reads or writes a byte.
LEMMA StepInv == IInv /\ [Next]_vars => IInv'
<1> SUFFICES ASSUME IInv, [Next]_vars PROVE IInv'
  OBVIOUS
<1>1. CASE ReadByte
  BY <1>1, ReadByteStep
<1>2. CASE Args \/ Connect \/ OpenOut \/ Eof \/ UNCHANGED vars
  <2>1. UNCHANGED <<response, pos, status, body, saved>>
    BY <1>2 DEF Args, Connect, OpenOut, Eof, vars
  <2>2. TypeOK'
    BY <1>2, <2>1, Zenon DEF Args, Connect, OpenOut, Eof, vars, IInv, TypeOK
  <2>3. StatusMeansRun' /\ BodyMeansEmpty' /\ SavedExactly'
    BY <2>1 DEF IInv, StatusMeansRun, BodyMeansEmpty, SavedExactly, EndsEmpty,
                HasR, HasRN, HasRNR, Run
  <2> QED
    BY <2>2, <2>3, Zenon DEF IInv
<1> QED
  BY <1>1, <1>2 DEF Next

\* The automaton, the flag and the file agree with the definitions over the
\* response in every state.
THEOREM Invariance == Spec => []IInv
<1>1. Init => IInv
  BY InitInv
<1>2. IInv /\ [Next]_vars => IInv'
  BY StepInv
<1> QED
  BY <1>1, <1>2, PTL DEF Spec

\* status is what the line ends just read contain of \r\n\r.
THEOREM StatusMeansRunHolds == Spec => []StatusMeansRun
<1>1. IInv => StatusMeansRun
  BY DEF IInv
<1> QED
  BY <1>1, Invariance, PTL

-----------------------------------------------------------------------------
\* Inside a well-formed head the automaton sees no empty line before its end:
\* \r..\n..\r picked from one run would be \r\n\r\n.
LEMMA NoEmptyLineBefore ==
  ASSUME response \in Seq(Byte), NEW h, IsHead(h), NEW q \in 1 .. h - 1
  PROVE  ~EndsEmpty(q)
<1> SUFFICES ASSUME EndsEmpty(q) PROVE FALSE
  OBVIOUS
<1>1. Len(response) \in Nat /\ h \in Nat /\ q \in Nat /\ h <= Len(response)
  BY DEF IsHead
<1>2. PICK a, b, c \in Run(q - 1) : a < b /\ b < c /\ response[a] = "r"
  BY DEF EndsEmpty, HasRNR
<1>3. a \in Nat /\ b \in Nat /\ c \in Nat /\ a >= 1 /\ a + 3 <= q
      /\ response[a + 2] # "x"
  BY <1>1, <1>2 DEF Run
<1>4. a \in 1 .. h - 1 /\ a + 1 \in 1 .. h - 1 /\ a + 3 \in 4 .. h - 1
  BY <1>1, <1>3
<1>5. \A p \in 1 .. h - 1 : response[p] = "r" <=> response[p + 1] = "n"
  BY Zenon DEF IsHead
<1>6. response[a + 1] = "n"
  BY <1>2, <1>4, <1>5, Zenon
<1>7. response[a + 2] # "n"
  <2>1. (a + 1) + 1 = a + 2
    BY <1>3
  <2> QED
    BY <1>4, <1>5, <1>6, <2>1, Zenon
<1>8. response[a + 2] = "r"
  <2>1. a + 2 \in 1 .. Len(response)
    BY <1>1, <1>4
  <2> QED
    BY <1>3, <1>7, <2>1 DEF Byte
<1>9. (a + 3) - 3 = a /\ (a + 3) - 1 = a + 2
  BY <1>3
<1>10. ~(response[(a + 3) - 3] = "r" /\ response[(a + 3) - 1] = "r")
  BY <1>4, Zenon DEF IsHead
<1> QED
  BY <1>2, <1>8, <1>9, <1>10, Zenon

\* It sees one at the end.
LEMMA EmptyLineAtEnd ==
  ASSUME response \in Seq(Byte), NEW h, IsHead(h)
  PROVE  EndsEmpty(h)
<1>1. Len(response) \in Nat /\ h \in Nat /\ h >= 5 /\ h <= Len(response)
  BY DEF IsHead
<1>2. response[h - 3] = "r" /\ response[h - 1] = "r" /\ response[h] = "n"
  BY DEF IsHead
<1>3. response[h - 2] = "n"
  BY <1>1, <1>2 DEF IsHead
<1>4. h - 3 \in Run(h - 1) /\ h - 2 \in Run(h - 1) /\ h - 1 \in Run(h - 1)
  BY <1>1, <1>2, <1>3 DEF Run
<1> QED
  BY <1>1, <1>2, <1>3, <1>4 DEF EndsEmpty, HasRNR

\* Whatever the head, none of it is saved, and the body begins where it ends.
THEOREM HeadSkippedHolds == Spec => []HeadSkipped
<1>1. IInv => HeadSkipped
  <2> SUFFICES ASSUME IInv, NEW h \in 1 .. Len(response), IsHead(h)
               PROVE  saved \subseteq h + 1 .. Len(response) /\ (pos >= h => body)
    BY DEF HeadSkipped
  <2>1. response \in Seq(Byte) /\ Len(response) \in Nat /\ pos \in Nat /\ pos <= Len(response)
        /\ h \in Nat
    BY HttpAssumption DEF IInv, TypeOK
  <2>2. ASSUME NEW p \in saved PROVE p \in h + 1 .. Len(response)
    <3>1. PICK q \in 1 .. p - 1 : p \in 1 .. pos /\ EndsEmpty(q)
      BY <2>2 DEF IInv, SavedExactly
    <3>2. ~(q \in 1 .. h - 1)
      BY <2>1, <3>1, NoEmptyLineBefore
    <3> QED
      BY <2>1, <3>1, <3>2
  <2>3. ASSUME pos >= h PROVE body
    <3>1. EndsEmpty(h) /\ h \in 1 .. pos
      BY <2>1, <2>3, EmptyLineAtEnd
    <3> QED
      BY <3>1 DEF IInv, BodyMeansEmpty
  <2> QED
    BY <2>2, <2>3
<1> QED
  BY <1>1, Invariance, PTL

\* Whatever the head, the body is saved whole up to the first \n that the automaton
\* takes for the end of an empty line (http_client.c:67 and 87-91).
THEOREM BodySavedHolds == Spec => []BodySaved
<1>1. IInv => BodySaved
  <2> SUFFICES ASSUME IInv, NEW h \in 1 .. Len(response), IsHead(h),
                      \A p \in h + 1 .. pos : ~EndsEmpty(p)
               PROVE  saved = h + 1 .. pos
    BY DEF BodySaved
  <2>1. response \in Seq(Byte) /\ Len(response) \in Nat /\ pos \in Nat /\ h \in Nat
    BY HttpAssumption DEF IInv, TypeOK
  <2>2. EndsEmpty(h)
    BY <2>1, EmptyLineAtEnd
  <2>3. ASSUME NEW p \in saved PROVE p \in h + 1 .. pos
    <3>1. PICK q \in 1 .. p - 1 : p \in 1 .. pos /\ EndsEmpty(q)
      BY <2>3 DEF IInv, SavedExactly
    <3>2. ~(q \in 1 .. h - 1)
      BY <2>1, <3>1, NoEmptyLineBefore
    <3> QED
      BY <2>1, <3>1, <3>2
  <2>4. ASSUME NEW p \in h + 1 .. pos PROVE p \in saved
    <3>1. p \in 1 .. pos /\ h \in 1 .. p - 1
      BY <2>1, <2>4
    <3> QED
      BY <2>2, <2>4, <3>1, Zenon DEF IInv, SavedExactly
  <2> QED
    BY <2>3, <2>4, Zenon
<1> QED
  BY <1>1, Invariance, PTL

-----------------------------------------------------------------------------
(* DiskUsage *)

\* The entries that are there all the time, so far.
Steady == present \ changed

\* A loop has the entry before it, or the call that will add it has been made.
InLoop(e) == \E k \in DOMAIN calls : e \in calls[k].left
Called(e) == pc = "lstat" /\ path = e

\* The directory of the entry has not been listed yet.
Unlisted(e) == e # 1 /\ (counted[parent[e]] = 0 \/ (pc = "list" /\ path = parent[e]))

TreeInv ==
  /\ \A e \in 2 .. N : parent[e] \in 1 .. e - 1 /\ dir[parent[e]]
  /\ \A e, g \in 2 .. N : parent[e] = parent[g] /\ name[e] = name[g] => e = g

\* An entry that is there all the time lies in a directory that is.
SteadyInv ==
  /\ 1 \in Steady
  /\ \A e \in present \ {1} : parent[e] \in present
  /\ \A e \in Steady \ {1} : parent[e] \in Steady

StackInv ==
  /\ pc = "next" => calls # <<>>
  /\ pc = "done" => calls = <<>>
  /\ pc = "list" => counted[path] > 0

\* The loops are over directories ever deeper in the tree, each over its own.
LoopsInv ==
  /\ \A k \in DOMAIN calls : \A x \in calls[k].left : x # 1 /\ parent[x] = calls[k].of
  /\ \A j, k \in DOMAIN calls : j < k => calls[j].of < calls[k].of
  /\ pc \in {"lstat", "list"} => \A k \in DOMAIN calls : calls[k].of < path

\* What is known of an entry e that nobody has created or removed: it is never
\* before the program again once it has been added.
Once(e) ==
  /\ counted[e] <= 1
  /\ e \notin present => counted[e] = 0
  /\ InLoop(e) \/ Called(e) => counted[e] = 0
  /\ ~(InLoop(e) /\ Called(e))
  /\ e \in present /\ Unlisted(e) => counted[e] = 0 /\ ~InLoop(e) /\ ~Called(e)

\* It has been added or is still to come.
ToCome(e) == counted[e] = 1 \/ InLoop(e) \/ Called(e) \/ Unlisted(e)

WalkInv ==
  /\ LoopsInv
  /\ \A e \in Entry \ changed : Once(e)
  /\ faults = 0 /\ pc # "failed" => \A e \in Steady : ToCome(e)

UsageIInv == UsageTypeOK /\ TreeInv /\ SteadyInv /\ StackInv /\ (Literal => WalkInv)

Frames == [of : Entry, left : SUBSET Entry]

\* At the start only the first entry is called, and none is added.
LEMMA UsageInitInv == UsageInit => UsageIInv
<1> SUFFICES ASSUME UsageInit PROVE UsageIInv
  OBVIOUS
<1> USE DEF Entry
<1>0. N \in Nat \ {0} /\ MaxFaults \in Nat
  BY UsageAssumption, Zenon
<1>1. UsageTypeOK
  <2>1. parent \in [Entry -> 0 .. N]
    BY <1>0 DEF UsageInit
  <2>2. calls \in Seq(Frames)
    BY DEF UsageInit
  <2> QED
    BY <1>0, <2>1, <2>2 DEF UsageInit, UsageTypeOK, Frames
<1>2. TreeInv
  BY <1>0, Zenon DEF UsageInit, TreeInv
<1>3. SteadyInv
  BY <1>0 DEF UsageInit, SteadyInv, Steady
<1>4. StackInv
  BY DEF UsageInit, StackInv
<1>5. calls = <<>> /\ DOMAIN calls = {}
  BY DEF UsageInit
<1>6. LoopsInv
  BY <1>5, Zenon DEF LoopsInv
<1>7. \A e \in Entry : counted[e] = 0 /\ ~InLoop(e) /\ (Called(e) => e = 1) /\ (e = 1 \/ Unlisted(e))
  <2> TAKE e \in Entry
  <2>1. counted[e] = 0 /\ ~InLoop(e) /\ (Called(e) => e = 1)
    BY <1>5 DEF UsageInit, InLoop, Called
  <2>2. ASSUME e # 1 PROVE counted[parent[e]] = 0
    <3>1. e \in 2 .. N
      BY <1>0, <2>2
    <3>2. parent[e] \in Entry
      BY <1>0, <1>2, <3>1 DEF TreeInv
    <3> QED
      BY <3>2, Zenon DEF UsageInit
  <2> QED
    BY <2>1, <2>2 DEF Unlisted
<1>8. WalkInv
  <2>1. \A e \in Entry : Once(e)
    BY <1>7 DEF Once, Unlisted
  <2>2. Called(1)
    BY DEF UsageInit, Called
  <2>3. \A e \in Steady : ToCome(e)
    BY <1>1, <1>7, <2>2 DEF ToCome, Steady, UsageTypeOK
  <2> QED
    BY <1>6, <2>1, <2>3, Zenon DEF WalkInv
<1> QED
  BY <1>1, <1>2, <1>3, <1>4, <1>8 DEF UsageIInv

\* A set of numbers that is not empty has a least one.
LEMMA LeastNat ==
  ASSUME NEW S, S \subseteq Nat, S # {} PROVE \E y \in S : \A z \in S : ~(z < y)
<1>1. PICK y \in S : \A z \in S : <<z, y>> \notin OpToRel(<, Nat)
  BY WFMin, NatLessThanWellFounded
<1> QED
  BY <1>1, Zenon DEF OpToRel

\* A path in which no name is a pattern matches itself only.
LEMMA MatchedIs ==
  ASSUME UsageTypeOK, TreeInv, Literal, by_glob
  PROVE  \A y \in Entry : Matched[y] = {y}
<1> DEFINE Step(f) == [y \in Entry |->
                        IF y = 1 THEN {1}
                        ELSE {x \in Entry \ {1} :
                               /\ parent[x] \in f[parent[y]]
                               /\ name[x] = name[y] \/ (name[y] = Star /\ name[x] \notin Hidden)}]
           Same == [y \in Entry |-> {y}]
<1>0. N \in Nat \ {0}
  BY UsageAssumption, Zenon
<1>1. \A e \in Entry : e # 1 => e \in 2 .. N /\ parent[e] \in Entry /\ parent[e] < e /\ name[e] # Star
  BY <1>0 DEF TreeInv, Literal, Entry
<1>2. Same = Step(Same)
  <2>1. ASSUME NEW y \in Entry PROVE Step(Same)[y] = {y}
    <3>1. CASE y = 1
      BY <3>1
    <3>2. CASE y # 1
      <4>1. ASSUME NEW x \in Entry \ {1}
            PROVE  (/\ parent[x] \in Same[parent[y]]
                    /\ name[x] = name[y] \/ (name[y] = Star /\ name[x] \notin Hidden)) <=> x = y
        BY <1>1, <3>2 DEF TreeInv
      <4>2. {x \in Entry \ {1} :
                               /\ parent[x] \in Same[parent[y]]
                               /\ name[x] = name[y] \/ (name[y] = Star /\ name[x] \notin Hidden)} = {y}
        BY <3>2, <4>1
      <4> QED
        BY <3>2, <4>2
    <3> QED
      BY <3>1, <3>2
  <2> QED
    BY <2>1, Zenon
<1>3. Matched = CHOOSE f : f = Step(f)
  BY DEF Matched
<1>4. Matched = Step(Matched)
  <2> HIDE DEF Step, Same
  <2>1. \E f : f = Step(f)
    BY <1>2
  <2> QED
    BY <1>3, <2>1, Zenon
<1> HIDE DEF Same
<1>5. ASSUME NEW y \in Entry, \A z \in Entry : z < y => Matched[z] = {z}
      PROVE  Matched[y] = {y}
  <2> DEFINE M == Matched
  <2>1. M[y] = Step(M)[y]
    BY <1>4, Zenon
  <2>2. CASE y = 1
    BY <2>1, <2>2
  <2>3. CASE y # 1
    <3>1. M[parent[y]] = {parent[y]}
      BY <1>1, <1>5, <2>3, Zenon
    <3>2. ASSUME NEW x \in Entry \ {1}
          PROVE  (/\ parent[x] \in M[parent[y]]
                  /\ name[x] = name[y] \/ (name[y] = Star /\ name[x] \notin Hidden)) <=> x = y
      <4> HIDE DEF M
      <4> QED
        BY <1>1, <2>3, <3>1, Zenon DEF TreeInv
    <3>3. M[y] = {x \in Entry \ {1} :
                   /\ parent[x] \in M[parent[y]]
                   /\ name[x] = name[y] \/ (name[y] = Star /\ name[x] \notin Hidden)}
      BY <2>1, <2>3
    <3> HIDE DEF M
    <3>4. M[y] = {y}
      BY <2>3, <3>2, <3>3
    <3> QED
      BY <3>4, Zenon DEF M
  <2> QED
    BY <2>2, <2>3
<1>6. SUFFICES ASSUME NEW w \in Entry, Matched[w] # {w} PROVE FALSE
  OBVIOUS
<1> DEFINE Bad == {y \in Nat : y \in Entry /\ Matched[y] # {y}}
<1>7. PICK y \in Bad : \A z \in Bad : ~(z < y)
  <2>1. w \in Bad
    BY <1>0, <1>6 DEF Entry
  <2> QED
    BY <2>1, LeastNat, Zenon
<1>8. \A z \in Entry : z < y => Matched[z] = {z}
  BY <1>0, <1>7 DEF Entry
<1> QED
  BY <1>5, <1>7, <1>8

\* What a directory is found to hold, unless a name is taken for a pattern.
LEMMA ListedIs ==
  ASSUME UsageTypeOK, TreeInv, Literal, NEW d \in Entry
  PROVE  /\ by_glob => Globbed(d) = Children(d)
         /\ OpenDir(d) = Children(d)
<1>1. ASSUME by_glob PROVE Globbed(d) = Children(d)
  <2>1. Matched[d] = {d}
    BY <1>1, MatchedIs
  <2> QED
    BY <2>1, Zenon DEF Globbed, Children
<1> QED
  BY <1>1 DEF OpenDir

\* Both listings are of entries that are there.
LEMMA FoundIs ==
  /\ \A d : Globbed(d) \subseteq present /\ OpenDir(d) \subseteq present
  /\ \A d : Children(d) = {e \in present : e # 1 /\ parent[e] = d}
BY Zenon DEF Globbed, Children, OpenDir

\* Facts that the steps use again and again.
LEMMA UsageKnown ==
  ASSUME UsageIInv
  PROVE  /\ N \in Nat \ {0} /\ 1 \in Entry /\ Entry \subseteq Nat /\ MaxFaults \in Nat
         /\ UsageTypeOK /\ TreeInv /\ SteadyInv /\ StackInv
         /\ path \in Entry /\ present \subseteq Entry /\ changed \subseteq Entry
         /\ faults \in Nat /\ counted \in [Entry -> Nat]
         /\ calls \in Seq(Frames) /\ Len(calls) \in Nat /\ DOMAIN calls = 1 .. Len(calls)
         /\ \A e \in Entry : e # 1 => parent[e] \in Entry /\ parent[e] < e /\ dir[parent[e]]
         /\ \A k \in DOMAIN calls : calls[k] \in Frames /\ calls[k].of \in Entry /\ calls[k].left \subseteq Entry
<1>1. N \in Nat \ {0} /\ MaxFaults \in Nat
  BY UsageAssumption
<1>2. 1 \in Entry /\ Entry \subseteq Nat
  BY <1>1 DEF Entry
<1>3. UsageTypeOK /\ TreeInv /\ SteadyInv /\ StackInv
  BY DEF UsageIInv
<1>4. calls \in Seq(Frames)
  BY <1>3 DEF UsageTypeOK, Frames
<1>5. Len(calls) \in Nat /\ DOMAIN calls = 1 .. Len(calls)
  BY <1>4
<1>6. ASSUME NEW k \in DOMAIN calls
      PROVE  calls[k] \in Frames /\ calls[k].of \in Entry /\ calls[k].left \subseteq Entry
  <2>1. calls[k] \in Frames
    BY <1>4
  <2> QED
    BY <2>1 DEF Frames
<1>7. \A e \in Entry : e # 1 => parent[e] \in Entry /\ parent[e] < e /\ dir[parent[e]]
  BY <1>1, <1>3 DEF TreeInv, Entry
<1>8. /\ path \in Entry /\ present \subseteq Entry /\ changed \subseteq Entry
      /\ faults \in Nat /\ counted \in [Entry -> Nat]
  BY <1>1, <1>3 DEF UsageTypeOK
<1> QED
  BY <1>1, <1>2, <1>3, <1>4, <1>5, <1>6, <1>7, <1>8, Zenon

\* The loops that are left when the innermost has ended.
LEMMA Start ==
  ASSUME NEW S, NEW s \in Seq(S), NEW b \in Nat, b <= Len(s)
  PROVE  /\ SubSeq(s, 1, b) \in Seq(S) /\ Len(SubSeq(s, 1, b)) = b
         /\ \A k \in 1 .. b : SubSeq(s, 1, b)[k] = s[k]
OBVIOUS

\* One element of a sequence is replaced.
LEMMA Replaced ==
  ASSUME NEW S, NEW s \in Seq(S), NEW i \in DOMAIN s, NEW e \in S
  PROVE  /\ [s EXCEPT ![i] = e] \in Seq(S) /\ DOMAIN [s EXCEPT ![i] = e] = DOMAIN s
         /\ [s EXCEPT ![i] = e][i] = e
         /\ \A k \in DOMAIN s : k # i => [s EXCEPT ![i] = e][k] = s[k]
OBVIOUS

\* What no step of the program changes.
LEMMA TreeKept ==
  ASSUME UNCHANGED <<parent, dir, name, by_glob>>
  PROVE  /\ TreeInv' = TreeInv
         /\ Literal' = Literal
BY DEF TreeInv, Literal, Entry

\* Entries that stay keep their directory as long as nobody changes the tree.
LEMMA SteadyKept ==
  ASSUME SteadyInv, UNCHANGED <<parent, present, changed>> PROVE SteadyInv'
BY DEF SteadyInv, Steady

\* The entry that was called is added; what is in it has not been listed yet.
LEMMA UsageLstat == ASSUME UsageIInv, Lstat PROVE UsageIInv'
<1>1. /\ pc = "lstat" /\ path \in present
      /\ counted' = [counted EXCEPT ![path] = @ + 1]
      /\ pc' = IF dir[path] THEN "list" ELSE IF calls = <<>> THEN "done" ELSE "next"
      /\ UNCHANGED <<parent, dir, name, by_glob, present, path, calls, changed, faults>>
  BY Zenon DEF Lstat, tree, Returns
<1>2. TreeInv' /\ SteadyInv' /\ Literal' = Literal
  BY <1>1, UsageKnown, TreeKept, SteadyKept, Zenon
<1>3. UsageTypeOK'
  <2>1. counted' \in [Entry -> Nat]
    BY <1>1, UsageKnown
  <2>2. pc' \in {"lstat", "list", "next", "done", "failed"}
    BY <1>1
  <2> QED
    BY <1>1, <2>1, <2>2, UsageKnown, Zenon DEF UsageTypeOK, Entry
<1>4. StackInv'
  <2>1. counted'[path] > 0
    BY <1>1, UsageKnown
  <2> QED
    BY <1>1, <2>1, Zenon DEF StackInv
<1>5. ASSUME Literal PROVE WalkInv'
  <2>1. WalkInv
    BY <1>5, Zenon DEF UsageIInv
  <2>2. LoopsInv'
    BY <1>1, <2>1, Zenon DEF WalkInv, LoopsInv
  <2>3. \A e : InLoop(e)' = InLoop(e) /\ ~Called(e)'
    BY <1>1, Zenon DEF InLoop, Called
  <2>4. /\ counted'[path] = counted[path] + 1
        /\ \A e \in Entry : e # path => counted'[e] = counted[e]
    BY <1>1, UsageKnown, Zenon
  <2>5. Called(path) /\ \A e : Called(e) => e = path
    BY <1>1 DEF Called
  <2>6. ASSUME NEW e \in Entry \ changed PROVE Once(e)'
    <3>0. Once(e) /\ e \in Entry
      BY <2>1, Zenon DEF WalkInv
    <3>1. CASE e = path
      <4>1. counted[e] = 0 /\ ~InLoop(e) /\ ~(e \in present /\ Unlisted(e))
        BY <2>5, <3>0, <3>1, Zenon DEF Once
      <4>2. ~Unlisted(e)'
        <5>1. ASSUME e # 1 PROVE parent[e] \in Entry /\ parent[e] # path
          BY <3>0, <3>1, <5>1, UsageKnown
        <5> QED
          BY <1>1, <2>4, <3>1, <4>1, <5>1, Zenon DEF Unlisted
      <4>3. counted'[e] = 1 /\ e \in present'
        BY <1>1, <2>4, <3>1, <4>1
      <4> QED
        BY <2>3, <4>1, <4>2, <4>3 DEF Once
    <3>2. CASE e # path
      <4>1. counted'[e] = counted[e]
        BY <2>4, <3>0, <3>2, Zenon
      <4>2. ASSUME e \in present, Unlisted(e)' PROVE Unlisted(e)
        <5>1. e # 1 /\ parent[e] \in Entry /\ parent[e] \in Entry \ changed
          BY <3>0, <4>2, UsageKnown, Zenon DEF Unlisted, SteadyInv, Steady
        <5>2. CASE parent[e] = path
          <6>1. Once(path)
            BY <2>1, <5>1, <5>2, Zenon DEF WalkInv
          <6>2. counted[path] = 0
            BY <2>5, <6>1, Zenon DEF Once
          <6> QED
            BY <5>1, <5>2, <6>2, Zenon DEF Unlisted
        <5>3. CASE parent[e] # path
          BY <1>1, <2>4, <4>2, <5>1, <5>3, Zenon DEF Unlisted
        <5> QED
          BY <5>2, <5>3, Zenon
      <4> QED
        BY <1>1, <2>3, <3>0, <4>1, <4>2, Zenon DEF Once
    <3> QED
      BY <3>1, <3>2, Zenon
  <2>7. ASSUME faults' = 0, pc' # "failed", NEW e \in Steady' PROVE ToCome(e)'
    <3>0. e \in Steady /\ e \in Entry \ changed /\ faults = 0 /\ pc # "failed"
      BY <1>1, <2>7, UsageKnown, Zenon DEF Steady
    <3>1. ToCome(e) /\ Once(e)
      BY <2>1, <3>0, Zenon DEF WalkInv
    <3>2. CASE e = path
      <4>1. counted[e] = 0
        BY <2>5, <3>1, <3>2, Zenon DEF Once
      <4> QED
        BY <2>4, <3>2, <4>1 DEF ToCome
    <3>3. CASE e # path
      <4>1. counted'[e] = counted[e] /\ ~Called(e)
        BY <2>4, <2>5, <3>0, <3>3, Zenon
      <4>2. ASSUME Unlisted(e) PROVE Unlisted(e)'
        <5>1. e # 1 /\ counted[parent[e]] = 0
          BY <1>1, <4>2, Zenon DEF Unlisted
        <5>2. parent[e] \in Entry /\ dir[parent[e]]
          BY <3>0, <5>1, UsageKnown, Zenon
        <5> QED
          BY <1>1, <2>4, <5>1, <5>2, Zenon DEF Unlisted
      <4> QED
        BY <2>3, <3>1, <4>1, <4>2, Zenon DEF ToCome
    <3> QED
      BY <3>2, <3>3, Zenon
  <2>8. Entry' = Entry /\ changed' = changed
    BY <1>1, Zenon DEF Entry
  <2> QED
    BY <2>2, <2>6, <2>7, <2>8, Zenon DEF WalkInv
<1> QED
  BY <1>2, <1>3, <1>4, <1>5, Zenon DEF UsageIInv

\* A new loop over what has been found in path.
LEMMA UsagePush ==
  ASSUME UsageIInv, NEW L,
         pc = "list", pc' = "next", calls' = Append(calls, [of |-> path, left |-> L]),
         L \subseteq present, Literal => L \subseteq Children(path),
         Literal /\ faults' = 0 => L = Children(path),
         faults' \in 0 .. MaxFaults, faults' = 0 => faults = 0,
         UNCHANGED <<parent, dir, name, by_glob, present, path, counted, changed>>
  PROVE  UsageIInv'
<1> DEFINE f == [of |-> path, left |-> L]
           n == Len(calls)
<1>1. TreeInv' /\ SteadyInv' /\ Literal' = Literal
  BY UsageKnown, TreeKept, SteadyKept, Zenon
<1>2. f \in Frames
  BY UsageKnown, Zenon DEF Frames
<1>3. calls \in Seq(Frames) /\ n \in Nat
  BY UsageKnown, Zenon
<1>4. calls' = Append(calls, f)
  OBVIOUS
<1> HIDE DEF f, n
<1>5. /\ calls' \in Seq(Frames)
      /\ DOMAIN calls' = 1 .. n + 1 /\ DOMAIN calls = 1 .. n
      /\ \A k \in 1 .. n : calls'[k] = calls[k]
      /\ calls'[n + 1] = f
  BY <1>2, <1>3, <1>4 DEF n
<1>6. UsageTypeOK'
  BY <1>5, UsageKnown, Zenon DEF UsageTypeOK, Entry, Frames
<1>7. StackInv'
  BY <1>3, <1>5 DEF StackInv
<1>8. ASSUME Literal PROVE WalkInv'
  <2>1. WalkInv /\ LoopsInv
    BY <1>8, Zenon DEF UsageIInv, WalkInv
  <2>2. \A x \in L : x \in present /\ x # 1 /\ parent[x] = path
    BY <1>8, FoundIs, Zenon
  <2>3. f.of = path /\ f.left = L
    BY Zenon DEF f
  <2>4. LoopsInv'
    <3>1. ASSUME NEW k \in DOMAIN calls', NEW x \in calls'[k].left PROVE x # 1 /\ parent'[x] = calls'[k].of
      BY <1>3, <1>5, <2>1, <2>2, <2>3, <3>1 DEF LoopsInv
    <3>2. ASSUME NEW j \in DOMAIN calls', NEW k \in DOMAIN calls', j < k PROVE calls'[j].of < calls'[k].of
      <4>1. j \in 1 .. n
        BY <1>3, <1>5, <3>2
      <4>2. CASE k = n + 1
        BY <1>5, <2>1, <2>3, <4>1, <4>2 DEF LoopsInv
      <4>3. CASE k # n + 1
        BY <1>3, <1>5, <2>1, <3>2, <4>1, <4>3 DEF LoopsInv
      <4> QED
        BY <4>2, <4>3, Zenon
    <3> QED
      BY <3>1, <3>2, Zenon DEF LoopsInv
  <2>5. \A e : /\ InLoop(e)' <=> InLoop(e) \/ e \in L
               /\ ~Called(e) /\ ~Called(e)'
    <3> TAKE e
    <3>1. InLoop(e)' => InLoop(e) \/ e \in L
      BY <1>3, <1>5, <2>3 DEF InLoop
    <3>2. InLoop(e) => InLoop(e)'
      BY <1>3, <1>5 DEF InLoop
    <3>3. e \in L => InLoop(e)'
      BY <1>3, <1>5, <2>3 DEF InLoop
    <3> QED
      BY <3>1, <3>2, <3>3, Zenon DEF Called
  <2>6. counted[path] > 0 /\ counted[path] # 0
    BY UsageKnown DEF StackInv
  <2>7. ASSUME NEW e \in Entry \ changed PROVE Once(e)'
    <3>1. Once(e)
      BY <2>1, Zenon DEF WalkInv
    <3>2. e \in L => e \in present /\ Unlisted(e)
      BY <2>2, Zenon DEF Unlisted
    <3>3. Unlisted(e)' => Unlisted(e) /\ e \notin L
      BY <2>2, <2>6, Zenon DEF Unlisted
    <3> QED
      BY <2>5, <3>1, <3>2, <3>3, Zenon DEF Once
  <2>8. ASSUME faults' = 0, pc' # "failed", NEW e \in Steady' PROVE ToCome(e)'
    <3>1. ToCome(e) /\ e \in present
      BY <2>1, <2>8, Zenon DEF WalkInv, Steady
    <3>2. Unlisted(e) => Unlisted(e)' \/ e \in L
      BY <1>8, <2>8, <3>1, FoundIs, Zenon DEF Unlisted
    <3> QED
      BY <2>5, <3>1, <3>2, Zenon DEF ToCome
  <2>9. Entry' = Entry
    BY DEF Entry
  <2> QED
    BY <2>4, <2>7, <2>8, <2>9, Zenon DEF WalkInv
<1> QED
  BY <1>1, <1>6, <1>7, <1>8, Zenon DEF UsageIInv

\* The listing of a directory becomes the loop over it, also if glob() failed.
LEMMA UsageList == ASSUME UsageIInv, List \/ GlobBlind PROVE UsageIInv'
<1>1. CASE List
  <2> DEFINE L == IF by_glob THEN Globbed(path) ELSE OpenDir(path)
  <2>1. L \subseteq present /\ (Literal => L = Children(path))
    BY UsageKnown, FoundIs, ListedIs, Zenon
  <2>2. /\ pc = "list" /\ pc' = "next" /\ calls' = Append(calls, [of |-> path, left |-> L])
        /\ UNCHANGED <<parent, dir, name, by_glob, present, path, counted, changed>>
        /\ faults' = faults
    BY <1>1, Zenon DEF List, tree
  <2>3. faults' \in 0 .. MaxFaults
    BY <2>2, UsageKnown, Zenon DEF UsageTypeOK
  <2> HIDE DEF L
  <2> QED
    BY <2>1, <2>2, <2>3, UsagePush, Zenon
<1>2. CASE GlobBlind
  <2>1. /\ pc = "list" /\ pc' = "next" /\ calls' = Append(calls, [of |-> path, left |-> {}])
        /\ UNCHANGED <<parent, dir, name, by_glob, present, path, counted, changed>>
        /\ faults' = faults + 1 /\ faults < MaxFaults
    BY <1>2, Zenon DEF GlobBlind, tree
  <2>2. faults' \in 0 .. MaxFaults /\ faults' # 0
    BY <2>1, UsageKnown, SMTT(30)
  <2> QED
    BY <2>1, <2>2, UsagePush
<1> QED
  BY <1>1, <1>2, Zenon

\* The innermost loop is at its end.
LEMMA UsagePop ==
  ASSUME UsageIInv,
         pc = "next", calls[Len(calls)].left = {}, calls' = SubSeq(calls, 1, Len(calls) - 1),
         pc' = IF Len(calls) = 1 THEN "done" ELSE "next",
         UNCHANGED <<parent, dir, name, by_glob, present, path, counted, changed, faults>>
  PROVE  UsageIInv'
<1> DEFINE n == Len(calls)
<1>1. TreeInv' /\ SteadyInv' /\ Literal' = Literal
  BY UsageKnown, TreeKept, SteadyKept, Zenon
<1>2. calls \in Seq(Frames) /\ n \in Nat /\ n # 0
  <2>1. calls # <<>> /\ calls \in Seq(Frames)
    BY UsageKnown, Zenon DEF StackInv
  <2> QED
    BY <2>1
<1>3. calls' = SubSeq(calls, 1, n - 1) /\ calls[n].left = {}
  OBVIOUS
<1>4. pc' = IF n = 1 THEN "done" ELSE "next"
  OBVIOUS
<1>5. DOMAIN calls = 1 .. n
  BY <1>2
<1> HIDE DEF n
<1>6. /\ calls' \in Seq(Frames) /\ Len(calls') = n - 1
      /\ DOMAIN calls' = 1 .. n - 1
      /\ \A k \in 1 .. n - 1 : calls'[k] = calls[k]
  <2>1. n - 1 \in Nat /\ n - 1 <= Len(calls)
    BY <1>2 DEF n
  <2>2. /\ SubSeq(calls, 1, n - 1) \in Seq(Frames) /\ Len(SubSeq(calls, 1, n - 1)) = n - 1
        /\ \A k \in 1 .. n - 1 : SubSeq(calls, 1, n - 1)[k] = calls[k]
    BY <1>2, <2>1, Start, Zenon
  <2>3. /\ calls' \in Seq(Frames) /\ Len(calls') = n - 1
        /\ \A k \in 1 .. n - 1 : calls'[k] = calls[k]
    BY <1>3, <2>2, Zenon
  <2>4. DOMAIN calls' = 1 .. n - 1
    BY <2>3
  <2> QED
    BY <2>3, <2>4, Zenon
<1>7. UsageTypeOK'
  BY <1>4, <1>6, UsageKnown, Zenon DEF UsageTypeOK, Entry, Frames
<1>8. StackInv'
  <2>1. n = 1 => calls' = <<>>
    BY <1>6
  <2>2. n # 1 => calls' # <<>>
    <3>1. ASSUME calls' = <<>> PROVE n - 1 = 0
      BY <1>6, <3>1, Zenon
    <3> QED
      BY <1>2, <3>1
  <2> QED
    BY <1>4, <2>1, <2>2, Zenon DEF StackInv
<1>9. ASSUME Literal PROVE WalkInv'
  <2>1. WalkInv /\ LoopsInv
    BY <1>9, Zenon DEF UsageIInv, WalkInv
  <2>2. pc' \notin {"lstat", "list"}
    BY <1>4, Zenon
  <2>3. \A k \in 1 .. n - 1 : k \in 1 .. n
    BY <1>2
  <2>4. LoopsInv'
    BY <1>5, <1>6, <2>1, <2>2, <2>3, SMTT(30) DEF LoopsInv
  <2>5. \A e : /\ InLoop(e)' <=> InLoop(e)
               /\ ~Called(e) /\ ~Called(e)'
               /\ Unlisted(e)' <=> Unlisted(e)
    <3> TAKE e
    <3>1. InLoop(e)' => InLoop(e)
      BY <1>5, <1>6, <2>3, Zenon DEF InLoop
    <3>2. InLoop(e) => InLoop(e)'
      <4>1. ASSUME NEW k \in 1 .. n, e \in calls[k].left PROVE k \in 1 .. n - 1
        BY <1>2, <1>3, <4>1, SMTT(30)
      <4> QED
        BY <1>5, <1>6, <4>1, Zenon DEF InLoop
    <3> QED
      BY <2>2, <3>1, <3>2, Zenon DEF Called, Unlisted
  <2>6. ASSUME NEW e \in Entry \ changed PROVE Once(e)'
    BY <2>1, <2>5, Zenon DEF WalkInv, Once
  <2>7. ASSUME faults' = 0, NEW e \in Steady' PROVE ToCome(e)'
    <3>1. ToCome(e)
      BY <2>1, <2>7, Zenon DEF WalkInv, Steady
    <3> QED
      BY <2>5, <3>1, Zenon DEF ToCome
  <2>8. Entry' = Entry
    BY Zenon DEF Entry
  <2> QED
    BY <2>4, <2>6, <2>7, <2>8, Zenon DEF WalkInv
<1> QED
  BY <1>1, <1>7, <1>8, <1>9, Zenon DEF UsageIInv

\* The innermost loop goes on to x.
LEMMA UsageTake ==
  ASSUME UsageIInv,
         pc = "next", pc' = "lstat", NEW x \in calls[Len(calls)].left, path' = x,
         calls' = [calls EXCEPT ![Len(calls)].left = @ \ {x}],
         UNCHANGED <<parent, dir, name, by_glob, present, counted, changed, faults>>
  PROVE  UsageIInv'
<1> DEFINE n == Len(calls)
<1>1. TreeInv' /\ SteadyInv' /\ Literal' = Literal
  BY UsageKnown, TreeKept, SteadyKept, Zenon
<1>2. calls \in Seq(Frames) /\ n \in Nat /\ n # 0 /\ DOMAIN calls = 1 .. n
  <2>1. calls # <<>> /\ calls \in Seq(Frames)
    BY UsageKnown, Zenon DEF StackInv
  <2> QED
    BY <2>1
<1>3. calls' = [calls EXCEPT ![n] = [calls[n] EXCEPT !.left = calls[n].left \ {x}]]
  OBVIOUS
<1>4. x \in calls[n].left
  OBVIOUS
<1> HIDE DEF n
<1>5. n \in DOMAIN calls /\ calls[n] \in Frames /\ x \in Entry
  BY <1>2, <1>4, UsageKnown
<1> DEFINE f == [calls[n] EXCEPT !.left = calls[n].left \ {x}]
<1>6. f \in Frames /\ f.of = calls[n].of /\ f.left = calls[n].left \ {x}
  BY <1>5, Zenon DEF Frames
<1>7. calls' = [calls EXCEPT ![n] = f]
  BY <1>3, Zenon
<1> HIDE DEF f
<1>8. /\ calls' \in Seq(Frames) /\ DOMAIN calls' = 1 .. n
      /\ calls'[n] = f /\ \A k \in 1 .. n : k # n => calls'[k] = calls[k]
  <2> DEFINE c == [calls EXCEPT ![n] = f]
  <2>1. /\ c \in Seq(Frames) /\ DOMAIN c = DOMAIN calls
        /\ c[n] = f /\ \A k \in DOMAIN calls : k # n => c[k] = calls[k]
    BY <1>2, <1>5, <1>6, Replaced
  <2>2. calls' = c
    BY <1>7, Zenon
  <2> HIDE DEF c
  <2> QED
    BY <1>2, <2>1, <2>2, Zenon
<1>9. UsageTypeOK'
  BY <1>5, <1>8, UsageKnown, Zenon DEF UsageTypeOK, Entry, Frames
<1>10. StackInv'
  BY Zenon DEF StackInv
<1>11. ASSUME Literal PROVE WalkInv'
  <2>1. WalkInv /\ LoopsInv
    BY <1>11, Zenon DEF UsageIInv, WalkInv
  <2>2. \A k \in 1 .. n : calls'[k].of = calls[k].of /\ calls'[k].left \subseteq calls[k].left
    BY <1>6, <1>8, Zenon
  <2>3. x # 1 /\ parent[x] = calls[n].of /\ parent[x] < x /\ parent[x] \in Entry
    BY <1>4, <1>5, <2>1, UsageKnown, Zenon DEF LoopsInv
  <2>4. \A k \in 1 .. n : calls[k].of <= calls[n].of
    <3> TAKE k \in 1 .. n
    <3>1. calls[k].of \in Nat
      BY <1>2, UsageKnown, Zenon
    <3>2. k # n => calls[k].of < calls[n].of
      BY <1>2, <2>1 DEF LoopsInv
    <3>3. calls[n].of <= calls[n].of
      BY <1>2, UsageKnown
    <3>4. CASE k = n
      BY <3>3, <3>4
    <3>5. CASE k # n
      <4>1. calls[n].of \in Nat
        BY <1>2, UsageKnown
      <4> QED
        BY <3>1, <3>2, <3>5, <4>1
    <3> QED
      BY <3>4, <3>5, Zenon
  <2>5. \A k \in 1 .. n : calls[k].of < x
    <3> TAKE k \in 1 .. n
    <3>1. calls[k].of \in Nat /\ calls[n].of \in Nat /\ x \in Nat
      BY <1>2, <1>5, UsageKnown, Zenon
    <3>2. calls[k].of <= calls[n].of
      BY <2>4
    <3>3. calls[n].of < x
      BY <2>3, Zenon
    <3> QED
      BY <3>1, <3>2, <3>3
  <2>6. LoopsInv'
    BY <1>2, <1>8, <2>1, <2>2, <2>5 DEF LoopsInv
  <2>7. \A k \in 1 .. n : k # n => x \notin calls[k].left
    <3> TAKE k \in 1 .. n
    <3>1. k # n => calls[k].of # calls[n].of
      <4>1. calls[k].of \in Nat
        BY <1>2, UsageKnown
      <4>2. k # n => calls[k].of < calls[n].of
        BY <1>2, <2>1 DEF LoopsInv
      <4> QED
        BY <4>1, <4>2
    <3> QED
      BY <1>2, <2>1, <2>3, <3>1, Zenon DEF LoopsInv
  <2>8. /\ InLoop(x) /\ ~InLoop(x)' /\ Called(x)'
        /\ \A e : e # x => (InLoop(e)' <=> InLoop(e)) /\ ~Called(e)'
        /\ \A e : ~Called(e) /\ (Unlisted(e)' <=> Unlisted(e))
    <3>1. InLoop(x)
      BY <1>4, <1>5, Zenon DEF InLoop
    <3>2. ~InLoop(x)'
      BY <1>2, <1>6, <1>8, <2>7, Zenon DEF InLoop
    <3>3. ASSUME NEW e, e # x PROVE InLoop(e)' <=> InLoop(e)
      BY <1>2, <1>6, <1>8, <3>3, Zenon DEF InLoop
    <3>4. Called(x)' /\ (\A e : e # x => ~Called(e)') /\ \A e : ~Called(e)
      BY DEF Called
    <3>5. \A e : Unlisted(e)' <=> Unlisted(e)
      BY DEF Unlisted
    <3> QED
      BY <3>1, <3>2, <3>3, <3>4, <3>5, Zenon
  <2>9. ASSUME NEW e \in Entry \ changed PROVE Once(e)'
    BY <2>1, <2>8, Zenon DEF WalkInv, Once
  <2>10. ASSUME faults' = 0, NEW e \in Steady' PROVE ToCome(e)'
    <3>1. ToCome(e)
      BY <2>1, <2>10, Zenon DEF WalkInv, Steady
    <3> QED
      BY <2>8, <3>1 DEF ToCome
  <2>11. Entry' = Entry
    BY DEF Entry
  <2> QED
    BY <2>6, <2>9, <2>10, <2>11, Zenon DEF WalkInv
<1> QED
  BY <1>1, <1>9, <1>10, <1>11, Zenon DEF UsageIInv

\* The innermost loop ends or calls its next entry.
LEMMA UsageNextEntry == ASSUME UsageIInv, NextEntry PROVE UsageIInv'
<1>1. pc = "next" /\ UNCHANGED <<parent, dir, name, by_glob, present, counted, changed, faults>>
  BY Zenon DEF NextEntry, tree
<1>2. CASE calls[Len(calls)].left = {}
  <2>1. /\ calls' = SubSeq(calls, 1, Len(calls) - 1)
        /\ pc' = IF Len(calls) = 1 THEN "done" ELSE "next"
        /\ path' = path
    BY <1>2 DEF NextEntry
  <2> QED
    BY <1>1, <1>2, <2>1, UsagePop, Zenon
<1>3. CASE calls[Len(calls)].left # {}
  <2>1. PICK x \in calls[Len(calls)].left :
          path' = x /\ pc' = "lstat" /\ calls' = [calls EXCEPT ![Len(calls)].left = @ \ {x}]
    BY <1>3, Zenon DEF NextEntry
  <2> QED
    BY <1>1, <2>1, UsageTake, Zenon
<1> QED
  BY <1>2, <1>3, Zenon

\* A call that fails ends the program, with nothing added.
LEMMA UsageFails == ASSUME UsageIInv, Fails PROVE UsageIInv'
<1>1. /\ pc' = "failed"
      /\ UNCHANGED <<parent, dir, name, by_glob, present, path, calls, counted, changed>>
      /\ faults' = faults \/ (faults < MaxFaults /\ faults' = faults + 1)
  BY Zenon DEF Fails, tree
<1>2. TreeInv' /\ SteadyInv' /\ Literal' = Literal
  BY <1>1, UsageKnown, TreeKept, SteadyKept, Zenon
<1>3. faults' \in 0 .. MaxFaults
  BY <1>1, UsageKnown DEF UsageTypeOK
<1>4. UsageTypeOK'
  BY <1>1, <1>3, UsageKnown, Zenon DEF UsageTypeOK, Entry
<1>5. StackInv'
  BY <1>1, Zenon DEF StackInv
<1>6. ASSUME Literal PROVE WalkInv'
  <2>1. WalkInv
    BY <1>6 DEF UsageIInv
  <2>2. LoopsInv'
    BY <1>1, <2>1, Zenon DEF WalkInv, LoopsInv
  <2>3. \A e : (InLoop(e)' <=> InLoop(e)) /\ ~Called(e)' /\ (Unlisted(e)' => Unlisted(e))
    BY <1>1, Zenon DEF InLoop, Called, Unlisted
  <2>4. ASSUME NEW e \in Entry \ changed PROVE Once(e)'
    BY <1>1, <2>1, <2>3, Zenon DEF WalkInv, Once
  <2>5. Entry' = Entry
    BY DEF Entry
  <2> QED
    BY <1>1, <2>2, <2>4, <2>5, Zenon DEF WalkInv
<1> QED
  BY <1>2, <1>4, <1>5, <1>6 DEF UsageIInv

\* An entry that another process creates or removes is not one that stays.
LEMMA UsageChange ==
  ASSUME UsageIInv, NEW x \in Entry, Change(x) PROVE UsageIInv'
<1>1. /\ x # 1 /\ x \notin changed /\ changed' = changed \cup {x}
      /\ UNCHANGED <<parent, dir, name, by_glob, pc, path, counted, faults>>
      /\ pc # "done" /\ pc # "failed"
  BY DEF Change, tree
<1>2. \/ x \in present /\ Children(x) = {} /\ present' = present \ {x}
      \/ x \notin present /\ parent[x] \in present /\ present' = present \cup {x}
  BY Zenon DEF Change
<1>3. TreeInv' /\ Literal' = Literal
  BY <1>1, UsageKnown, TreeKept, Zenon
<1>4. /\ parent[x] \in Entry /\ parent[x] # x /\ \A e \in present : e # 1 /\ parent[e] = x => e \in Children(x)
  BY <1>1, UsageKnown, FoundIs, SMTT(30)
<1>5. SteadyInv'
  <2>1. SteadyInv
    BY UsageKnown, Zenon
  <2>2. CASE x \in present
    <3>1. present' = present \ {x} /\ \A e \in present : e # 1 => parent[e] # x
      BY <1>2, <1>4, <2>2, Zenon
    <3> QED
      BY <1>1, <2>1, <3>1, Zenon DEF SteadyInv, Steady
  <2>3. CASE x \notin present
    <3>1. present' = present \cup {x} /\ parent[x] \in present
      BY <1>2, <2>3, Zenon
    <3> QED
      BY <1>1, <2>1, <2>3, <3>1, Zenon DEF SteadyInv, Steady
  <2> QED
    BY <2>2, <2>3, Zenon
<1>6. /\ calls' \in Seq(Frames) /\ Len(calls') = Len(calls) /\ DOMAIN calls' = DOMAIN calls
      /\ \A k \in DOMAIN calls :
           /\ calls'[k].of = calls[k].of
           /\ \A e : e # x => (e \in calls'[k].left <=> e \in calls[k].left)
           /\ x \in calls'[k].left => x \in calls[k].left \/ calls[k].of = parent[x]
  <2>1. CASE UNCHANGED calls
    BY <2>1, UsageKnown, Zenon
  <2>2. CASE ~UNCHANGED calls
    <3> DEFINE l(k) == IF x \in present THEN calls[k].left \ {x} ELSE calls[k].left \cup {x}
               g(k) == IF calls[k].of # parent[x] THEN calls[k] ELSE [calls[k] EXCEPT !.left = l(k)]
    <3>1. calls' = [k \in DOMAIN calls |-> g(k)]
      BY <2>2, Zenon DEF Change
    <3>2. ASSUME NEW k \in DOMAIN calls
          PROVE  /\ g(k) \in Frames /\ g(k).of = calls[k].of
                 /\ g(k).left = calls[k].left \/ (g(k).left = l(k) /\ calls[k].of = parent[x])
      <4>1. calls[k] \in Frames /\ l(k) \subseteq Entry
        BY UsageKnown, Zenon
      <4> HIDE DEF l
      <4> QED
        BY <4>1, Zenon DEF Frames
    <3>3. ASSUME NEW k \in DOMAIN calls
          PROVE  /\ \A e : e # x => (e \in g(k).left <=> e \in calls[k].left)
                 /\ x \in g(k).left => x \in calls[k].left \/ calls[k].of = parent[x]
      <4> HIDE DEF g
      <4> QED
        BY <3>2, Zenon
    <3> HIDE DEF g
    <3>4. calls' \in Seq(Frames) /\ Len(calls') = Len(calls) /\ DOMAIN calls' = DOMAIN calls
      <4>1. Len(calls) \in Nat /\ DOMAIN calls = 1 .. Len(calls)
        BY UsageKnown
      <4>2. calls' \in [1 .. Len(calls) -> Frames]
        BY <3>1, <3>2, <4>1, Zenon
      <4> QED
        BY <4>1, <4>2
    <3> QED
      BY <3>1, <3>2, <3>3, <3>4, Zenon
  <2> QED
    BY <2>1, <2>2, Zenon
<1>7. UsageTypeOK'
  BY <1>1, <1>2, <1>6, UsageKnown, Zenon DEF UsageTypeOK, Entry, Frames
<1>8. StackInv'
  <2>1. calls # <<>> => calls' # <<>>
    <3>1. ASSUME calls' = <<>> PROVE Len(calls) = 0
      BY <1>6, <3>1, Zenon
    <3> QED
      BY <3>1, UsageKnown
  <2> QED
    BY <1>1, <2>1, UsageKnown, Zenon DEF StackInv
<1>9. ASSUME Literal PROVE WalkInv'
  <2>1. WalkInv /\ LoopsInv
    BY <1>9, Zenon DEF UsageIInv, WalkInv
  <2>2. LoopsInv'
    <3>1. ASSUME NEW k \in DOMAIN calls, NEW e \in calls'[k].left PROVE e # 1 /\ parent[e] = calls[k].of
      BY <1>1, <1>6, <2>1, <3>1, Zenon DEF LoopsInv
    <3> QED
      BY <1>1, <1>6, <2>1, <3>1, Zenon DEF LoopsInv
  <2>3. \A e : e # x => /\ InLoop(e)' <=> InLoop(e)
                        /\ Called(e)' <=> Called(e)
                        /\ Unlisted(e)' <=> Unlisted(e)
                        /\ e \in present' <=> e \in present
    <3> TAKE e
    <3>1. e # x => (InLoop(e)' <=> InLoop(e))
      BY <1>6, Zenon DEF InLoop
    <3>2. (Called(e)' <=> Called(e)) /\ (Unlisted(e)' <=> Unlisted(e))
      BY <1>1, Zenon DEF Called, Unlisted
    <3> QED
      BY <1>2, <3>1, <3>2, Zenon
  <2>4. ASSUME NEW e \in Entry \ changed' PROVE Once(e)'
    <3>1. e # x /\ Once(e)
      BY <1>1, <2>1, Zenon DEF WalkInv
    <3> QED
      BY <1>1, <2>3, <3>1, Zenon DEF Once
  <2>5. ASSUME faults' = 0, NEW e \in Steady' PROVE ToCome(e)'
    <3>1. e # x /\ e \in Steady
      BY <1>1, <1>2, Zenon DEF Steady
    <3>2. ToCome(e)
      BY <1>1, <2>1, <2>5, <3>1, Zenon DEF WalkInv
    <3> QED
      BY <1>1, <2>3, <3>1, <3>2, Zenon DEF ToCome
  <2>6. Entry' = Entry
    BY Zenon DEF Entry
  <2> QED
    BY <2>2, <2>4, <2>5, <2>6, Zenon DEF WalkInv
<1> QED
  BY <1>3, <1>5, <1>7, <1>8, <1>9, Zenon DEF UsageIInv

\* Every step of du.c and of the others keeps the invariant.
LEMMA UsageStepInv == UsageIInv /\ [UsageNext]_usageVars => UsageIInv'
<1> SUFFICES ASSUME UsageIInv, [UsageNext]_usageVars PROVE UsageIInv'
  OBVIOUS
<1>1. CASE UsageNext
  BY <1>1, UsageLstat, UsageList, UsageNextEntry, UsageFails, UsageChange, Zenon DEF UsageNext, Proceed
<1>2. CASE UNCHANGED usageVars
  <2>1. UNCHANGED <<parent, dir, name, by_glob, present, pc, path, calls, counted, changed, faults>>
    BY <1>2, Zenon DEF usageVars, tree
  <2>2. TreeInv' /\ SteadyInv' /\ Literal' = Literal
    BY <2>1, UsageKnown, TreeKept, SteadyKept, Zenon
  <2>3. UsageTypeOK' /\ StackInv'
    BY <2>1, UsageKnown, Zenon DEF UsageTypeOK, Entry, StackInv
  <2>4. ASSUME Literal PROVE WalkInv'
    <3>1. WalkInv
      BY <2>4, Zenon DEF UsageIInv
    <3>2. \A e : (Once(e)' <=> Once(e)) /\ (ToCome(e)' <=> ToCome(e))
      BY <2>1, SMTT(30) DEF Once, ToCome, InLoop, Called, Unlisted
    <3>3. LoopsInv'
      BY <2>1, <3>1, Zenon DEF WalkInv, LoopsInv
    <3> QED
      BY <2>1, <3>1, <3>2, <3>3, Zenon DEF WalkInv, Steady, Entry
  <2> QED
    BY <2>2, <2>3, <2>4, Zenon DEF UsageIInv
<1> QED
  BY <1>1, <1>2, Zenon

\* The invariant holds in all reachable states.
LEMMA UsageInvariance == UsageSpec => []UsageIInv
<1>1. UsageInit => UsageIInv
  BY UsageInitInv
<1>2. UsageIInv /\ [UsageNext]_usageVars => UsageIInv'
  BY UsageStepInv
<1> QED
  BY <1>1, <1>2, PTL DEF UsageSpec

\* At the end nothing is to come any more: the lowest entry that is there all the
\* time and has not been added would lie in a directory that has not been either.
LEMMA AllAdded ==
  ASSUME UsageIInv, Literal, pc = "done", faults = 0
  PROVE  \A e \in Steady : counted[e] = 1
<1> SUFFICES ASSUME NEW w \in Steady, counted[w] # 1 PROVE FALSE
  BY Zenon
<1>1. WalkInv /\ calls = <<>>
  BY UsageKnown, Zenon DEF UsageIInv, StackInv
<1>2. \A e \in Steady : e \in Entry /\ e \in Nat
  BY UsageKnown, Zenon DEF Steady
<1>3. \A e \in Steady : counted[e] = 1 \/ (e # 1 /\ counted[parent[e]] = 0)
  <2> TAKE e \in Steady
  <2>1. ToCome(e)
    BY <1>1, Zenon DEF WalkInv
  <2>2. ~InLoop(e) /\ ~Called(e)
    BY <1>1 DEF InLoop, Called
  <2> QED
    BY <2>1, <2>2, Zenon DEF ToCome, Unlisted
<1> DEFINE Left == {e \in Steady : counted[e] # 1}
<1>4. PICK e \in Left : \A z \in Left : ~(z < e)
  <2>1. Left \subseteq Nat /\ Left # {}
    BY <1>2, Zenon
  <2> QED
    BY <2>1, LeastNat, Zenon
<1>5. e # 1 /\ counted[parent[e]] = 0
  BY <1>3, <1>4, Zenon
<1>6. parent[e] \in Steady /\ parent[e] < e
  BY <1>2, <1>4, <1>5, UsageKnown, Zenon DEF SteadyInv
<1> QED
  BY <1>4, <1>5, <1>6

\* du adds every entry that is there all the time exactly once, in a tree of any
\* size and depth and whatever other processes create and remove meanwhile, with
\* readdir() and, as long as no name is a pattern, with glob().
THEOREM CountsOnceHolds ==
  UsageSpec => []CountsOnce
<1>1. ASSUME UsageIInv PROVE CountsOnce
  <2>1. UsageTypeOK
    BY <1>1, UsageKnown, Zenon
  <2>2. ASSUME Literal, NEW e \in Entry \ changed
        PROVE  /\ counted[e] <= 1
               /\ pc = "done" /\ faults = 0 => (counted[e] = 1 <=> e \in present)
    <3>1. Once(e)
      BY <1>1, <2>2, Zenon DEF UsageIInv, WalkInv
    <3>2. pc = "done" /\ faults = 0 /\ e \in present => counted[e] = 1
      BY <1>1, <2>2, AllAdded, Zenon DEF Steady
    <3> QED
      BY <3>1, <3>2 DEF Once
  <2> QED
    BY <2>1, <2>2, Zenon DEF CountsOnce
<1>2. UsageIInv => CountsOnce
  BY <1>1
<1> QED
  BY <1>2, UsageInvariance, PTL
=============================================================================
