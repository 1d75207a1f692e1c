------------------------------ MODULE FileCopy ------------------------------
(***************************************************************************)
(* The programs that copy a file: fileio/mycpy.c ("read"), stdio/mycpy.c   *)
(* ("fgetc"), stdio/mycpy1.c ("fread") and fileio/trunc_ln_10.c ("trunc"), *)
(* which copies all but one line to a temporary file and that one back.    *)
(*                                                                         *)
(* A byte is 10 (the newline), 255 (which is EOF once it is in a char) or  *)
(* any other.  Source and destination are different files, and char is     *)
(* signed as it is on the platforms the makefile builds for.               *)
(***************************************************************************)
EXTENDS Integers, Sequences, FiniteSets

CONSTANTS
  Programs,     \* subset of {"read", "fgetc", "fread", "trunc"}
  Bytes,        \* the bytes files are made of
  Length,       \* greatest length of a file
  BUF_SIZE,     \* BUF_SIZE
  LINE,         \* the line to delete (10)
  MaxFaults     \* bound: calls that fail

ASSUME CopyAssumption ==
  /\ Programs \subseteq {"read", "fgetc", "fread", "trunc"}
  /\ Bytes \subseteq 0 .. 255 /\ Length \in Nat
  /\ BUF_SIZE \in Nat \ {0} /\ LINE \in Nat \ {0} /\ MaxFaults \in Nat

VARIABLES
  program, pc,
  src,          \* contents of argv[1] at the start
  pos,          \* bytes read from it, from tmp in the second loop of trunc_ln_10.c
  buf, remain,  \* the bytes last read, and how many of them are still to be handled
  line,         \* line (trunc_ln_10.c)
  tmp,          \* the temporary file (trunc_ln_10.c)
  dst,          \* contents of the destination: argv[2], or argv[1] (trunc_ln_10.c)
  faults,       \* history: calls that failed
  silent        \* history: output was lost by a call whose result nobody looks at

vars == <<program, pc, src, pos, buf, remain, line, tmp, dst, faults, silent>>

Files == UNION {[1 .. n -> Bytes] : n \in 0 .. Length}

\* What may be left of s when its end is lost.
Beginnings(s) == {SubSeq(s, 1, k) : k \in 0 .. Len(s)}

TypeOK ==
  /\ program \in Programs
  /\ pc \in {"open", "read", "write", "reopen", "back", "done", "failed", "killed"}
  /\ src \in Files /\ tmp \in Files /\ dst \in Files
  /\ pos \in 0 .. Length /\ remain \in 0 .. BUF_SIZE /\ line \in 1 .. Length + 1
  /\ buf \in Seq(Bytes) /\ Len(buf) <= BUF_SIZE
  /\ faults \in 0 .. MaxFaults /\ silent \in BOOLEAN

\* What the destination of a copy held before is left out: opening it empties it.
Init ==
  /\ program \in Programs /\ pc = "open"
  /\ src \in Files
  /\ pos = 0 /\ buf = <<>> /\ remain = 0 /\ line = 1
  /\ tmp = <<>> /\ dst = IF program = "trunc" THEN src ELSE <<>>
  /\ faults = 0 /\ silent = FALSE

Fault == faults < MaxFaults /\ faults' = faults + 1

-----------------------------------------------------------------------------
(* Faulty variants of single steps, used by no specification. *)

\* After a short write the buffer is written from its start.
WriteAgain ==
  /\ program = "read" /\ pc = "write"
  /\ \E k \in 1 .. remain :
       /\ dst' = dst \o SubSeq(buf, 1, k)
       /\ remain' = remain - k
       /\ pc' = IF remain = k THEN "read" ELSE "write"
  /\ UNCHANGED <<program, src, pos, buf, line, tmp, faults, silent>>

\* The newline is counted before the byte is kept or dropped.
KeepEarly ==
  /\ program = "trunc" /\ pc = "write"
  /\ LET b == buf[Len(buf) - remain + 1] IN
     /\ line' = IF b = 10 THEN line + 1 ELSE line
     /\ tmp' = IF line' = LINE THEN tmp ELSE Append(tmp, b)
  /\ remain' = remain - 1
  /\ pc' = IF remain = 1 THEN "read" ELSE "write"
  /\ UNCHANGED <<program, src, pos, buf, dst, faults, silent>>

-----------------------------------------------------------------------------
\* The arguments and the two open() or fopen(); the second empties the destination.
Open ==
  /\ pc = "open"
  /\ pc' = "read"
  /\ UNCHANGED <<program, src, pos, buf, remain, line, tmp, dst, faults, silent>>

\* exit(), with what has been opened closed.  (Without a tmpfile() the first fputc
\* ends the process.)
OpenFails ==
  /\ pc = "open" /\ Fault
  /\ pc' = "failed"
  /\ UNCHANGED <<program, src, pos, buf, remain, line, tmp, dst, silent>>

\* read() may give less than it was asked for, fread() only at the end of the file.
Chunks ==
  LET left == Len(src) - pos
      most == IF left < BUF_SIZE THEN left ELSE BUF_SIZE IN
  IF program = "fread" THEN {most} \ {0} ELSE 1 .. most

\* fileio/mycpy.c and trunc_ln_10.c read and go on to the loop over what was read.
Read ==
  /\ program \in {"read", "trunc"} /\ pc = "read"
  /\ \E k \in Chunks :
       /\ buf' = SubSeq(src, pos + 1, pos + k)
       /\ remain' = k /\ pos' = pos + k
  /\ pc' = "write"
  /\ UNCHANGED <<program, src, line, tmp, dst, faults, silent>>

\* write(dst, buf + sz - remain, remain)
Write ==
  /\ program = "read" /\ pc = "write"
  /\ \E k \in 1 .. remain :
       /\ dst' = dst \o SubSeq(buf, Len(buf) - remain + 1, Len(buf) - remain + k)
       /\ remain' = remain - k
       /\ pc' = IF remain = k THEN "read" ELSE "write"
  /\ UNCHANGED <<program, src, pos, buf, line, tmp, faults, silent>>

\* One turn of trunc_ln_10.c's for loop.
Keep ==
  /\ program = "trunc" /\ pc = "write"
  /\ LET b == buf[Len(buf) - remain + 1] IN
     /\ tmp' = IF line = LINE THEN tmp ELSE Append(tmp, b)
     /\ line' = IF b = 10 THEN line + 1 ELSE line
  /\ remain' = remain - 1
  /\ pc' = IF remain = 1 THEN "read" ELSE "write"
  /\ UNCHANGED <<program, src, pos, buf, dst, faults, silent>>

\* fread() and fwrite(), whose result nobody looks at.
FreadFwrite ==
  /\ program = "fread" /\ pc = "read"
  /\ \E k \in Chunks : dst' = dst \o SubSeq(src, pos + 1, pos + k) /\ pos' = pos + k
  /\ UNCHANGED <<program, pc, src, buf, remain, line, tmp, faults, silent>>

\* c = fgetc(src); a byte 255 is taken for EOF.
FgetcFputc ==
  /\ program = "fgetc" /\ pc = "read" /\ pos < Len(src)
  /\ pos' = pos + 1
  /\ IF src[pos + 1] = 255 THEN pc' = "done" /\ UNCHANGED dst
     ELSE dst' = Append(dst, src[pos + 1]) /\ UNCHANGED pc
  /\ UNCHANGED <<program, src, buf, remain, line, tmp, faults, silent>>

\* The end of the file; trunc_ln_10.c goes back to the start of tmp.
ReadEnd ==
  /\ pc = "read" /\ pos = Len(src)
  /\ pc' = IF program = "trunc" THEN "reopen" ELSE "done"
  /\ pos' = IF program = "trunc" THEN 0 ELSE pos
  /\ UNCHANGED <<program, src, buf, remain, line, tmp, dst, faults, silent>>

\* read() fails: exit().  fgetc() and fread() cannot be told from the end.
ReadFails ==
  /\ pc = "read" /\ Fault
  /\ pc' = IF program \in {"read", "trunc"} THEN "failed" ELSE "done"
  /\ silent' = (silent \/ program \in {"fgetc", "fread"})
  /\ UNCHANGED <<program, src, pos, buf, remain, line, tmp, dst>>

WriteFails ==
  /\ program = "read" /\ pc = "write" /\ Fault
  /\ pc' = "failed"
  /\ UNCHANGED <<program, src, pos, buf, remain, line, tmp, dst, silent>>

\* stdio could not write a byte or, at the fclose() after the loops, what it still
\* held, and nobody has looked.
OutputLost ==
  /\ Fault
  /\ \/ /\ program \in {"fgetc", "fread"} /\ pc = "read" /\ pos < Len(src)
        /\ pos' = pos + 1
        /\ UNCHANGED <<pc, remain, line, dst>>
     \/ /\ program = "trunc" /\ pc = "write" /\ line # LINE
        /\ line' = IF buf[Len(buf) - remain + 1] = 10 THEN line + 1 ELSE line
        /\ remain' = remain - 1
        /\ pc' = IF remain = 1 THEN "read" ELSE "write"
        /\ UNCHANGED <<pos, dst>>
     \/ /\ program # "read" /\ pc = "done"
        /\ dst' \in Beginnings(dst)
        /\ UNCHANGED <<pc, pos, remain, line>>
  /\ silent' = TRUE
  /\ UNCHANGED <<program, src, buf, tmp>>

-----------------------------------------------------------------------------
(* The second half of trunc_ln_10.c *)

\* fopen(argv[1], "w") empties the file.
Reopen ==
  /\ pc = "reopen"
  /\ dst' = <<>> /\ pc' = "back"
  /\ UNCHANGED <<program, src, pos, buf, remain, line, tmp, faults, silent>>

\* fopen() or fputc() fails: exit(1).
BackFails ==
  /\ pc \in {"reopen", "back"} /\ Fault
  /\ pc' = "failed"
  /\ dst' \in (IF pc = "back" THEN Beginnings(dst) ELSE {dst})
  /\ UNCHANGED <<program, src, pos, buf, remain, line, tmp, silent>>

\* char c = fgetc(tmp) and fputc(c, f).
Back ==
  /\ pc = "back"
  /\ IF pos < Len(tmp) /\ tmp[pos + 1] # 255
       THEN dst' = Append(dst, tmp[pos + 1]) /\ pos' = pos + 1 /\ UNCHANGED pc
       ELSE pc' = "done" /\ UNCHANGED <<dst, pos>>
  /\ UNCHANGED <<program, src, buf, remain, line, tmp, faults, silent>>

\* A signal ends the process; what stdio has not written yet is lost.
Kill ==
  /\ pc \in {"read", "write", "reopen", "back"} /\ Fault
  /\ pc' = "killed"
  /\ dst' \in (IF program \in {"fgetc", "fread"} \/ pc = "back" THEN Beginnings(dst) ELSE {dst})
  /\ UNCHANGED <<program, src, pos, buf, remain, line, tmp, silent>>

Next ==
  \/ Open \/ OpenFails \/ Read \/ Write \/ Keep \/ FreadFwrite \/ FgetcFputc \/ ReadEnd
  \/ ReadFails \/ WriteFails \/ OutputLost \/ Reopen \/ BackFails \/ Back \/ Kill

Spec == Init /\ [][Next]_vars

-----------------------------------------------------------------------------
(* Properties *)

\* The line that byte k is in, by the number of newlines before it.
LineOf(s, k) == Cardinality({m \in 1 .. k - 1 : s[m] = 10}) + 1

\* The bytes of the lines before LINE and then those of the lines after it.
WithoutLine(s) ==
  LET before == Cardinality({k \in DOMAIN s : LineOf(s, k) < LINE})
      after == Cardinality({k \in DOMAIN s : LineOf(s, k) > LINE}) IN
  SubSeq(s, 1, before) \o SubSeq(s, Len(s) - after + 1, Len(s))

\* What a program is there to write: "copy file from source to destination"
\* (stdio/mycpy.c:2), or the file without line LINE.
Wanted == IF program = "trunc" THEN WithoutLine(src) ELSE src

\* The copy ends before a byte 255, where stdio/mycpy.c:40 and trunc_ln_10.c:61
\* compare a char with EOF.
StoppedAtFF ==
  /\ program \in {"fgetc", "trunc"}
  /\ Len(dst) < Len(Wanted) /\ Wanted[Len(dst) + 1] = 255

\* Through short reads and writes and any cut into buffers, the destination is at
\* every moment, also after a failure or a kill, the beginning of what is wanted
\* (for trunc_ln_10.c, or still the original).  When the program ends by itself it
\* is all of it, unless an unchecked call has lost something or the program has
\* stopped at a byte 255, against what stdio/mycpy.c says of itself.
CopiesWanted ==
  /\ TypeOK
  /\ ~silent => dst \in Beginnings(Wanted) \/ (program = "trunc" /\ dst = src)
  /\ ~silent /\ pc = "done" => dst = Wanted \/ StoppedAtFF

\* "Delete the 10th line of a text file" without losing another: until
\* trunc_ln_10.c has put everything but that line into tmp it does not touch the
\* file, whatever fails.
OriginalKept ==
  program = "trunc" => dst = src \/ (~silent => tmp = WithoutLine(src))
=============================================================================
