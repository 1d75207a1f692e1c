----------------------------- MODULE HttpClient -----------------------------
(***************************************************************************)
(* socket/http_client.c: sends a GET and stores what follows the head of   *)
(* the response in a file.  The head is skipped by an automaton over its   *)
(* line ends.                                                              *)
(*                                                                         *)
(* Of a byte only its class matters: "r" and "n" are \r and \n, "x" is any *)
(* other.  The file is appended to in the order of reading, so it is given *)
(* by the set of positions of the bytes in it; the disk has room.          *)
(***************************************************************************)
EXTENDS Integers, Sequences

CONSTANT Responses    \* what servers may send

Byte == {"r", "n", "x"}

ASSUME HttpAssumption == Responses \subseteq Seq(Byte)

VARIABLES
  main,       \* where the program is
  response,   \* what the server sends
  pos,        \* bytes that fgetc has returned
  status,     \* status
  body,       \* body
  saved       \* positions of the bytes that fputc has written

vars == <<main, response, pos, status, body, saved>>

TypeOK ==
  /\ main \in {"args", "connect", "open", "read", "done", "usage", "failed"}
  /\ response \in Responses
  /\ pos \in 0 .. Len(response)
  /\ status \in 0 .. 3 /\ body \in BOOLEAN
  /\ saved \subseteq 1 .. pos

Init ==
  /\ main = "args"
  /\ response \in Responses
  /\ pos = 0 /\ status = 0 /\ body = FALSE /\ saved = {}

-----------------------------------------------------------------------------
(* Faulty variants of single definitions, used by no specification. *)

\* A byte inside a line does not reset the status.
NextStatusKeeps(c) ==
  IF c = "r" /\ status \in {0, 2} THEN status + 1
  ELSE IF c = "n" /\ status = 1 THEN 2 ELSE status

\* The first line end is taken for the end of the head.
EmptyLineAny(c) == c = "n" /\ status \in {1, 3}

\* The \n of the empty line is written, too.
ReadByteNoContinue ==
  /\ main = "read" /\ pos < Len(response)
  /\ LET c == response[pos + 1] IN
       /\ status' = (IF c = "x" THEN 0 ELSE IF c = "r" /\ status \in {0, 2} THEN status + 1
                     ELSE IF c = "n" /\ status = 1 THEN 2 ELSE status)
       /\ body' = (body \/ (c = "n" /\ status = 3))
  /\ saved' = IF body' THEN saved \cup {pos + 1} ELSE saved
  /\ pos' = pos + 1
  /\ UNCHANGED <<main, response>>

-----------------------------------------------------------------------------
(* main *)

\* All four options are given, or one of them is missing: the usage is printed.
Args ==
  /\ main = "args"
  /\ main' \in {"connect", "usage"}
  /\ UNCHANGED <<response, pos, status, body, saved>>

\* Connect and send the request, then open the file; any of it may fail.
Connect ==
  /\ main = "connect"
  /\ main' \in {"open", "failed"}
  /\ UNCHANGED <<response, pos, status, body, saved>>

OpenOut ==
  /\ main = "open"
  /\ main' \in {"read", "failed"}
  /\ UNCHANGED <<response, pos, status, body, saved>>

-----------------------------------------------------------------------------
(* The loop of download *)

\* Of the tests on status at most one changes it, since each is for one of \r
\* and \n and for one value.
NextStatus(c) ==
  CASE c = "r" /\ status \in {0, 2} -> status + 1
    [] c = "n" /\ status = 1 -> 2
    [] c = "x" -> 0
    [] OTHER -> status

\* body = 1; continue
EmptyLine(c) == c = "n" /\ status = 3

ReadByte ==
  /\ main = "read" /\ pos < Len(response)
  /\ LET c == response[pos + 1] IN
       /\ status' = NextStatus(c)
       /\ body' = (body \/ EmptyLine(c))
       /\ saved' = IF body /\ ~EmptyLine(c) THEN saved \cup {pos + 1} ELSE saved
  /\ pos' = pos + 1
  /\ UNCHANGED <<main, response>>

\* fgetc returns EOF, at the end of the response or because the connection is
\* lost: close and exit(0).
Eof ==
  /\ main = "read"
  /\ main' = "done"
  /\ UNCHANGED <<response, pos, status, body, saved>>

Next == Args \/ Connect \/ OpenOut \/ ReadByte \/ Eof

Spec == Init /\ [][Next]_vars

-----------------------------------------------------------------------------
(* What the automaton recognises, in terms of the response *)

\* The line-end bytes up to position p that no other byte separates from p.
Run(p) == {a \in 1 .. p : \A b \in a .. p : response[b] # "x"}

\* The run contains \r, \r..\n, \r..\n..\r, with anything between them.
HasR(p) == \E a \in Run(p) : response[a] = "r"
HasRN(p) == \E a, b \in Run(p) : a < b /\ response[a] = "r" /\ response[b] = "n"
HasRNR(p) == \E a, b, c \in Run(p) : /\ a < b /\ b < c
                                     /\ response[a] = "r" /\ response[b] = "n" /\ response[c] = "r"

\* The automaton takes the \n at p for the end of an empty line.
EndsEmpty(p) == response[p] = "n" /\ HasRNR(p - 1)

\* A head as HTTP has it: lines that start with another byte and end in \r\n,
\* and at h the end of the first empty one.
IsHead(h) ==
  /\ h \in 5 .. Len(response) /\ response[1] = "x"
  /\ response[h - 3] = "r" /\ response[h - 1] = "r" /\ response[h] = "n"
  /\ \A p \in 1 .. h - 1 : response[p] = "r" <=> response[p + 1] = "n"
  /\ \A p \in 4 .. h - 1 : ~(response[p - 3] = "r" /\ response[p - 1] = "r")

-----------------------------------------------------------------------------
(* Properties *)

\* status is the longest part of \r\n\r that can be picked, in order, from the
\* line ends just read.
StatusMeansRun ==
  /\ status >= 1 <=> HasR(pos)
  /\ status >= 2 <=> HasRN(pos)
  /\ status = 3 <=> HasRNR(pos)

\* "body is after \r\n\r\n" (http_client.c:67): of a response with a head the file
\* holds every byte behind it that was received and nothing else, until a \n comes
\* that ends an empty line of the body or is the body's first byte.  From there on
\* this does not hold: the automaton runs on, and the continue at line 90 drops
\* the \n.
BodySaved ==
  \A h \in 1 .. Len(response) :
    IsHead(h) /\ (\A p \in h + 1 .. pos : ~EndsEmpty(p)) => saved = h + 1 .. pos

\* Whatever the body contains, no byte of a head is saved, and the body begins
\* where the head ends.
HeadSkipped ==
  \A h \in 1 .. Len(response) : IsHead(h) =>
    /\ saved \subseteq h + 1 .. Len(response)
    /\ pos >= h => body
=============================================================================
