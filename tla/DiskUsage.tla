----------------------------- MODULE DiskUsage ------------------------------
(***************************************************************************)
(* fs/du.c: the disk usage of a directory tree, added up by a recursion    *)
(* over readdir() (du) or over glob() (du_by_glob), while other processes  *)
(* create and remove entries.                                              *)
(*                                                                         *)
(* The entries are 1 .. N, entry 1 being argv[1], and every entry but the  *)
(* first lies in one of a lower number.  A path is represented by the      *)
(* entry it leads to; the name of an entry matters to glob(), which treats *)
(* a directory called * as a pattern.  The number of bytes is represented  *)
(* by how often each entry has been added to it; the scaling of that       *)
(* number to b, k, m or g is left out.                                     *)
(***************************************************************************)
EXTENDS Integers, Sequences, FiniteSets

CONSTANTS
  N,            \* entries
  Names,        \* names of entries
  Hidden,       \* those that start with a dot
  Star,         \* the name *
  MaxChanges,   \* bound: entries created or removed during the run
  MaxFaults     \* bound: calls that fail for another reason

ASSUME UsageAssumption ==
  /\ N \in Nat \ {0} /\ Hidden \subseteq Names /\ Star \notin Hidden
  /\ MaxChanges \in Nat /\ MaxFaults \in Nat

Entry == 1 .. N

VARIABLES
  parent, dir, name, \* the tree: where an entry lies, which are directories, the names
  present,      \* the entries that exist
  by_glob,
  pc,           \* "lstat", "list", "next", "done" or "failed"
  path,         \* argument of the innermost call
  calls,        \* the calls that loop over a directory, with the entries left to each
  counted,      \* how often each entry is in r
  changed,      \* history: entries created or removed meanwhile
  faults        \* history: calls that failed

tree == <<parent, dir, name, by_glob>>
usageVars == <<tree, present, pc, path, calls, counted, changed, faults>>

Children(d) == {e \in present : e # 1 /\ parent[e] = d}

\* The entries that the path of y leads to when it is taken as a pattern: * stands
\* for every name that is not hidden.
Matched[y \in Entry] ==
  IF y = 1 THEN {1}
  ELSE {x \in Entry \ {1} :
         /\ parent[x] \in Matched[parent[y]]
         /\ name[x] = name[y] \/ (name[y] = Star /\ name[x] \notin Hidden)}

\* The pattern path/* and, appended, path/.* without . and ..
Globbed(d) ==
  LET In == {e \in present : e # 1 /\ parent[e] \in Matched[d]} IN
  {e \in In : name[e] \notin Hidden} \cup {e \in In : name[e] \in Hidden}

UsageTypeOK ==
  /\ parent \in [Entry -> 0 .. N] /\ dir \in [Entry -> BOOLEAN] /\ name \in [Entry -> Names]
  /\ present \subseteq Entry /\ changed \subseteq Entry
  /\ by_glob \in BOOLEAN
  /\ pc \in {"lstat", "list", "next", "done", "failed"}
  /\ path \in Entry /\ calls \in Seq([of : Entry, left : SUBSET Entry]) /\ counted \in [Entry -> Nat]
  /\ faults \in 0 .. MaxFaults

\* Every tree, with any of its entries missing.  by_glob is set when DU_BY_GLOB has
\* a value other than 1.
UsageInit ==
  /\ parent \in {p \in [Entry -> 0 .. N - 1] : p[1] = 0 /\ \A e \in 2 .. N : p[e] \in 1 .. e - 1}
  /\ dir \in {d \in [Entry -> BOOLEAN] : \A e \in 2 .. N : d[parent[e]]}
  /\ name \in {f \in [Entry -> Names] :
                /\ f[1] # Star
                /\ \A e, g \in 2 .. N : e # g /\ parent[e] = parent[g] => f[e] # f[g]}
  /\ present \in {s \in SUBSET Entry : 1 \in s /\ \A e \in s \ {1} : parent[e] \in s}
  /\ \E env \in {"unset", "1", "other"} : by_glob = (env = "other")
  /\ pc = "lstat" /\ path = 1 /\ calls = <<>>
  /\ counted = [e \in Entry |-> 0]
  /\ changed = {} /\ faults = 0

-----------------------------------------------------------------------------
(* Faulty variants of single steps, used by no specification. *)

\* . is not skipped.
OpenDirDot(d) == Children(d) \cup {d}

\* The result of opendir() is not looked at.
FailsAtLstat ==
  /\ pc = "lstat"
  /\ \/ path \notin present /\ UNCHANGED faults
     \/ faults < MaxFaults /\ faults' = faults + 1
  /\ pc' = "failed"
  /\ UNCHANGED <<tree, present, path, calls, counted, changed>>

-----------------------------------------------------------------------------
\* The return of a call, to the loop that made it or to main.
Returns == IF calls = <<>> THEN "done" ELSE "next"

\* lstat(path): add the entry's blocks; a directory is then listed.
Lstat ==
  /\ pc = "lstat" /\ path \in present
  /\ counted' = [counted EXCEPT ![path] = @ + 1]
  /\ pc' = IF dir[path] THEN "list" ELSE Returns
  /\ UNCHANGED <<tree, present, path, calls, changed, faults>>

\* What opendir() and readdir() find.
OpenDir(d) == Children(d)

\* glob() twice, or opendir(): the entries the loop will go through.
List ==
  /\ pc = "list"
  /\ by_glob \/ path \in present
  /\ calls' = Append(calls, [of |-> path, left |-> IF by_glob THEN Globbed(path) ELSE OpenDir(path)])
  /\ pc' = "next"
  /\ UNCHANGED <<tree, present, path, counted, changed, faults>>

\* glob() does not say that it could not read the directory.
GlobBlind ==
  /\ pc = "list" /\ by_glob /\ faults < MaxFaults
  /\ faults' = faults + 1
  /\ calls' = Append(calls, [of |-> path, left |-> {}])
  /\ pc' = "next"
  /\ UNCHANGED <<tree, present, path, counted, changed>>

\* exit(1): the entry is gone, or lstat() or opendir() fails for another reason.
Fails ==
  /\ pc = "lstat" \/ (pc = "list" /\ ~by_glob)
  /\ \/ path \notin present /\ UNCHANGED faults
     \/ faults < MaxFaults /\ faults' = faults + 1
  /\ pc' = "failed"
  /\ UNCHANGED <<tree, present, path, calls, counted, changed>>

\* The next entry of the innermost loop, or the end of its call.
NextEntry ==
  /\ pc = "next"
  /\ LET n == Len(calls) IN
     IF calls[n].left = {}
       THEN /\ calls' = SubSeq(calls, 1, n - 1)
            /\ pc' = IF n = 1 THEN "done" ELSE "next"
            /\ UNCHANGED path
       ELSE \E e \in calls[n].left :
            /\ path' = e /\ pc' = "lstat"
            /\ calls' = [calls EXCEPT ![n].left = @ \ {e}]
  /\ UNCHANGED <<tree, present, counted, changed, faults>>

\* Another process creates or removes an entry; a readdir() under way may notice it
\* or not, glob() is done with the directory.
Change(e) ==
  /\ pc \notin {"done", "failed"} /\ e \in Entry \ ({1} \cup changed)
  /\ Cardinality(changed) < MaxChanges
  /\ changed' = changed \cup {e}
  /\ \/ e \in present /\ Children(e) = {} /\ present' = present \ {e}
     \/ e \notin present /\ parent[e] \in present /\ present' = present \cup {e}
  /\ \/ UNCHANGED calls
     \/ /\ ~by_glob
        /\ calls' = [k \in DOMAIN calls |->
             IF calls[k].of # parent[e] THEN calls[k]
             ELSE [calls[k] EXCEPT !.left = IF e \in present THEN @ \ {e} ELSE @ \cup {e}]]
  /\ UNCHANGED <<tree, pc, path, counted, faults>>

Proceed == Lstat \/ List \/ NextEntry \/ (path \notin present /\ Fails)

UsageNext == Proceed \/ Fails \/ GlobBlind \/ \E e \in Entry : Change(e)

UsageSpec == UsageInit /\ [][UsageNext]_usageVars

\* The process runs; the others need not do anything.
UsageFairSpec == UsageSpec /\ WF_usageVars(Proceed)

-----------------------------------------------------------------------------
(* Properties *)

\* No name in the tree is a pattern, or readdir() is used.
Literal == by_glob => \A e \in Entry : name[e] # Star

\* "Print disk usage recursively": an entry that is there all the time is added
\* exactly once when the program comes to its end and never twice, at any depth,
\* hidden or not, and whatever other entries come and go meanwhile; unless glob()
\* takes a name for a pattern or keeps an error to itself.
CountsOnce ==
  /\ UsageTypeOK
  /\ Literal => \A e \in Entry \ changed :
       /\ counted[e] <= 1
       /\ pc = "done" /\ faults = 0 => (counted[e] = 1 <=> e \in present)

\* The program ends although the tree changes under it and although a pattern leads
\* it into a directory more than once, and it fails only if an entry has gone or a
\* call has failed.
Ends == <>(pc = "done" \/ (pc = "failed" /\ (changed # {} \/ faults > 0)))
=============================================================================
