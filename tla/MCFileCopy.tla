----------------------------- MODULE MCFileCopy -----------------------------
(* Instances of FileCopy for TLC. *)
EXTENDS FileCopy
=============================================================================
