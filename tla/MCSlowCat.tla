----------------------------- MODULE MCSlowCat ------------------------------
(* Instances of SlowCat for TLC. *)
EXTENDS SlowCat
=============================================================================
