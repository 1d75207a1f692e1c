-------------------------- MODULE MCLockedCounter ---------------------------
(* Instances of LockedCounter for TLC. *)
EXTENDS LockedCounter
=============================================================================
