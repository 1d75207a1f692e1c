----------------------------- MODULE MCAnyTimer -----------------------------
(* Instances of AnyTimer for TLC. *)
EXTENDS AnyTimer

MCMinSec == -2
=============================================================================
