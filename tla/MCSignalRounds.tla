--------------------------- MODULE MCSignalRounds ---------------------------
(* Instances of SignalRounds for TLC. *)
EXTENDS SignalRounds
=============================================================================
