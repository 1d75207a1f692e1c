---------------------------- MODULE MCDiskUsage -----------------------------
(* Instances of DiskUsage for TLC. *)
EXTENDS DiskUsage
=============================================================================
