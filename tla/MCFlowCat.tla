----------------------------- MODULE MCFlowCat ------------------------------
(* Instances of FlowCat for TLC. *)
EXTENDS FlowCat
=============================================================================
