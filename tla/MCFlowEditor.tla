--------------------------- MODULE MCFlowEditor ---------------------------
(* Instances of FlowEditor for TLC. *)
EXTENDS FlowEditor
=============================================================================
