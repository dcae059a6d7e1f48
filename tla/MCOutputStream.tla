-------------------------- MODULE MCOutputStream --------------------------
(* Instances of OutputStream for TLC. *)
EXTENDS OutputStream

CONSTANTS j1, j2, j3
=============================================================================
