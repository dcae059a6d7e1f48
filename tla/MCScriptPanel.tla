--------------------------- MODULE MCScriptPanel ---------------------------
(* Instances of ScriptPanel for TLC. *)
EXTENDS ScriptPanel, TLC

CONSTANTS s1, s2, r1, r2, raw, neat, bad
=============================================================================
