--------------------------- MODULE MCStatusFeed ---------------------------
(* Instances of StatusFeed for TLC. *)
EXTENDS StatusFeed, TLC

CONSTANTS c1, c2
=============================================================================
