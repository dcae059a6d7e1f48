--------------------------- MODULE MCConfigStore ---------------------------
(* Instances of ConfigStore for TLC. *)
EXTENDS ConfigStore, TLC

CONSTANTS q1, q2, q3, q4

\* Requests are told apart only by what they do.
AnyRequest == Permutations(Request)
=============================================================================
