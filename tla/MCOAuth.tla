------------------------------ MODULE MCOAuth ------------------------------
(* Instances of OAuth for TLC. *)
EXTENDS OAuth, TLC

CONSTANTS w1, w2, a1

\* Requests in flight are told apart only by what they do.
AnyWorker == Permutations(Worker)
=============================================================================
